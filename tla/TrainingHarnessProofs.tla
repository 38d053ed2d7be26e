----------------------- MODULE TrainingHarnessProofs -----------------------
(***************************************************************************)
(* Proofs about the run of a deployment whose buffers lie in arenas: what  *)
(* every tensor holds from the time it is written until it is last read,   *)
(* through kernels, views, accumulations, the copies between the two       *)
(* networks and the optimiser, for every network that can be deployed and  *)
(* every number of mini-batches.                                           *)
(***************************************************************************)
EXTENDS DeploymentProofs

-----------------------------------------------------------------------------
(* The initialisation of a network in an arena. *)

Target(w, redirect, t) == IF t \in DOMAIN redirect THEN redirect[t] ELSE ArenaAddress(w, t)

(* The inputs and outputs get their targets. *)
TargetsGiven(w, first, redirect, B) ==
    /\ ptr' = [ptr EXCEPT ![w] = [t \in B |-> IF t \in Range(first)
                                              THEN Target(w, redirect, t) ELSE ptr[w][t]]]
    /\ heap' = heap /\ ip' = 1 /\ mem' = mem /\ strategy' = strategy

LEMMA InitNetworkFacts ==
    ASSUME NEW w \in Net, NEW first, NEW redirect, InitNetwork(w, first, redirect),
           strategy = "arena",
           NEW B, B = Buffers(nets[w]), first \in Seq(B),
           NEW A, ptr[w] \in [B -> A], \A t \in B : Target(w, redirect, t) \in A
    PROVE  TargetsGiven(w, first, redirect, B)
<1> DEFINE n == Len(first)
           assign(done, t) ==
            LET words == nets[w].size[t]
                new == HeapAddress(done.heap, words)
                point(address, blocks) ==
                    [ptr |-> [done.ptr EXCEPT ![t] = address], heap |-> blocks]
            IN  IF strategy = "heap" /\ UpdatedInPlace(nets[w], t)
                THEN point(done.ptr[AliasOf(nets[w], t)], done.heap)
                ELSE IF t \in DOMAIN redirect THEN point(redirect[t], done.heap)
                ELSE IF strategy = "arena" THEN point(ArenaAddress(w, t), done.heap)
                ELSE point(new, done.heap \cup {Handed(new, words)})
           after[k \in 0..Len(first)] ==
            IF k = 0 THEN [ptr |-> ptr[w], heap |-> heap] ELSE assign(after[k - 1], first[k])
           Def(g) == g = [k \in 0..Len(first) |->
            IF k = 0 THEN [ptr |-> ptr[w], heap |-> heap] ELSE assign(g[k - 1], first[k])]
           V == [ptr : [B -> A], heap : {heap}]
           put(v, t) == [ptr |-> [v.ptr EXCEPT ![t] = Target(w, redirect, t)], heap |-> heap]
           start == [ptr |-> ptr[w], heap |-> heap]
           step == [k \in 1..n |-> [v \in V |-> put(v, first[k])]]
<1>1. n \in Nat /\ DOMAIN first = 1..n /\ \A k \in 1..n : first[k] \in B
  OBVIOUS
<1>2. start \in V /\ \A v \in V : \A t \in B : put(v, t) \in V
  <2>1. start \in V
    OBVIOUS
  <2>2. ASSUME NEW v \in V, NEW t \in B PROVE put(v, t) \in V
    <3>1. v.ptr \in [B -> A] /\ Target(w, redirect, t) \in A
      OBVIOUS
    <3>2. [v.ptr EXCEPT ![t] = Target(w, redirect, t)] \in [B -> A]
      BY <3>1
    <3> QED BY <3>2
  <2> QED BY <2>1, <2>2
<1>3. \A v \in V : \A t \in B : assign(v, t) = put(v, t)
  BY DEF Target
<1> HIDE DEF V, put, assign, start
<1>4. PICK f : Iterates(f, n, V, start, step)
  <2>1. step \in Steps(n, V)
    BY <1>1, <1>2 DEF Steps
  <2> HIDE DEF n, step
  <2> QED BY <1>1, <1>2, <2>1, Recursion
<1>5. f \in [0..n -> V] /\ f[0] = start /\ \A i \in 1..n : f[i] = step[i][f[i - 1]]
  <2> HIDE DEF n, step
  <2> QED BY <1>4 DEF Iterates
<1>6. \A i \in 1..n : f[i - 1] \in V /\ f[i] = assign(f[i - 1], first[i])
  <2> TAKE i \in 1..n
  <2>1. i - 1 \in 0..n
    BY <1>1
  <2>2. f[i - 1] \in V
    <3> HIDE DEF n, step
    <3> QED BY <1>5, <2>1
  <2>3. f[i] = step[i][f[i - 1]]
    BY <1>5
  <2> QED BY <1>1, <1>3, <2>2, <2>3
<1>7. Def(f)
  <2> \A i \in 0..Len(first) : i = 0 \/ i \in 1..n
    BY <1>1
  <2> QED BY <1>5, <1>6 DEF start
<1>8. /\ after[0] = start
      /\ \A i \in 1..n : after[i] = assign(after[i - 1], first[i])
  <2> after = CHOOSE g : Def(g)
    BY DEF assign
  <2> HIDE DEF after
  <2>1. Def(after)
    <3> HIDE DEF Def
    <3> QED BY <1>7
  <2>2. \A i \in 1..n : i \in 0..Len(first) /\ i # 0
    BY <1>1
  <2>3. 0 \in 0..Len(first)
    BY <1>1
  <2>4. after[0] = start
    BY <2>1, <2>3 DEF start
  <2>5. ASSUME NEW i \in 1..n PROVE after[i] = assign(after[i - 1], first[i])
    <3>1. i \in 0..Len(first) /\ i # 0
      BY <2>2
    <3> HIDE DEF n, step
    <3>2. after[i] = IF i = 0 THEN [ptr |-> ptr[w], heap |-> heap] ELSE assign(after[i - 1], first[i])
      BY <2>1, <3>1, Zenon
    <3> QED BY <3>1, <3>2, Zenon
  <2> HIDE DEF n, step
  <2> QED BY <2>4, <2>5
<1>9. ptr' = [ptr EXCEPT ![w] = after[n].ptr] /\ heap' = after[n].heap
      /\ ip' = 1 /\ mem' = mem /\ strategy' = strategy
  BY DEF InitNetwork, assign
<1> HIDE DEF after
<1> DEFINE Right(k) ==
               /\ after[k] \in V
               /\ after[k].ptr = [t \in B |-> IF t \in {first[j] : j \in 1..k}
                                              THEN Target(w, redirect, t) ELSE ptr[w][t]]
           P == {k \in Nat : k <= n => Right(k)}
<1>10. Right(0)
  BY <1>2, <1>8 DEF start
<1>11. ASSUME NEW k \in Nat, k + 1 <= n, Right(k) PROVE Right(k + 1)
  <2> DEFINE j == k + 1
             u == first[j]
  <2>1. j \in 1..n /\ j - 1 = k /\ 1..j = (1..k) \cup {j}
    BY <1>1, <1>11
  <2> HIDE DEF j
  <2>2. after[j] = assign(after[k], u)
    BY <1>8, <2>1
  <2>3. u \in B /\ after[k] \in V
    BY <1>1, <1>11, <2>1
  <2>4. after[j] = put(after[k], u) /\ after[j] \in V
    BY <1>2, <1>3, <2>2, <2>3
  <2>5. after[j].ptr = [after[k].ptr EXCEPT ![u] = Target(w, redirect, u)]
    BY <2>4 DEF put
  <2>6. {first[a] : a \in 1..j} = {first[a] : a \in 1..k} \cup {u}
    BY <2>1
  <2>7. after[k].ptr = [t \in B |-> IF t \in {first[a] : a \in 1..k}
                                    THEN Target(w, redirect, t) ELSE ptr[w][t]]
    BY <1>11
  <2> DEFINE S == {first[a] : a \in 1..k}
             T == {first[a] : a \in 1..j}
  <2>8. T = S \cup {u} /\ after[k].ptr = [t \in B |-> IF t \in S THEN Target(w, redirect, t) ELSE ptr[w][t]]
    BY <2>6, <2>7
  <2> HIDE DEF S, T, u
  <2>9. after[j].ptr = [t \in B |-> IF t \in T THEN Target(w, redirect, t) ELSE ptr[w][t]]
    BY <2>3, <2>5, <2>8
  <2> QED BY <2>4, <2>9 DEF T, j
<1> HIDE DEF Right, n
<1>12. P = Nat
  <2>1. 0 \in P
    BY <1>10
  <2>2. ASSUME NEW k \in P PROVE k + 1 \in P
    <3> k \in Nat /\ (k + 1 <= n => k <= n)
      BY <1>1
    <3> QED BY <1>11
  <2> HIDE DEF P
  <2> QED BY <2>1, <2>2, NatInduct DEF P
<1>13. Right(n)
  <2>1. n \in P /\ n <= n
    <3> HIDE DEF P
    <3> QED BY <1>1, <1>12
  <2> QED BY <2>1
<1>14. Range(first) = {first[j] : j \in 1..n}
  BY <1>1 DEF Range
<1>15. after[n].heap = heap
  BY <1>13 DEF Right, V
<1> QED BY <1>9, <1>13, <1>14, <1>15 DEF Right, TargetsGiven

-----------------------------------------------------------------------------
(* The run of a deployment whose buffers lie in arenas. *)

(* The lists of inputs that the harness goes over. *)
LEMMA InputLists ==
    ASSUME Static, Training
    PROVE  /\ TrainingGraph(nets["net"])
           /\ OptimizerGraph(nets["net"], nets["opt"], deployment.shared)
           /\ \A w \in Net : \A role : InputsOf(w, role) = WithRole(nets[w], role)
           /\ NumData = Len(WithRole(nets["net"], "data"))
           /\ NumWeights = Len(WithRole(nets["net"], "weight"))
           /\ GradStart = GradStartOf(nets["net"])
<1>1. Deployable(deployment)
  BY DeploymentsAssumption DEF Static
<1>2. deployment.kind = "training" /\ nets = deployment.nets
  BY DEF Static, Training
<1>3. \A w \in Net : \A role : InputsOf(w, role) = WithRole(nets[w], role)
  BY DEF InputsOf, WithRole
<1>4. "net" \in Net
  BY DEF Net
<1> QED BY <1>1, <1>2, <1>3, <1>4 DEF Deployable, NumData, NumWeights, GradStart, GradStartOf

(* The inputs of the training network. *)
LEMMA TrainingInputs ==
    ASSUME Static, Training
    PROVE  LET N == nets["net"]
           IN  /\ NumData \in Nat /\ NumWeights \in Nat /\ NumWeights > 0
               /\ GradStart = NumData + NumWeights
               /\ Len(N.inputs) = GradStart + NumWeights + 1
               /\ N.inputs \in Seq(Buffers(N)) /\ DOMAIN N.inputs = 1..Len(N.inputs)
               /\ \A wi \in 1..NumWeights :
                      /\ TrainWeight(wi) \in Range(N.inputs) /\ N.role[TrainWeight(wi)] = "weight"
                      /\ TrainGrad(wi) \in Range(N.inputs) /\ N.role[TrainGrad(wi)] = "grad"
               /\ \A t \in Range(N.inputs) :
                      /\ N.role[t] = "weight" => \E wi \in 1..NumWeights : t = TrainWeight(wi)
                      /\ N.role[t] = "grad" => \E wi \in 1..NumWeights : t = TrainGrad(wi)
                      /\ N.role[t] \in {"data", "weight", "grad", "reset"}
               /\ \A t, u \in Range(N.inputs) : N.name[t] = N.name[u] => t = u
<1> DEFINE N == nets["net"]
           in == N.inputs
<1>1. /\ TrainingGraph(N) /\ WellFormed(N)
      /\ NumData = Len(WithRole(N, "data")) /\ NumWeights = Len(WithRole(N, "weight"))
      /\ GradStart = GradStartOf(N)
  BY InputLists, NetFacts DEF Net
<1>2. in \in Seq(Buffers(N)) /\ Len(in) \in Nat /\ DOMAIN in = 1..Len(in)
  BY <1>1, NetworkParts
<1>3. NumData \in Nat /\ NumWeights \in Nat
  <2>1. \A role : WithRole(N, role) \in Seq(Buffers(N))
    BY <1>2, PickedFacts DEF WithRole
  <2>2. \A role : Len(WithRole(N, role)) \in Nat
    BY <2>1
  <2> QED BY <1>1, <2>2
<1>4. GradStart = NumData + NumWeights
  BY <1>1 DEF GradStartOf
<1>5. /\ GradStart - NumData > 0 /\ Len(in) = GradStart + (GradStart - NumData) + 1
      /\ \A k \in DOMAIN in :
             N.role[in[k]] = IF k <= NumData THEN "data"
                             ELSE IF k <= GradStart THEN "weight"
                             ELSE IF k <= GradStart + (GradStart - NumData) THEN "grad"
                             ELSE "reset"
  BY <1>1 DEF TrainingGraph
<1>6. \A j, k \in DOMAIN in : N.name[in[j]] = N.name[in[k]] => j = k
  BY <1>1 DEF TrainingGraph
<1>7. GradStart - NumData = NumWeights
  BY <1>3, <1>4
<1>8. \A t \in Range(in) : \E k \in 1..Len(in) : t = in[k]
  BY <1>2 DEF Range
<1>9. \A k \in 1..Len(in) : in[k] \in Range(in)
  BY <1>2 DEF Range
<1> HIDE DEF in
<1>10. \A wi \in 1..NumWeights : /\ NumData + wi \in 1..Len(in) /\ GradStart + wi \in 1..Len(in)
                                 /\ ~ (NumData + wi <= NumData) /\ NumData + wi <= GradStart
                                 /\ ~ (GradStart + wi <= NumData) /\ ~ (GradStart + wi <= GradStart)
                                 /\ GradStart + wi <= GradStart + NumWeights
  BY <1>3, <1>4, <1>5, <1>7
<1>11. \A wi \in 1..NumWeights : /\ N.role[in[NumData + wi]] = "weight"
                                 /\ N.role[in[GradStart + wi]] = "grad"
  BY <1>2, <1>5, <1>7, <1>10
<1>12. \A wi : TrainWeight(wi) = in[NumData + wi] /\ TrainGrad(wi) = in[GradStart + wi]
  BY DEF TrainWeight, TrainGrad, in
<1>13. ASSUME NEW t \in Range(in)
       PROVE  /\ N.role[t] = "weight" => \E wi \in 1..NumWeights : t = TrainWeight(wi)
              /\ N.role[t] = "grad" => \E wi \in 1..NumWeights : t = TrainGrad(wi)
              /\ N.role[t] \in {"data", "weight", "grad", "reset"}
  <2>1. PICK k \in 1..Len(in) : t = in[k]
    BY <1>8
  <2>2. N.role[t] = IF k <= NumData THEN "data"
                    ELSE IF k <= GradStart THEN "weight"
                    ELSE IF k <= GradStart + NumWeights THEN "grad"
                    ELSE "reset"
    BY <1>2, <1>5, <1>7, <2>1
  <2>3. CASE N.role[t] = "weight"
    <3>1. k - NumData \in 1..NumWeights /\ NumData + (k - NumData) = k
      BY <1>2, <1>3, <1>4, <2>2, <2>3
    <3> QED BY <1>12, <2>1, <2>3, <3>1
  <2>4. CASE N.role[t] = "grad"
    <3>1. k - GradStart \in 1..NumWeights /\ GradStart + (k - GradStart) = k
      BY <1>2, <1>3, <1>4, <2>2, <2>4
    <3> QED BY <1>12, <2>1, <2>4, <3>1
  <2> QED BY <2>2, <2>3, <2>4
<1>14. \A t, u \in Range(in) : N.name[t] = N.name[u] => t = u
  BY <1>2, <1>6, <1>8
<1> QED BY <1>2, <1>3, <1>4, <1>5, <1>7, <1>9, <1>10, <1>11, <1>12, <1>13, <1>14 DEF in

(* The nodes and the inputs of the optimiser. *)
LEMMA OptimizerFacts ==
    ASSUME Static, Training
    PROVE  LET N == nets["net"]
               O == nets["opt"]
           IN  /\ Nodes(O) = 1..NumWeights /\ Range(O.outputs) = Produced(O, Len(O.nodes))
               /\ \A wi \in Nodes(O) :
                      /\ O.nodes[wi].op = "sgd" /\ O.nodes[wi].out = OptUpdated(wi)
                      /\ O.nodes[wi].ins = <<OptWeight(wi), OptGrad(wi)>>
                      /\ Range(O.nodes[wi].ins) = {OptWeight(wi), OptGrad(wi)}
                      /\ OptWeight(wi) \in Range(O.inputs) /\ OptGrad(wi) \in Range(O.inputs)
                      /\ OptUpdated(wi) \in Range(O.outputs)
                      /\ O.role[OptWeight(wi)] = "weight" /\ O.role[OptGrad(wi)] = "grad"
                      /\ O.role[OptUpdated(wi)] = "updated"
                      /\ O.name[OptWeight(wi)] = N.name[TrainWeight(wi)]
                      /\ O.name[OptUpdated(wi)] = N.name[TrainWeight(wi)]
                      /\ O.name[OptGrad(wi)] = N.name[TrainGrad(wi)]
                      /\ O.size[OptWeight(wi)] = O.size[OptUpdated(wi)]
                      /\ O.size[OptGrad(wi)] = O.size[OptUpdated(wi)]
                      /\ O.size[OptUpdated(wi)] <= N.size[TrainWeight(wi)]
                      /\ O.size[OptUpdated(wi)] <= N.size[TrainGrad(wi)]
                      /\ N.name[TrainWeight(wi)] \in deployment.shared =>
                             O.size[OptUpdated(wi)] = N.size[TrainWeight(wi)]
               /\ \A t \in Range(O.inputs) :
                      \E wi \in Nodes(O) : t = OptWeight(wi) \/ t = OptGrad(wi)
               /\ \A wi, wj \in Nodes(O) :
                      /\ OptWeight(wi) = OptWeight(wj) => wi = wj
                      /\ OptGrad(wi) = OptGrad(wj) => wi = wj
                      /\ OptWeight(wi) # OptGrad(wj)
               /\ \A wi \in Nodes(O) : Users(O, OptWeight(wi)) = {wi}
<1> DEFINE N == nets["net"]
           O == nets["opt"]
           in == O.inputs
           n == Len(O.nodes)
<1>1. /\ OptimizerGraph(N, O, deployment.shared) /\ WellFormed(O)
      /\ NumData = Len(WithRole(N, "data")) /\ NumWeights = Len(WithRole(N, "weight"))
      /\ GradStart = GradStartOf(N)
  BY InputLists, NetFacts DEF Net
<1>2. in \in Seq(Buffers(O)) /\ Len(in) \in Nat /\ DOMAIN in = 1..Len(in)
  BY <1>1, NetworkParts
<1>3. NumData \in Nat /\ NumWeights \in Nat /\ GradStart = NumData + NumWeights
  BY TrainingInputs
<1>4. /\ n = GradStart - NumData /\ Len(in) = 2 * (GradStart - NumData)
      /\ Range(O.outputs) = Produced(O, n)
      /\ \A wi \in Nodes(O) :
             LET node == O.nodes[wi]
                 weight == N.inputs[NumData + wi]
                 grad == N.inputs[GradStart + wi]
             IN  /\ node.op = "sgd"
                 /\ node.ins = <<in[2 * wi - 1], in[2 * wi]>>
                 /\ O.role[node.ins[1]] = "weight" /\ O.role[node.ins[2]] = "grad"
                 /\ O.role[node.out] = "updated"
                 /\ O.name[node.ins[1]] = N.name[weight] /\ O.name[node.out] = N.name[weight]
                 /\ O.name[node.ins[2]] = N.name[grad]
                 /\ O.size[node.ins[2]] = O.size[node.out]
                 /\ O.size[node.out] <= N.size[weight] /\ O.size[node.out] <= N.size[grad]
                 /\ N.name[weight] \in deployment.shared => O.size[node.out] = N.size[weight]
  BY <1>1 DEF OptimizerGraph
<1>5. n = NumWeights /\ Len(in) = 2 * NumWeights /\ Nodes(O) = 1..n
  <2>1. Nodes(O) = 1..n
    BY <1>1, NetworkParts
  <2> HIDE DEF n
  <2> QED BY <1>3, <1>4, <2>1
<1>6. \A wi : /\ TrainWeight(wi) = N.inputs[NumData + wi] /\ TrainGrad(wi) = N.inputs[GradStart + wi]
              /\ OptWeight(wi) = in[2 * wi - 1] /\ OptGrad(wi) = in[2 * wi]
              /\ OptUpdated(wi) = O.nodes[wi].out
  BY DEF TrainWeight, TrainGrad, OptWeight, OptGrad, OptUpdated
<1>7. ASSUME NEW wi \in Nodes(O)
      PROVE  /\ O.nodes[wi].op = "sgd" /\ O.nodes[wi].out = OptUpdated(wi)
             /\ O.nodes[wi].ins = <<OptWeight(wi), OptGrad(wi)>>
             /\ O.nodes[wi].ins[1] = OptWeight(wi) /\ O.nodes[wi].ins[2] = OptGrad(wi)
  <2>1. O.nodes[wi].op = "sgd" /\ O.nodes[wi].ins = <<in[2 * wi - 1], in[2 * wi]>>
    BY <1>4
  <2>2. \A x, y : <<x, y>>[1] = x /\ <<x, y>>[2] = y
    OBVIOUS
  <2> HIDE DEF in, O
  <2> QED BY <1>6, <2>1, <2>2
<1>8. ASSUME NEW wi \in Nodes(O)
      PROVE  /\ O.role[OptWeight(wi)] = "weight" /\ O.role[OptGrad(wi)] = "grad"
             /\ O.role[OptUpdated(wi)] = "updated"
             /\ O.name[OptWeight(wi)] = N.name[TrainWeight(wi)]
             /\ O.name[OptUpdated(wi)] = N.name[TrainWeight(wi)]
             /\ O.name[OptGrad(wi)] = N.name[TrainGrad(wi)]
             /\ O.size[OptGrad(wi)] = O.size[OptUpdated(wi)]
             /\ O.size[OptUpdated(wi)] <= N.size[TrainWeight(wi)]
             /\ O.size[OptUpdated(wi)] <= N.size[TrainGrad(wi)]
             /\ N.name[TrainWeight(wi)] \in deployment.shared =>
                    O.size[OptUpdated(wi)] = N.size[TrainWeight(wi)]
  <2> HIDE DEF N, O, in
  <2> QED BY <1>4, <1>6, <1>7
<1>9. ASSUME NEW wi \in Nodes(O)
      PROVE  O.size[OptWeight(wi)] = O.size[OptUpdated(wi)] /\ OptUpdated(wi) \in Range(O.outputs)
  <2>1. O.nodes[wi].op \in AliasingOp
    BY <1>7 DEF AliasingOp
  <2>2. O.size[O.nodes[wi].out] = O.size[O.nodes[wi].ins[1]]
    BY <1>1, <2>1, AliasIs
  <2>3. O.nodes[wi].out \in Produced(O, n)
    BY <1>5 DEF Produced
  <2> QED BY <1>4, <1>7, <2>2, <2>3
<1>10. ASSUME NEW wi \in Nodes(O)
       PROVE  2 * wi - 1 \in 1..Len(in) /\ 2 * wi \in 1..Len(in)
  BY <1>3, <1>5
<1>11. \A k \in 1..Len(in) : in[k] \in Range(in)
  BY <1>2 DEF Range
<1>12. \A t \in Range(in) : \E k \in 1..Len(in) : t = in[k]
  BY <1>2 DEF Range
<1>13. \A j, k \in 1..Len(in) : in[j] = in[k] => j = k
  BY <1>1, <1>2 DEF WellFormed, IsInjective
<1>14. \A wi \in Nodes(O) : OptWeight(wi) \in Range(in) /\ OptGrad(wi) \in Range(in)
  BY <1>6, <1>10, <1>11
<1>15. ASSUME NEW wi \in Nodes(O)
       PROVE  Range(O.nodes[wi].ins) = {OptWeight(wi), OptGrad(wi)}
  <2>1. DOMAIN <<OptWeight(wi), OptGrad(wi)>> = 1..2
    OBVIOUS
  <2>2. Range(<<OptWeight(wi), OptGrad(wi)>>) = {OptWeight(wi), OptGrad(wi)}
    BY <2>1 DEF Range
  <2> QED BY <1>7, <2>2
<1>16. ASSUME NEW t \in Range(in)
       PROVE  \E wi \in Nodes(O) : t = OptWeight(wi) \/ t = OptGrad(wi)
  <2>1. PICK k \in 1..Len(in) : t = in[k]
    BY <1>12
  <2>2. \E wi \in 1..NumWeights : k = 2 * wi - 1 \/ k = 2 * wi
    <3>1. k \in Nat /\ 1 <= k /\ k <= 2 * NumWeights
      BY <1>2, <1>3, <1>5
    <3>2. \E m \in Nat : k = 2 * m \/ k = 2 * m + 1
      <4>1. k = (2 * (k \div 2)) + (k % 2) /\ k \div 2 \in Nat /\ k % 2 \in 0..1
        BY <3>1, DivMod
      <4> QED BY <4>1
    <3>3. PICK m \in Nat : k = 2 * m \/ k = 2 * m + 1
      BY <3>2
    <3>4. CASE k = 2 * m
      <4>1. m \in 1..NumWeights
        BY <1>3, <3>1, <3>4
      <4> QED BY <3>4, <4>1
    <3>5. CASE k = 2 * m + 1
      <4>1. m + 1 \in 1..NumWeights /\ 2 * (m + 1) - 1 = k
        BY <1>3, <3>1, <3>5
      <4> QED BY <4>1
    <3> QED BY <3>3, <3>4, <3>5
  <2> QED BY <1>5, <1>6, <2>1, <2>2
<1>17. \A wi, wj \in 1..NumWeights : /\ 2 * wi - 1 = 2 * wj - 1 => wi = wj
                                     /\ 2 * wi = 2 * wj => wi = wj
                                     /\ 2 * wi - 1 # 2 * wj
  BY <1>3
<1>18. \A wi, wj \in Nodes(O) : /\ OptWeight(wi) = OptWeight(wj) => wi = wj
                                /\ OptGrad(wi) = OptGrad(wj) => wi = wj
                                /\ OptWeight(wi) # OptGrad(wj)
  <2> HIDE DEF in, O
  <2> QED BY <1>5, <1>6, <1>10, <1>13, <1>17
<1>19. ASSUME NEW wi \in Nodes(O) PROVE Users(O, OptWeight(wi)) = {wi}
  BY <1>15, <1>18 DEF Users
<1> HIDE DEF in, n
<1> QED BY <1>4, <1>5, <1>7, <1>8, <1>9, <1>14, <1>15, <1>16, <1>18, <1>19 DEF in, n

(* A tensor of the optimiser that is a buffer of the training network. *)
SharedBuffer(t) ==
    /\ t \in Range(nets["opt"].inputs) \cup Range(nets["opt"].outputs)
    /\ nets["opt"].name[t] \in deployment.shared

SourceOf(N, name) == CHOOSE v \in Range(N.inputs) : N.name[v] = name

(* Where a tensor is. *)
Spot(w, t) ==
    IF w = "opt" /\ SharedBuffer(t)
    THEN ArenaAddress("net", SourceOf(nets["net"], nets["opt"].name[t]))
    ELSE ArenaAddress(w, t)

Span(address, words) == {Offset(address, k) : k \in 0..(words - 1)}

Words(w, t) == Span(Spot(w, t), nets[w].size[t])

(* The cells from an address on. *)
LEMMA SpanFacts ==
    ASSUME NEW w \in Net, NEW l \in Nat, NEW n \in Nat, n > 0, l + n <= Top
    PROVE  LET address == [area |-> w, at |-> l]
           IN  /\ address \in Cell
               /\ \A k \in 0..(n - 1) :
                      /\ Offset(address, k) = [area |-> w, at |-> l + k]
                      /\ Offset(address, k) \in Span(address, n)
                      /\ Offset(address, k) \in Cell
               /\ Span(address, n) \subseteq Cell
               /\ \A c \in Span(address, n) :
                      /\ c.at - address.at \in 0..(n - 1)
                      /\ Offset(address, c.at - address.at) = c
<1> DEFINE address == [area |-> w, at |-> l]
<1>1. \A k : Offset(address, k) = [area |-> w, at |-> l + k]
  BY OffsetIs
<1>2. \A k \in 0..(n - 1) : l + k \in 0..(Top - 1)
  BY BoundsAssumption
<1>3. \A a \in 0..(Top - 1) : [area |-> w, at |-> a] \in Cell
  BY DEF Cell
<1>4. l \in 0..(Top - 1)
  BY BoundsAssumption
<1>5. \A k \in 0..(n - 1) : Offset(address, k) \in Span(address, n) /\ Offset(address, k) \in Cell
  BY <1>1, <1>2, <1>3 DEF Span
<1>6. Span(address, n) \subseteq Cell
  BY <1>5 DEF Span
<1>7. ASSUME NEW c \in Span(address, n)
      PROVE  c.at - address.at \in 0..(n - 1) /\ Offset(address, c.at - address.at) = c
  <2>1. PICK k \in 0..(n - 1) : c = Offset(address, k)
    BY DEF Span
  <2>2. c = [area |-> w, at |-> l + k]
    BY <1>1, <2>1
  <2>3. c.at - address.at = k
    BY <2>2
  <2> QED BY <2>1, <2>3
<1> QED BY <1>1, <1>3, <1>4, <1>5, <1>6, <1>7

(* What is shared is the weight or the accumulator of the same node. *)
LEMMA SharedIs ==
    ASSUME Static, Training, NEW wi \in Nodes(nets["opt"])
    PROVE  LET N == nets["net"]
               O == nets["opt"]
           IN  /\ wi \in 1..NumWeights
               /\ SharedBuffer(OptWeight(wi)) <=> N.name[TrainWeight(wi)] \in deployment.shared
               /\ SharedBuffer(OptUpdated(wi)) <=> N.name[TrainWeight(wi)] \in deployment.shared
               /\ SharedBuffer(OptGrad(wi)) <=> N.name[TrainGrad(wi)] \in deployment.shared
               /\ SourceOf(N, O.name[OptWeight(wi)]) = TrainWeight(wi)
               /\ SourceOf(N, O.name[OptUpdated(wi)]) = TrainWeight(wi)
               /\ SourceOf(N, O.name[OptGrad(wi)]) = TrainGrad(wi)
<1> DEFINE N == nets["net"]
           O == nets["opt"]
<1>1. /\ wi \in 1..NumWeights
      /\ TrainWeight(wi) \in Range(N.inputs) /\ TrainGrad(wi) \in Range(N.inputs)
  BY OptimizerFacts, TrainingInputs
<1>2. /\ OptWeight(wi) \in Range(O.inputs) /\ OptGrad(wi) \in Range(O.inputs)
      /\ OptUpdated(wi) \in Range(O.outputs)
      /\ O.name[OptWeight(wi)] = N.name[TrainWeight(wi)]
      /\ O.name[OptUpdated(wi)] = N.name[TrainWeight(wi)]
      /\ O.name[OptGrad(wi)] = N.name[TrainGrad(wi)]
  BY OptimizerFacts
<1>3. \A t \in Range(N.inputs) : SourceOf(N, N.name[t]) = t
  BY TrainingInputs DEF SourceOf
<1> QED BY <1>1, <1>2, <1>3 DEF SharedBuffer

(* The tensors of the two networks that nodes touch. *)
LEMMA TouchedTensors ==
    ASSUME Static
    PROVE  /\ \A w \in Net : Range(nets[w].inputs) \cup Range(nets[w].outputs) \subseteq Touched(nets[w])
           /\ \A w \in Net : \A i \in Nodes(nets[w]) :
                  /\ nets[w].nodes[i].out \in Touched(nets[w])
                  /\ Range(nets[w].nodes[i].ins) \subseteq Touched(nets[w])
           /\ \A w \in Net : Touched(nets[w]) \subseteq Buffers(nets[w])
           /\ ~ Training => Touched(nets["opt"]) = {} /\ Buffers(nets["opt"]) = {}
           /\ Training => \A t \in Touched(nets["opt"]) :
                  \E wi \in Nodes(nets["opt"]) : t \in {OptWeight(wi), OptGrad(wi), OptUpdated(wi)}
<1>1. ASSUME NEW w \in Net
      PROVE  /\ Range(nets[w].inputs) \cup Range(nets[w].outputs) \subseteq Touched(nets[w])
             /\ \A i \in Nodes(nets[w]) : /\ nets[w].nodes[i].out \in Touched(nets[w])
                                          /\ Range(nets[w].nodes[i].ins) \subseteq Touched(nets[w])
             /\ Touched(nets[w]) \subseteq Buffers(nets[w])
  <2> DEFINE N == nets[w]
  <2>1. WellFormed(N)
    BY NetFacts
  <2>2. \A i \in Nodes(N) : N.nodes[i].out \in Touched(N) /\ Range(N.nodes[i].ins) \subseteq Touched(N)
    BY DEF Touched, Touches
  <2>3. ASSUME NEW t \in Range(N.inputs) PROVE t \in Touched(N)
    <3>1. PICK i \in Nodes(N) : t \in Range(N.nodes[i].ins)
      BY <2>1 DEF WellFormed, Users
    <3> QED BY <2>2, <3>1
  <2>4. ASSUME NEW t \in Range(N.outputs) PROVE t \in Touched(N)
    <3>1. PICK i \in Nodes(N) : t = N.nodes[i].out
      BY <2>1, NetworkParts DEF WellFormed, Produced
    <3> QED BY <2>2, <3>1
  <2> QED BY <2>1, <2>2, <2>3, <2>4, TouchedFacts
<1>2. ASSUME ~ Training PROVE Touched(nets["opt"]) = {} /\ Buffers(nets["opt"]) = {}
  <2>1. Deployable(deployment) /\ nets = deployment.nets
    BY DeploymentsAssumption DEF Static
  <2>2. nets["opt"] = NoNetwork
    BY <1>2, <2>1 DEF Deployable, Inference, Training
  <2>3. DOMAIN nets["opt"].size = {}
    BY <2>2 DEF NoNetwork
  <2>4. Touched(nets["opt"]) \subseteq Buffers(nets["opt"])
    BY <1>1 DEF Net
  <2> QED BY <2>3, <2>4 DEF Buffers
<1>3. ASSUME Training, NEW t \in Touched(nets["opt"])
      PROVE  \E wi \in Nodes(nets["opt"]) : t \in {OptWeight(wi), OptGrad(wi), OptUpdated(wi)}
  <2> DEFINE O == nets["opt"]
  <2>1. PICK i \in Nodes(O) : t \in Touches(O.nodes[i])
    BY <1>3 DEF Touched
  <2>2. O.nodes[i].out = OptUpdated(i) /\ Range(O.nodes[i].ins) = {OptWeight(i), OptGrad(i)}
    BY <1>3, OptimizerFacts
  <2> QED BY <2>1, <2>2 DEF Touches
<1> QED BY <1>1, <1>2, <1>3

(* A shared tensor of the optimiser lies within the one that it shares. *)
LEMMA SharedWithin ==
    ASSUME Planned, Training, NEW t \in Touched(nets["opt"]), SharedBuffer(t)
    PROVE  LET s == SourceOf(nets["net"], nets["opt"].name[t])
           IN  /\ s \in Range(nets["net"].inputs) /\ s \in Touched(nets["net"])
               /\ Spot("opt", t) = ArenaAddress("net", s)
               /\ nets["opt"].size[t] <= nets["net"].size[s]
               /\ nets["opt"].size[t] \in Nat /\ nets["opt"].size[t] > 0
<1> DEFINE N == nets["net"]
           O == nets["opt"]
           s == SourceOf(N, O.name[t])
<1>0. Static
  BY DEF Planned
<1>1. PICK wi \in Nodes(O) : t \in {OptWeight(wi), OptGrad(wi), OptUpdated(wi)}
  BY <1>0, TouchedTensors
<1>2. s \in {TrainWeight(wi), TrainGrad(wi)} /\ (t = OptGrad(wi) => s = TrainGrad(wi))
      /\ (t # OptGrad(wi) => s = TrainWeight(wi)) /\ wi \in 1..NumWeights
  <2>1. t = OptGrad(wi) => s = TrainGrad(wi)
    BY <1>0, SharedIs
  <2>2. t # OptGrad(wi) => s = TrainWeight(wi)
    BY <1>0, <1>1, SharedIs
  <2>3. wi \in 1..NumWeights
    BY <1>0, SharedIs
  <2> QED BY <2>1, <2>2, <2>3
<1>3. s \in Range(N.inputs)
  BY <1>0, <1>2, TrainingInputs
<1>4. s \in Touched(N)
  BY <1>0, <1>3, TouchedTensors DEF Net
<1>5. O.size[t] <= N.size[s]
  BY <1>0, <1>1, <1>2, OptimizerFacts
<1>6. O.size[t] \in Nat /\ O.size[t] > 0
  <2>1. WellFormed(O)
    BY <1>0, NetFacts DEF Net
  <2> QED BY <2>1, TouchedRoot
<1>7. Spot("opt", t) = ArenaAddress("net", s)
  BY DEF Spot
<1> QED BY <1>3, <1>4, <1>5, <1>6, <1>7

(* The words of a tensor. *)
LEMMA SpotIs ==
    ASSUME Planned, NEW w \in Net, NEW t \in Touched(nets[w])
    PROVE  /\ nets[w].size[t] \in Nat /\ nets[w].size[t] > 0
           /\ Spot(w, t) \in Cell /\ Spot(w, t).at \in Nat
           /\ \A k \in 0..(nets[w].size[t] - 1) :
                  Offset(Spot(w, t), k) \in Words(w, t) /\ Offset(Spot(w, t), k) \in Cell
           /\ Words(w, t) \subseteq Cell
           /\ \A c \in Words(w, t) :
                  /\ c.at - Spot(w, t).at \in 0..(nets[w].size[t] - 1)
                  /\ Offset(Spot(w, t), c.at - Spot(w, t).at) = c
<1> DEFINE n == nets[w].size[t]
<1>0. Static
  BY DEF Planned
<1>1. n \in Nat /\ n > 0 /\ \E v \in Net, l \in Nat : Spot(w, t) = [area |-> v, at |-> l] /\ l + n <= Top
  <2>1. CASE w = "opt" /\ SharedBuffer(t)
    <3>1. Training
      BY <1>0, <2>1, TouchedTensors
    <3> DEFINE s == SourceOf(nets["net"], nets["opt"].name[t])
    <3>2. s \in Touched(nets["net"]) /\ Spot(w, t) = ArenaAddress("net", s)
          /\ n <= nets["net"].size[s] /\ n \in Nat /\ n > 0
      BY <2>1, <3>1, SharedWithin
    <3>3. Lo("net", s) \in Nat /\ Lo("net", s) + nets["net"].size[s] <= Top /\ nets["net"].size[s] \in Nat
          /\ ArenaAddress("net", s) = [area |-> "net", at |-> Lo("net", s)]
      BY <3>2, HomeIs DEF Net
    <3> HIDE DEF s, n
    <3>4. Lo("net", s) + n <= Top
      BY <3>2, <3>3, BoundsAssumption
    <3> QED BY <3>2, <3>3, <3>4 DEF Net
  <2>2. CASE ~ (w = "opt" /\ SharedBuffer(t))
    <3>1. Spot(w, t) = ArenaAddress(w, t)
      BY <2>2 DEF Spot
    <3>2. Lo(w, t) \in Nat /\ n \in Nat /\ n > 0 /\ Lo(w, t) + n <= Top
          /\ ArenaAddress(w, t) = [area |-> w, at |-> Lo(w, t)]
      BY HomeIs
    <3> QED BY <3>1, <3>2
  <2> QED BY <2>1, <2>2
<1>2. PICK v \in Net, l \in Nat : Spot(w, t) = [area |-> v, at |-> l] /\ l + n <= Top
  BY <1>1
<1> DEFINE address == [area |-> v, at |-> l]
<1>3. Words(w, t) = Span(address, n)
  BY <1>2 DEF Words
<1> HIDE DEF n
<1>4. /\ address \in Cell
      /\ \A k \in 0..(n - 1) : Offset(address, k) \in Span(address, n) /\ Offset(address, k) \in Cell
      /\ Span(address, n) \subseteq Cell
      /\ \A c \in Span(address, n) :
             c.at - address.at \in 0..(n - 1) /\ Offset(address, c.at - address.at) = c
  <2>1. v \in Net /\ l \in Nat /\ n \in Nat /\ n > 0 /\ l + n <= Top
    BY <1>1, <1>2
  <2> QED BY <2>1, SpanFacts, Zenon
<1>5. address.at = l /\ Spot(w, t) = address
  BY <1>2
<1> HIDE DEF address
<1> QED BY <1>1, <1>2, <1>3, <1>4, <1>5 DEF n

(* The words of a tensor are the cells of its own block, or lie within *)
(* those of the tensor it shares.                                      *)
LEMMA WordsAre ==
    ASSUME Planned
    PROVE  /\ \A t : Spot("net", t) = ArenaAddress("net", t) /\ Words("net", t) = Home("net", t)
           /\ \A t : ~ SharedBuffer(t) =>
                  Spot("opt", t) = ArenaAddress("opt", t) /\ Words("opt", t) = Home("opt", t)
           /\ Training => \A t \in Touched(nets["opt"]) : SharedBuffer(t) =>
                  Words("opt", t) \subseteq Home("net", SourceOf(nets["net"], nets["opt"].name[t]))
<1>1. \A t : Spot("net", t) = ArenaAddress("net", t) /\ Words("net", t) = Home("net", t)
  BY DEF Spot, Words, Home, Span
<1>2. \A t : ~ SharedBuffer(t) =>
         Spot("opt", t) = ArenaAddress("opt", t) /\ Words("opt", t) = Home("opt", t)
  BY DEF Spot, Words, Home, Span
<1>3. ASSUME Training, NEW t \in Touched(nets["opt"]), SharedBuffer(t)
      PROVE  Words("opt", t) \subseteq Home("net", SourceOf(nets["net"], nets["opt"].name[t]))
  <2> DEFINE s == SourceOf(nets["net"], nets["opt"].name[t])
             n == nets["opt"].size[t]
             m == nets["net"].size[s]
  <2>1. Spot("opt", t) = ArenaAddress("net", s) /\ n <= m /\ n \in Nat /\ s \in Touched(nets["net"])
    BY <1>3, SharedWithin
  <2>2. m \in Nat
    BY <2>1, HomeIs DEF Net
  <2>3. \A k \in 0..(n - 1) : k \in 0..(m - 1)
    <3> HIDE DEF n, m
    <3> QED BY <2>1, <2>2
  <2> QED BY <2>1, <2>3 DEF Words, Span, Home
<1> QED BY <1>1, <1>2, <1>3

LEMMA InputRoot ==
    ASSUME NEW N, WellFormed(N), NEW t \in Range(N.inputs)
    PROVE  ~ HasAlias(N, t) /\ Dealias(N, t) = t /\ t \in Buffers(N)
<1>1. ~ HasAlias(N, t)
  BY AliasInNetwork, ProducedIs
<1>2. t \in Buffers(N)
  BY NetworkParts
<1> QED BY <1>1, <1>2, RootFacts

(* At the first node all inputs are in use. *)
LEMMA InputsKept ==
    ASSUME Static, NEW w \in Net, NEW t \in Range(nets[w].inputs)
    PROVE  1 \in Nodes(nets[w]) /\ Kept(w, 1, t)
<1> DEFINE N == nets[w]
<1>1. WellFormed(N)
  BY NetFacts
<1>2. PICK j \in Nodes(N) : j \in Users(N, t)
  BY <1>1 DEF WellFormed, Users
<1>3. Nodes(N) = 1..Len(N.nodes) /\ Len(N.nodes) \in Nat
  BY <1>1, NetworkParts
<1>4. j >= 1 /\ 1 \in Nodes(N)
  BY <1>2, <1>3
<1>5. InUse(N, 1, t)
  BY <1>2, <1>4 DEF InUse
<1> QED BY <1>4, <1>5 DEF Kept

LEMMA InputsApart ==
    ASSUME Planned, NEW w \in Net, NEW t \in Range(nets[w].inputs), NEW u \in Range(nets[w].inputs),
           t # u
    PROVE  Home(w, t) \cap Home(w, u) = {}
<1>0. Static
  BY DEF Planned
<1>1. 1 \in Nodes(nets[w]) /\ Kept(w, 1, t) /\ Kept(w, 1, u)
  BY <1>0, InputsKept
<1>2. Dealias(nets[w], t) # Dealias(nets[w], u)
  BY <1>0, NetFacts, InputRoot
<1> QED BY <1>1, <1>2, HomesApart

(* Different nodes of the optimiser have different weights and gradients. *)
LEMMA TrainDistinct ==
    ASSUME Static, Training, NEW wi \in 1..NumWeights, NEW wj \in 1..NumWeights
    PROVE  /\ TrainWeight(wi) = TrainWeight(wj) => wi = wj
           /\ TrainGrad(wi) = TrainGrad(wj) => wi = wj
           /\ TrainWeight(wi) # TrainGrad(wj)
<1> DEFINE in == nets["net"].inputs
<1>1. /\ NumData \in Nat /\ NumWeights \in Nat /\ GradStart = NumData + NumWeights
      /\ Len(in) = GradStart + NumWeights + 1 /\ DOMAIN in = 1..Len(in)
  BY TrainingInputs
<1>2. \A j, k \in DOMAIN in : in[j] = in[k] => j = k
  <2>1. WellFormed(nets["net"])
    BY NetFacts DEF Net
  <2> QED BY <2>1 DEF WellFormed, IsInjective
<1>3. nets["net"].role[TrainWeight(wi)] = "weight" /\ nets["net"].role[TrainGrad(wj)] = "grad"
  BY TrainingInputs
<1>4. /\ TrainWeight(wi) = in[NumData + wi] /\ TrainWeight(wj) = in[NumData + wj]
      /\ TrainGrad(wi) = in[GradStart + wi] /\ TrainGrad(wj) = in[GradStart + wj]
  BY DEF TrainWeight, TrainGrad
<1> HIDE DEF in
<1>5. /\ NumData + wi \in DOMAIN in /\ NumData + wj \in DOMAIN in
      /\ GradStart + wi \in DOMAIN in /\ GradStart + wj \in DOMAIN in
  BY <1>1
<1>6. TrainWeight(wi) = TrainWeight(wj) => NumData + wi = NumData + wj
  BY <1>2, <1>4, <1>5
<1>7. TrainGrad(wi) = TrainGrad(wj) => GradStart + wi = GradStart + wj
  BY <1>2, <1>4, <1>5
<1>8. TrainWeight(wi) = TrainWeight(wj) => wi = wj
  BY <1>1, <1>6
<1>9. TrainGrad(wi) = TrainGrad(wj) => wi = wj
  BY <1>1, <1>7
<1> QED BY <1>3, <1>8, <1>9

LEMMA SourcesApart ==
    ASSUME Static, Training, NEW t \in Range(nets["opt"].inputs), NEW u \in Range(nets["opt"].inputs),
           t # u
    PROVE  /\ SourceOf(nets["net"], nets["opt"].name[t]) # SourceOf(nets["net"], nets["opt"].name[u])
           /\ SourceOf(nets["net"], nets["opt"].name[t]) \in Range(nets["net"].inputs)
<1>1. PICK wi \in Nodes(nets["opt"]) : t = OptWeight(wi) \/ t = OptGrad(wi)
  BY OptimizerFacts
<1>2. PICK wj \in Nodes(nets["opt"]) : u = OptWeight(wj) \/ u = OptGrad(wj)
  BY OptimizerFacts
<1>3. wi \in 1..NumWeights /\ wj \in 1..NumWeights
  BY OptimizerFacts
<1> DEFINE S(x) == SourceOf(nets["net"], nets["opt"].name[x])
<1>4. /\ t = OptWeight(wi) => S(t) = TrainWeight(wi)
      /\ t = OptGrad(wi) => S(t) = TrainGrad(wi)
      /\ u = OptWeight(wj) => S(u) = TrainWeight(wj)
      /\ u = OptGrad(wj) => S(u) = TrainGrad(wj)
  BY SharedIs
<1>5. S(t) = S(u) => t = u
  BY <1>1, <1>2, <1>3, <1>4, TrainDistinct
<1>6. S(t) \in Range(nets["net"].inputs)
  BY <1>1, <1>3, <1>4, TrainingInputs
<1> QED BY <1>5, <1>6

(* What the optimiser works on lies in different places. *)
LEMMA OptInputsApart ==
    ASSUME Planned, Training, NEW t \in Range(nets["opt"].inputs), NEW u \in Range(nets["opt"].inputs),
           t # u
    PROVE  Words("opt", t) \cap Words("opt", u) = {}
<1> DEFINE S(x) == SourceOf(nets["net"], nets["opt"].name[x])
<1>0. Static /\ "net" \in Net /\ "opt" \in Net
  BY DEF Planned, Net
<1>1. t \in Touched(nets["opt"]) /\ u \in Touched(nets["opt"])
  BY <1>0, TouchedTensors
<1>2. S(t) \in Range(nets["net"].inputs) /\ S(u) \in Range(nets["net"].inputs) /\ S(t) # S(u)
  BY <1>0, SourcesApart
<1>3. S(t) \in Touched(nets["net"]) /\ S(u) \in Touched(nets["net"])
  BY <1>0, <1>2, TouchedTensors
<1>4. Home("net", S(t)) \cap Home("net", S(u)) = {} /\ Home("opt", t) \cap Home("opt", u) = {}
  BY <1>0, <1>2, InputsApart
<1>5. Home("net", S(t)) \cap Home("opt", u) = {} /\ Home("opt", t) \cap Home("net", S(u)) = {}
  BY <1>0, <1>1, <1>3, ArenasApart
<1>6. /\ Words("opt", t) \subseteq Home("net", S(t)) \/ Words("opt", t) = Home("opt", t)
      /\ Words("opt", u) \subseteq Home("net", S(u)) \/ Words("opt", u) = Home("opt", u)
  BY <1>1, WordsAre
<1> HIDE DEF S
<1> QED BY <1>4, <1>5, <1>6

(* A buffer of the optimiser's own is none of the training network's. *)
LEMMA OwnApart ==
    ASSUME Planned, NEW t \in Touched(nets["opt"]), ~ SharedBuffer(t), NEW u \in Touched(nets["net"])
    PROVE  Words("opt", t) \cap Words("net", u) = {}
BY WordsAre, ArenasApart DEF Net

(* An updated weight takes the place of the weight. *)
LEMMA UpdatedInWeight ==
    ASSUME Planned, Training, NEW wi \in Nodes(nets["opt"])
    PROVE  /\ Spot("opt", OptUpdated(wi)) = Spot("opt", OptWeight(wi))
           /\ Words("opt", OptUpdated(wi)) = Words("opt", OptWeight(wi))
           /\ SharedBuffer(OptWeight(wi)) =>
                  /\ Spot("opt", OptWeight(wi)) = Spot("net", TrainWeight(wi))
                  /\ Words("opt", OptWeight(wi)) = Words("net", TrainWeight(wi))
           /\ SharedBuffer(OptGrad(wi)) => Spot("opt", OptGrad(wi)) = Spot("net", TrainGrad(wi))
<1> DEFINE O == nets["opt"]
           t == OptWeight(wi)
           u == OptUpdated(wi)
<1>0. Static /\ "net" \in Net /\ "opt" \in Net /\ WellFormed(O)
  BY NetFacts DEF Planned, Net
<1>1. /\ O.nodes[wi].op \in AliasingOp /\ O.nodes[wi].out = u /\ O.nodes[wi].ins[1] = t
      /\ O.size[t] = O.size[u]
      /\ nets["net"].name[TrainWeight(wi)] \in deployment.shared =>
             O.size[u] = nets["net"].size[TrainWeight(wi)]
  <2>1. O.nodes[wi].ins = <<t, OptGrad(wi)>> /\ O.nodes[wi].op = "sgd" /\ O.nodes[wi].out = u
    BY <1>0, OptimizerFacts
  <2>2. <<t, OptGrad(wi)>>[1] = t
    OBVIOUS
  <2> QED BY <1>0, <2>1, <2>2, OptimizerFacts DEF AliasingOp
<1>2. u \in Touched(O) /\ t \in Touched(O)
  <2>1. t \in Range(O.inputs) /\ u \in Range(O.outputs)
    BY <1>0, OptimizerFacts
  <2> QED BY <1>0, <2>1, TouchedTensors
<1>3. Dealias(O, u) = Dealias(O, t)
  <2>1. HasAlias(O, u) /\ AliasOf(O, u) = t
    BY <1>0, <1>1, AliasIs
  <2> QED BY <1>0, <1>2, <2>1, RootFacts, TouchedFacts
<1>4. ArenaAddress("opt", u) = ArenaAddress("opt", t)
  BY <1>0, <1>2, <1>3, HomesAlike
<1>5. /\ SharedBuffer(t) <=> nets["net"].name[TrainWeight(wi)] \in deployment.shared
      /\ SharedBuffer(u) <=> nets["net"].name[TrainWeight(wi)] \in deployment.shared
      /\ SourceOf(nets["net"], O.name[t]) = TrainWeight(wi)
      /\ SourceOf(nets["net"], O.name[u]) = TrainWeight(wi)
      /\ SourceOf(nets["net"], O.name[OptGrad(wi)]) = TrainGrad(wi)
  BY <1>0, SharedIs
<1>6. Spot("opt", u) = Spot("opt", t)
  BY <1>4, <1>5 DEF Spot
<1>7. SharedBuffer(t) => Spot("opt", t) = Spot("net", TrainWeight(wi))
  BY <1>5 DEF Spot
<1>8. SharedBuffer(OptGrad(wi)) => Spot("opt", OptGrad(wi)) = Spot("net", TrainGrad(wi))
  BY <1>5 DEF Spot
<1> HIDE DEF t, u, O
<1>9. nets["opt"] = O
  BY DEF O
<1>10. Words("opt", u) = Words("opt", t)
  BY <1>1, <1>6, <1>9 DEF Words
<1>11. SharedBuffer(t) => Words("opt", t) = Words("net", TrainWeight(wi))
  BY <1>1, <1>5, <1>7, <1>9 DEF Words
<1> QED BY <1>6, <1>7, <1>8, <1>10, <1>11 DEF t, u

-----------------------------------------------------------------------------
(* The nodes that have run when a program has come to instruction n. *)
RanBefore(w, n) ==
    {i \in Nodes(nets[w]) :
        \E k \in 1..Len(program[w]) : k < n /\ program[w][k] = RunOf(i)}

Ran(w) == RanBefore(w, ip)

LEMMA RanFacts ==
    ASSUME NEW w \in Net, WellFormed(nets[w]), NEW n \in Nat, n > 0,
           RunsInOrder(nets[w], program[w], Len(nets[w].nodes))
    PROVE  /\ RanBefore(w, 1) = {}
           /\ n > Len(program[w]) => RanBefore(w, n) = Nodes(nets[w])
           /\ n <= Len(program[w]) =>
                  LET now == program[w][n]
                  IN  /\ now \in Instr(nets[w])
                      /\ now.do # "run" => RanBefore(w, n + 1) = RanBefore(w, n)
                      /\ now.do = "run" =>
                             /\ now.arg \in Nodes(nets[w]) /\ now = RunOf(now.arg)
                             /\ RanBefore(w, n) = 1..(now.arg - 1)
                             /\ RanBefore(w, n + 1) = 1..now.arg
<1> DEFINE N == nets[w]
           p == program[w]
<1>1. Nodes(N) = 1..Len(N.nodes) /\ Len(N.nodes) \in Nat
  BY NetworkParts
<1>2. /\ p \in Seq(Instr(N))
      /\ \A i \in Nodes(N) : \E k \in 1..Len(p) : p[k] = RunOf(i)
      /\ \A k \in 1..Len(p) : p[k].do = "run" => p[k] = RunOf(p[k].arg) /\ p[k].arg \in Nodes(N)
      /\ \A j, k \in 1..Len(p) :
             j < k /\ p[j].do = "run" /\ p[k].do = "run" => p[j].arg < p[k].arg
  BY <1>1 DEF RunsInOrder
<1>3. \A i : RunOf(i).do = "run" /\ RunOf(i).arg = i
  BY DEF RunOf
<1>4. Len(p) \in Nat /\ \A k \in 1..Len(p) : p[k] \in Instr(N)
  BY <1>2
<1>5. \A m, i : i \in RanBefore(w, m) <=>
                    i \in Nodes(N) /\ \E k \in 1..Len(p) : k < m /\ p[k] = RunOf(i)
  BY DEF RanBefore
<1>6. RanBefore(w, 1) = {}
  BY <1>4, <1>5
<1>7. ASSUME n > Len(p) PROVE RanBefore(w, n) = Nodes(N)
  <2>1. \A k \in 1..Len(p) : k < n
    BY <1>4, <1>7
  <2> QED BY <1>2, <1>5, <2>1
<1>8. ASSUME n <= Len(p)
      PROVE  /\ n \in 1..Len(p)
             /\ \A i : i \in RanBefore(w, n + 1) <=>
                           i \in RanBefore(w, n) \/ (i \in Nodes(N) /\ p[n] = RunOf(i))
  <2>1. n \in 1..Len(p)
    BY <1>4, <1>8
  <2>2. \A k \in 1..Len(p) : k < n + 1 <=> k < n \/ k = n
    BY <1>4
  <2> HIDE DEF p, N
  <2> QED BY <1>5, <2>1, <2>2
<1>9. ASSUME n <= Len(p), p[n].do # "run" PROVE RanBefore(w, n + 1) = RanBefore(w, n)
  BY <1>3, <1>8, <1>9
<1>10. ASSUME n <= Len(p), p[n].do = "run"
       PROVE  /\ p[n].arg \in Nodes(N) /\ p[n] = RunOf(p[n].arg)
              /\ RanBefore(w, n) = 1..(p[n].arg - 1)
              /\ RanBefore(w, n + 1) = 1..p[n].arg
  <2> DEFINE m == p[n].arg
  <2>1. m \in Nodes(N) /\ p[n] = RunOf(m) /\ n \in 1..Len(p)
    BY <1>2, <1>8, <1>10
  <2>2. ASSUME NEW i \in RanBefore(w, n) PROVE i \in 1..(m - 1)
    <3>1. PICK k \in 1..Len(p) : k < n /\ p[k] = RunOf(i)
      BY <1>5
    <3>2. p[k].do = "run" /\ p[k].arg = i /\ i \in Nodes(N)
      BY <1>3, <1>5, <3>1
    <3>3. i < m
      BY <1>2, <1>10, <2>1, <3>1, <3>2
    <3> QED BY <1>1, <2>1, <3>2, <3>3
  <2>3. ASSUME NEW i \in 1..(m - 1) PROVE i \in RanBefore(w, n)
    <3>1. i \in Nodes(N) /\ i < m /\ ~ (m < i) /\ i # m
      BY <1>1, <2>1
    <3>2. PICK k \in 1..Len(p) : p[k] = RunOf(i)
      BY <1>2, <3>1
    <3>3. p[k].do = "run" /\ p[k].arg = i
      BY <1>3, <3>2
    <3>4. k # n
      BY <3>1, <3>3
    <3>5. ~ (n < k)
      BY <1>2, <1>10, <2>1, <3>1, <3>3
    <3>6. k < n
      BY <1>4, <3>4, <3>5
    <3> QED BY <1>5, <3>1, <3>2, <3>6
  <2>4. RanBefore(w, n) = 1..(m - 1)
    BY <2>2, <2>3
  <2>5. \A i : p[n] = RunOf(i) <=> i = m
    BY <1>3, <2>1
  <2>6. \A i : i \in 1..m <=> i \in 1..(m - 1) \/ i = m
    BY <1>1, <2>1
  <2>7. RanBefore(w, n + 1) = 1..m
    <3> HIDE DEF m, p, N
    <3>1. \A i : i \in RanBefore(w, n + 1) <=> i \in 1..m
      BY <1>8, <1>10, <2>1, <2>4, <2>5, <2>6
    <3> QED BY <3>1
  <2> QED BY <2>1, <2>4, <2>7
<1> QED BY <1>4, <1>6, <1>7, <1>8, <1>9, <1>10

-----------------------------------------------------------------------------
(* The nodes of the network that is trained, or of the only network. *)
LEMMA NetNodes ==
    ASSUME Static, NEW i \in Nodes(nets["net"])
    PROVE  LET N == nets["net"]
               node == N.nodes[i]
           IN  /\ node.op \in {"kernel", "reshape", "accumulate"}
               /\ node.op = "accumulate" => Training /\ Users(N, node.out) = {}
               /\ node.op = "reshape" => NamedAlike(N, node.out, node.ins[1])
               /\ node.op = "kernel" => N.role[node.out] = "inner"
               /\ Training => \A t \in Range(node.ins) : N.role[t] = "grad" => node.op = "accumulate"
               /\ strategy = "arena" => node.scratch = <<>>
<1> DEFINE N == nets["net"]
           node == N.nodes[i]
<1>1. Deployable(deployment) /\ nets = deployment.nets /\ strategy = deployment.strategy
  BY DeploymentsAssumption DEF Static
<1>2. WellFormed(N) /\ Prepared(deployment, "net")
  BY NetFacts DEF Net
<1>3. /\ node.op \in AliasingOp \cup {"kernel"}
      /\ node.op = "reshape" => NamedAlike(N, node.out, node.ins[1])
      /\ strategy = "arena" => node.scratch = <<>>
  BY <1>1, <1>2, NetworkParts DEF Prepared
<1>4. ASSUME ~ Training
      PROVE  node.op \in {"kernel", "reshape"} /\ (node.op = "kernel" => N.role[node.out] = "inner")
  BY <1>1, <1>4 DEF Deployable, Inference, Training
<1>5. ASSUME Training
      PROVE  /\ node.op # "sgd"
             /\ node.op = "accumulate" => Users(N, node.out) = {}
             /\ node.op # "reshape" => N.role[node.out] = "inner"
             /\ \A t \in Range(node.ins) : N.role[t] = "grad" => node.op = "accumulate"
  <2>1. TrainingGraph(N)
    BY <1>5, InputLists
  <2>2. /\ node.op # "sgd"
        /\ node.op = "accumulate" => Users(N, node.out) = {}
        /\ node.op # "reshape" => N.role[node.out] = "inner"
        /\ \A k \in DOMAIN node.ins : N.role[node.ins[k]] = "grad" => node.op = "accumulate" /\ k = 1
    BY <2>1 DEF TrainingGraph
  <2>3. \A t \in Range(node.ins) : \E k \in DOMAIN node.ins : t = node.ins[k]
    BY DEF Range
  <2> QED BY <2>2, <2>3
<1> QED BY <1>3, <1>4, <1>5 DEF AliasingOp

LEMMA TripleTail ==
    ASSUME NEW X, NEW s \in Seq(X), Len(s) = 3
    PROVE  Range(Tail(s)) = {s[2], s[3]}
<1>1. s # <<>> /\ DOMAIN s = 1..3
  OBVIOUS
<1>2. /\ Tail(s) \in Seq(X) /\ Len(Tail(s)) = Len(s) - 1
      /\ \A k \in 1..Len(Tail(s)) : Tail(s)[k] = s[k + 1]
  BY <1>1, HeadTailProperties
<1>3. Len(Tail(s)) = 2
  BY <1>2
<1>4. DOMAIN Tail(s) = 1..2
  <2>1. \A u \in Seq(X) : DOMAIN u = 1..Len(u)
    OBVIOUS
  <2> QED BY <1>2, <1>3, <2>1, Zenon
<1>5. 1 \in 1..2 /\ 2 \in 1..2 /\ 1..2 = {1, 2} /\ 1 + 1 = 2 /\ 2 + 1 = 3
  OBVIOUS
<1>6. Tail(s)[1] = s[2] /\ Tail(s)[2] = s[3]
  BY <1>2, <1>3, <1>5
<1> QED BY <1>4, <1>5, <1>6 DEF Range

(* The gradient accumulators are each read by one node. *)
LEMMA AccumulateNode ==
    ASSUME Static, NEW i \in Nodes(nets["net"]), nets["net"].nodes[i].op = "accumulate"
    PROVE  LET N == nets["net"]
               ins == N.nodes[i].ins
           IN  /\ Range(ins) = {ins[1], ins[2], ins[3]} /\ Range(Tail(ins)) = {ins[2], ins[3]}
               /\ ins[1] \in Range(N.inputs) /\ N.role[ins[1]] = "grad"
               /\ N.role[ins[2]] = "inner" /\ N.size[ins[2]] = N.size[ins[1]]
               /\ ins[3] \in Range(N.inputs) /\ N.role[ins[3]] = "reset"
               /\ Users(N, ins[1]) = {i}
<1> DEFINE N == nets["net"]
           ins == N.nodes[i].ins
<1>1. TrainingGraph(N) /\ WellFormed(N)
  BY InputLists, NetNodes, NetFacts DEF Net
<1>2. /\ Len(ins) = 3 /\ IsInput(N, ins[1]) /\ N.role[ins[1]] = "grad"
      /\ N.role[ins[2]] = "inner" /\ N.size[ins[2]] = N.size[ins[1]]
      /\ IsInput(N, ins[3]) /\ N.role[ins[3]] = "reset"
      /\ \A t \in Range(N.inputs) : N.role[t] = "grad" => Cardinality(Users(N, t)) = 1
  BY <1>1 DEF TrainingGraph
<1>3. ins \in Seq(Buffers(N))
  BY <1>1, NetworkParts
<1>4. Range(ins) = {ins[1], ins[2], ins[3]}
  <2>1. DOMAIN ins = {1, 2, 3}
    <3>1. DOMAIN ins = 1..3
      BY <1>2, <1>3
    <3> QED BY <3>1
  <2> QED BY <2>1 DEF Range
<1>5. Range(Tail(ins)) = {ins[2], ins[3]}
  BY <1>2, <1>3, TripleTail
<1>6. Users(N, ins[1]) = {i}
  <2>1. i \in Users(N, ins[1])
    BY <1>4 DEF Users
  <2>2. Cardinality(Users(N, ins[1])) = 1
    BY <1>2 DEF IsInput
  <2>3. IsFiniteSet(Users(N, ins[1]))
    <3>1. Nodes(N) = 1..Len(N.nodes) /\ Len(N.nodes) \in Nat
      BY <1>1, NetworkParts
    <3>2. IsFiniteSet(1..Len(N.nodes))
      BY <3>1, FS_Interval
    <3>3. Users(N, ins[1]) \subseteq 1..Len(N.nodes)
      BY <3>1 DEF Users
    <3> QED BY <3>2, <3>3, FS_Subset
  <2>4. PICK x : Users(N, ins[1]) = {x}
    BY <2>2, <2>3, FS_Singleton
  <2> QED BY <2>1, <2>4
<1> QED BY <1>2, <1>4, <1>5, <1>6 DEF IsInput

(* What nodes read is an input or written by another kind of node than an  *)
(* accumulation; so is what a view shows, and it has the role and the name *)
(* of the view.                                                            *)
Written(t) ==
    LET N == nets["net"]
    IN  t \in Range(N.inputs) \/ \E j \in Nodes(N) : N.nodes[j].out = t /\ N.nodes[j].op # "accumulate"

LEMMA ReadWritten ==
    ASSUME Static, NEW i \in Nodes(nets["net"]), NEW t \in Range(nets["net"].nodes[i].ins)
    PROVE  /\ Written(t)
           /\ t \in Range(nets["net"].inputs)
              \/ \E j \in 1..(i - 1) : nets["net"].nodes[j].out = t /\ nets["net"].nodes[j].op # "accumulate"
<1> DEFINE N == nets["net"]
<1>1. WellFormed(N)
  BY NetFacts DEF Net
<1>2. t \in Range(N.inputs) \cup Produced(N, i - 1)
  BY <1>1, ProducedIs
<1>3. CASE t \in Range(N.inputs)
  BY <1>3 DEF Written
<1>4. CASE t \in Produced(N, i - 1)
  <2>1. PICK j \in 1..(i - 1) : N.nodes[j].out = t
    BY <1>4 DEF Produced
  <2>2. j \in Nodes(N)
    BY <1>1, <2>1, NetworkParts
  <2>3. i \in Users(N, t)
    BY DEF Users
  <2>4. N.nodes[j].op # "accumulate"
    BY <2>1, <2>2, <2>3, NetNodes
  <2> QED BY <2>1, <2>2, <2>4 DEF Written
<1> QED BY <1>2, <1>3, <1>4

LEMMA ViewFacts ==
    ASSUME Static, NEW t, Written(t)
    PROVE  LET N == nets["net"]
           IN  /\ t \in Touched(N) /\ t \in Buffers(N)
               /\ NamedAlike(N, t, Dealias(N, t))
               /\ \/ Dealias(N, t) \in Range(N.inputs)
                  \/ N.role[t] = "inner"
               /\ N.role[t] = "grad" => t \in Range(N.inputs) /\ Training
<1> DEFINE N == nets["net"]
           r == Dealias(N, t)
           S == {u \in Buffers(N) : NamedAlike(N, u, t) /\ Written(u)}
<1>1. WellFormed(N)
  BY NetFacts DEF Net
<1>2. t \in Touched(N) /\ Touched(N) \subseteq Buffers(N)
  BY TouchedTensors DEF Written, Net
<1>3. ASSUME NEW j \in Nodes(N), N.nodes[j].op \in AliasingOp, N.nodes[j].op # "accumulate"
      PROVE  /\ NamedAlike(N, N.nodes[j].out, N.nodes[j].ins[1]) /\ N.nodes[j].op = "reshape"
             /\ N.nodes[j].ins[1] \in Range(N.nodes[j].ins) /\ Written(N.nodes[j].ins[1])
  <2>1. N.nodes[j].op = "reshape" /\ NamedAlike(N, N.nodes[j].out, N.nodes[j].ins[1])
    BY <1>3, NetNodes DEF AliasingOp
  <2>2. N.nodes[j].ins[1] \in Range(N.nodes[j].ins)
    BY <1>1, <1>3, AliasIs
  <2>3. Written(N.nodes[j].ins[1])
    BY <2>2, ReadWritten
  <2> QED BY <2>1, <2>2, <2>3
<1>4. t \in S
  BY <1>2 DEF NamedAlike
<1>5. AliasClosed(N, S)
  <2>1. ASSUME NEW u \in S, HasAlias(N, u) PROVE AliasOf(N, u) \in S
    <3>1. PICK j \in Nodes(N) : /\ N.nodes[j].op \in AliasingOp /\ N.nodes[j].out = u
                                /\ AliasOf(N, u) = N.nodes[j].ins[1] /\ AliasOf(N, u) \in Buffers(N)
      BY <1>1, <2>1, AliasInNetwork
    <3>2. N.nodes[j].op # "accumulate"
      <4>1. u \notin Range(N.inputs)
        BY <1>1, <3>1, ProducedIs
      <4>2. PICK k \in Nodes(N) : N.nodes[k].out = u /\ N.nodes[k].op # "accumulate"
        BY <4>1 DEF Written
      <4>3. k = j
        BY <1>1, <3>1, <4>2, OneProducer
      <4> QED BY <4>2, <4>3
    <3>3. NamedAlike(N, u, AliasOf(N, u)) /\ Written(AliasOf(N, u))
      BY <1>3, <3>1, <3>2
    <3> QED BY <3>1, <3>3 DEF NamedAlike
  <2> QED BY <2>1 DEF AliasClosed
<1>6. r \in S
  <2>1. S \in SUBSET Buffers(N)
    OBVIOUS
  <2> HIDE DEF S
  <2> QED BY <1>1, <1>4, <1>5, <2>1, RootStays
<1>7. NamedAlike(N, t, r) /\ Written(r)
  BY <1>6 DEF NamedAlike
<1>8. ~ HasAlias(N, r)
  BY <1>1, <1>2, RootHasNoAlias
<1>9. r \in Range(N.inputs) \/ N.role[r] = "inner"
  <2>1. ASSUME r \notin Range(N.inputs) PROVE N.role[r] = "inner"
    <3>1. PICK j \in Nodes(N) : N.nodes[j].out = r /\ N.nodes[j].op # "accumulate"
      BY <1>7, <2>1 DEF Written
    <3>2. N.nodes[j].op \notin AliasingOp
      BY <1>8, <3>1 DEF HasAlias
    <3> QED BY <3>1, <3>2, NetNodes DEF AliasingOp
  <2> QED BY <2>1
<1>10. N.role[t] = N.role[r]
  BY <1>7 DEF NamedAlike
<1>11. ASSUME N.role[t] = "grad" PROVE t \in Range(N.inputs) /\ Training
  <2>1. r \in Range(N.inputs)
    BY <1>9, <1>10, <1>11
  <2>2. Training
    <3>1. SUFFICES ASSUME ~ Training PROVE FALSE
      OBVIOUS
    <3>2. \A u \in Range(N.inputs) : N.role[u] = "data"
      BY <3>1, DeploymentsAssumption DEF Static, Deployable, Inference, Training
    <3> QED BY <1>10, <1>11, <2>1, <3>2
  <2>3. ASSUME t \notin Range(N.inputs) PROVE FALSE
    <3>1. PICK j \in Nodes(N) : N.nodes[j].out = t /\ N.nodes[j].op # "accumulate"
      BY <2>3 DEF Written
    <3>2. CASE N.nodes[j].op \in AliasingOp
      <4>1. N.role[N.nodes[j].ins[1]] = "grad" /\ N.nodes[j].ins[1] \in Range(N.nodes[j].ins)
        BY <1>3, <1>11, <3>1, <3>2 DEF NamedAlike
      <4> QED BY <2>2, <3>1, <4>1, NetNodes
    <3>3. CASE N.nodes[j].op \notin AliasingOp
      <4>1. N.role[t] = "inner"
        BY <3>1, <3>3, NetNodes DEF AliasingOp
      <4> QED BY <1>11, <4>1
    <3> QED BY <3>2, <3>3
  <2> QED BY <2>2, <2>3
<1> QED BY <1>2, <1>7, <1>9, <1>10, <1>11

-----------------------------------------------------------------------------
(* What the memory m holds while the network runs. *)
Stored(m, w, t, v) == \A c \in Words(w, t) : m[c] = v

(* The pointer to a tensor points to its place. *)
Pointed(w, t) == ptr[w][t] = Spot(w, t)

(* A tensor that some node has yet to read when those of ran have run, or  *)
(* that is a result.                                                       *)
Needs(ran, t) ==
    t \in Range(nets["net"].outputs) \/ \E j \in Users(nets["net"], t) : j \notin ran

(* Of those the inputs and what a node has written. *)
Due(ran, t) ==
    \/ t \in Range(nets["net"].inputs) /\ (Training \/ Needs(ran, t))
    \/ Needs(ran, t) /\ \E j \in ran : /\ nets["net"].nodes[j].out = t
                                       /\ nets["net"].nodes[j].op # "accumulate"

(* An accumulator whose gradient is not yet added. *)
Awaiting(ran, t) ==
    /\ t \in Range(nets["net"].inputs) /\ nets["net"].role[t] = "grad"
    /\ \E j \in Users(nets["net"], t) : j \notin ran

Content(ran, t) == IF Awaiting(ran, t) THEN Before("net", t) ELSE Wanted("net", t)

(* The first accumulation of a group finds whatever the last has left. *)
RunContent(m, ran) ==
    \A t : Due(ran, t) /\ ~ (Awaiting(ran, t) /\ AccumStep = 0) => Stored(m, "net", t, Content(ran, t))

LEMMA CellsAre ==
    ASSUME Planned, NEW w \in Net, NEW t \in Touched(nets[w]), Pointed(w, t)
    PROVE  /\ Cells(w, t) = Words(w, t)
           /\ \A v : Holds(w, t, v) <=> Stored(mem, w, t, v)
<1>1. Cells(w, t) = Words(w, t)
  BY DEF Cells, Words, Span, Pointed
<1>2. \A c \in Words(w, t) : Read(c) = mem[c]
  BY SpotIs DEF Read
<1> QED BY <1>1, <1>2 DEF Holds, Stored

(* The values of two tensors of the same role and name. *)
LEMMA WantedAlike ==
    ASSUME NEW w, NEW t, NEW u, NamedAlike(nets[w], t, u)
    PROVE  Wanted(w, t) = Wanted(w, u)
BY DEF Wanted, NamedAlike

(* What is due when a node has run has its memory for itself and was due   *)
(* before it, unless the node has written it.                              *)
LEMMA DueFacts ==
    ASSUME Static, NEW i \in Nodes(nets["net"]), NEW t, Due(1..i, t) \/ Due(1..(i - 1), t)
    PROVE  /\ Written(t) /\ t \in Touched(nets["net"]) /\ Kept("net", i, t)
           /\ t # nets["net"].nodes[i].out \/ nets["net"].nodes[i].op = "accumulate" =>
                  /\ Due(1..(i - 1), t)
                  /\ t # nets["net"].nodes[i].out
                  /\ Dealias(nets["net"], t) # nets["net"].nodes[i].out
<1> DEFINE N == nets["net"]
<1>1. WellFormed(N) /\ Nodes(N) = 1..Len(N.nodes) /\ Len(N.nodes) \in Nat
  BY NetFacts, NetworkParts DEF Net
<1>2. /\ 1..(i - 1) \subseteq 1..i /\ 1..i \subseteq Nodes(N)
      /\ \A j : j \in 1..i <=> j \in 1..(i - 1) \/ j = i
      /\ i \in Nat /\ i - 1 \in 0..Len(N.nodes) /\ i \in 0..Len(N.nodes)
  BY <1>1
<1>3. Written(t)
  BY <1>2 DEF Due, Written
<1>4. t \in Touched(N) /\ t \in Buffers(N)
  BY <1>3, ViewFacts
<1>5. t \in Range(N.inputs) \cup Produced(N, i)
  BY <1>2 DEF Due, Produced
<1>6. Kept("net", i, t)
  <2>1. CASE Training /\ t \in Range(N.inputs)
    BY <2>1 DEF Kept
  <2>2. CASE Needs(1..i, t) \/ Needs(1..(i - 1), t)
    <3>1. t \in Range(N.outputs) \/ \E j \in Users(N, t) : j \notin 1..(i - 1)
      BY <1>2, <2>2 DEF Needs
    <3>2. \A j \in Users(N, t) : j \notin 1..(i - 1) => j >= i
      BY <1>1, <1>2 DEF Users
    <3>3. InUse(N, i, t)
      BY <1>5, <3>1, <3>2 DEF InUse
    <3> QED BY <3>3 DEF Kept
  <2> QED BY <2>1, <2>2 DEF Due
<1>7. ASSUME t # N.nodes[i].out \/ N.nodes[i].op = "accumulate"
      PROVE  /\ Due(1..(i - 1), t) /\ t # N.nodes[i].out
             /\ Dealias(N, t) # N.nodes[i].out
  <2>1. t # N.nodes[i].out
    <3>1. SUFFICES ASSUME t = N.nodes[i].out, N.nodes[i].op = "accumulate" PROVE FALSE
      BY <1>7
    <3>2. t \notin Range(N.inputs)
      BY <1>1, <3>1, ProducedIs
    <3>3. PICK j \in 1..i : N.nodes[j].out = t /\ N.nodes[j].op # "accumulate"
      BY <1>2, <3>2 DEF Due
    <3>4. j = i
      BY <1>1, <1>2, <3>1, <3>3, OneProducer
    <3> QED BY <3>1, <3>3, <3>4
  <2>2. Needs(1..i, t) => Needs(1..(i - 1), t)
    BY <1>2 DEF Needs
  <2>3. Due(1..(i - 1), t)
    BY <1>2, <2>1, <2>2 DEF Due
  <2>4. t \in Range(N.inputs) \cup Produced(N, i - 1)
    BY <2>3 DEF Due, Produced
  <2>5. Dealias(N, t) \in Range(N.inputs) \cup Produced(N, i - 1)
    BY <1>1, <1>2, <1>4, <2>4, RootFacts
  <2>6. N.nodes[i].out \notin Range(N.inputs) \cup Produced(N, i - 1)
    BY <1>1, ProducedIs
  <2> QED BY <2>1, <2>3, <2>5, <2>6
<1> QED BY <1>3, <1>4, <1>6, <1>7

(* What a node reads is due before it. *)
LEMMA ReadDue ==
    ASSUME Static, NEW i \in Nodes(nets["net"]), NEW t \in Range(nets["net"].nodes[i].ins)
    PROVE  /\ Due(1..(i - 1), t) /\ Kept("net", i, t) /\ t \in Touched(nets["net"])
           /\ t # nets["net"].nodes[i].out /\ Dealias(nets["net"], t) # nets["net"].nodes[i].out
           /\ nets["net"].nodes[i].op # "accumulate" => ~ Awaiting(1..(i - 1), t)
<1> DEFINE N == nets["net"]
<1>1. WellFormed(N) /\ Nodes(N) = 1..Len(N.nodes) /\ Len(N.nodes) \in Nat
  BY NetFacts, NetworkParts DEF Net
<1>2. i \in Users(N, t) /\ i \notin 1..(i - 1)
  BY <1>1 DEF Users
<1>3. Needs(1..(i - 1), t)
  BY <1>2 DEF Needs
<1>4. Due(1..(i - 1), t)
  BY <1>3, ReadWritten DEF Due
<1>5. t # N.nodes[i].out
  <2>1. t \in Range(N.inputs) \cup Produced(N, i - 1)
    BY <1>1, ProducedIs
  <2> QED BY <1>1, <2>1, ProducedIs
<1>6. N.nodes[i].op # "accumulate" => ~ Awaiting(1..(i - 1), t)
  <2>1. Awaiting(1..(i - 1), t) => N.role[t] = "grad" /\ Written(t)
    BY DEF Awaiting, Written
  <2> QED BY <2>1, ViewFacts, NetNodes
<1> QED BY <1>4, <1>5, <1>6, DueFacts

(* What a node reads, it finds. *)
LEMMA ReadsRight ==
    ASSUME Planned, NEW i \in Nodes(nets["net"]), NEW t \in Range(nets["net"].nodes[i].ins),
           RunContent(mem, 1..(i - 1)), Pointed("net", t),
           nets["net"].nodes[i].op = "accumulate" => AccumStep # 0 \/ nets["net"].role[t] # "grad"
    PROVE  /\ Stored(mem, "net", t, Content(1..(i - 1), t))
           /\ nets["net"].nodes[i].op # "accumulate" => Stored(mem, "net", t, Wanted("net", t))
           /\ Cells("net", t) = Words("net", t)
<1>0. Static
  BY DEF Planned
<1>1. Due(1..(i - 1), t) /\ t \in Touched(nets["net"])
      /\ (nets["net"].nodes[i].op # "accumulate" => ~ Awaiting(1..(i - 1), t))
  BY <1>0, ReadDue
<1>2. ~ (Awaiting(1..(i - 1), t) /\ AccumStep = 0)
  BY <1>1 DEF Awaiting
<1>3. Stored(mem, "net", t, Content(1..(i - 1), t))
  BY <1>1, <1>2 DEF RunContent
<1>4. ~ Awaiting(1..(i - 1), t) => Content(1..(i - 1), t) = Wanted("net", t)
  BY DEF Content
<1>5. Cells("net", t) = Words("net", t)
  BY <1>1, CellsAre DEF Net
<1> QED BY <1>1, <1>3, <1>4, <1>5

(* A step that writes tensor out only, which node i does for its output or *)
(* for the accumulator that it reads, leaves what is due elsewhere.        *)
LEMMA ContentKept ==
    ASSUME Planned, NEW i \in Nodes(nets["net"]), RunContent(mem, 1..(i - 1)),
           NEW m, NEW out, Kept("net", i, out), out = Dealias(nets["net"], out),
           \A c \in Cell : c \notin Words("net", out) => m[c] = mem[c],
           NEW t, Due(1..i, t), Dealias(nets["net"], t) # out,
           t # nets["net"].nodes[i].out \/ nets["net"].nodes[i].op = "accumulate",
           i \in Users(nets["net"], t) => nets["net"].role[t] # "grad",
           ~ (Awaiting(1..i, t) /\ AccumStep = 0)
    PROVE  Stored(m, "net", t, Content(1..i, t))
<1> DEFINE N == nets["net"]
<1>0. Static /\ "net" \in Net
  BY DEF Planned, Net
<1>1. Nodes(N) = 1..Len(N.nodes) /\ Len(N.nodes) \in Nat
  BY <1>0, NetFacts, NetworkParts
<1>2. Due(1..(i - 1), t) /\ Kept("net", i, t) /\ t \in Touched(N)
  BY <1>0, DueFacts
<1>3. \A j \in Users(N, t) : N.role[t] = "grad" => (j \notin 1..i <=> j \notin 1..(i - 1))
  <2>1. \A j : j \in 1..i <=> j \in 1..(i - 1) \/ j = i
    BY <1>1
  <2> QED BY <2>1
<1>4. Awaiting(1..i, t) <=> Awaiting(1..(i - 1), t)
  BY <1>3 DEF Awaiting
<1>5. Stored(mem, "net", t, Content(1..(i - 1), t))
  BY <1>2, <1>4 DEF RunContent
<1>6. Content(1..(i - 1), t) = Content(1..i, t)
  BY <1>4 DEF Content
<1>7. Home("net", t) \cap Home("net", out) = {}
  BY <1>0, <1>2, HomesApart
<1>8. Words("net", t) \subseteq Cell /\ Words("net", t) \cap Words("net", out) = {}
  BY <1>0, <1>2, <1>7, SpotIs, WordsAre
<1>9. \A c \in Words("net", t) : m[c] = mem[c]
  BY <1>8
<1> QED BY <1>5, <1>6, <1>9 DEF Stored

LEMMA KernelRuns ==
    ASSUME Planned, NEW i \in Nodes(nets["net"]), nets["net"].nodes[i].op = "kernel",
           RunContent(mem, 1..(i - 1)),
           \A t \in Range(nets["net"].nodes[i].ins) : Pointed("net", t),
           Pointed("net", nets["net"].nodes[i].out),
           RunKernel("net", nets["net"].nodes[i], Want("net"))
    PROVE  RunContent(mem', 1..i)
<1> DEFINE N == nets["net"]
           node == N.nodes[i]
           out == node.out
<1>0. Static /\ "net" \in Net /\ strategy = "arena" /\ WellFormed(N)
  BY NetFacts DEF Planned, InArena, Net
<1>1. Nodes(N) = 1..Len(N.nodes) /\ Len(N.nodes) \in Nat
  BY <1>0, NetworkParts
<1>2. out \in Touched(N) /\ out \in Buffers(N) /\ Range(node.ins) \subseteq Touched(N)
      /\ Touched(N) \subseteq Buffers(N)
  BY <1>0, TouchedTensors
<1>3. ~ HasAlias(N, out) /\ Dealias(N, out) = out
  <2>1. ~ HasAlias(N, out)
    <3>1. SUFFICES ASSUME NEW j \in Nodes(N), N.nodes[j].op \in AliasingOp, N.nodes[j].out = out
                   PROVE  FALSE
      BY DEF HasAlias
    <3>2. j = i
      BY <1>0, <3>1, OneProducer
    <3> QED BY <3>1, <3>2 DEF AliasingOp
  <2> QED BY <1>0, <1>2, <2>1, RootFacts
<1>4. out \notin Range(N.inputs)
  BY <1>0, ProducedIs
<1>5. Kept("net", i, out)
  <2>1. out \in Produced(N, i)
    BY <1>1 DEF Produced
  <2> QED BY <2>1 DEF Kept, InUse
<1>6. Cells("net", out) = Words("net", out)
  BY <1>0, <1>2, CellsAre
<1>7. \A t \in Range(node.ins) : /\ Stored(mem, "net", t, Wanted("net", t))
                                 /\ Cells("net", t) = Words("net", t)
                                 /\ Words("net", t) \cap Words("net", out) = {}
  <2> SUFFICES ASSUME NEW t \in Range(node.ins)
               PROVE  /\ Stored(mem, "net", t, Wanted("net", t))
                      /\ Cells("net", t) = Words("net", t)
                      /\ Words("net", t) \cap Words("net", out) = {}
    OBVIOUS
  <2>1. Stored(mem, "net", t, Wanted("net", t)) /\ Cells("net", t) = Words("net", t)
    BY ReadsRight
  <2>2. Kept("net", i, t) /\ Dealias(N, t) # Dealias(N, out)
    BY <1>0, <1>3, ReadDue
  <2>3. Home("net", t) \cap Home("net", out) = {}
    BY <1>0, <1>5, <2>2, HomesApart
  <2> QED BY <2>1, <2>3, WordsAre
<1>8. \A t \in Range(node.ins) : Holds("net", t, Want("net")[t])
  <2> SUFFICES ASSUME NEW t \in Range(node.ins) PROVE Holds("net", t, Want("net")[t])
    OBVIOUS
  <2>1. Want("net")[t] = Wanted("net", t)
    BY <1>2 DEF Want, Buffers
  <2>2. Pointed("net", t) /\ t \in Touched(N) /\ Stored(mem, "net", t, Wanted("net", t))
    BY <1>2, <1>7
  <2> QED BY <1>0, <2>1, <2>2, CellsAre
<1>9. AllCells("net", Range(node.ins)) \cap Cells("net", out) = {}
  BY <1>6, <1>7 DEF AllCells
<1>10. AllCells("net", Range(node.scratch)) = {}
  <2>1. node.scratch = <<>>
    BY <1>0, NetNodes
  <2> QED BY <2>1 DEF AllCells, Range
<1>11. Want("net")[out] = Wanted("net", out)
  BY <1>2 DEF Want, Buffers
<1>12. \A c \in Cell : mem'[c] = IF c \in Words("net", out) THEN Wanted("net", out) ELSE mem[c]
  <2>1. mem' = [c \in Cell |-> IF c \in AllCells("net", Range(node.scratch)) THEN Garbage
                               ELSE IF c \in Cells("net", out) THEN Want("net")[out]
                               ELSE mem[c]]
    BY <1>8, <1>9 DEF RunKernel
  <2> QED BY <1>6, <1>10, <1>11, <2>1
<1>13. ASSUME NEW t, Due(1..i, t), ~ (Awaiting(1..i, t) /\ AccumStep = 0)
       PROVE  Stored(mem', "net", t, Content(1..i, t))
  <2>1. CASE t = out
    <3>1. Content(1..i, t) = Wanted("net", t)
      BY <1>4, <2>1 DEF Content, Awaiting
    <3>2. Words("net", out) \subseteq Cell
      BY <1>0, <1>2, SpotIs
    <3> QED BY <1>12, <2>1, <3>1, <3>2 DEF Stored
  <2>2. CASE t # out
    <3>1. Dealias(N, t) # out
      BY <1>0, <1>13, <2>2, DueFacts
    <3>2. i \in Users(N, t) => N.role[t] # "grad"
      <4>1. ASSUME i \in Users(N, t), N.role[t] = "grad" PROVE FALSE
        <5>1. t \in Range(node.ins) /\ Written(t)
          BY <1>0, <4>1, <1>13, DueFacts DEF Users
        <5> QED BY <1>0, <4>1, <5>1, ViewFacts, NetNodes
      <4> QED BY <4>1
    <3>3. \A c \in Cell : c \notin Words("net", out) => mem'[c] = mem[c]
      BY <1>12
    <3>4. out = Dealias(N, out)
      BY <1>3
    <3> HIDE DEF N
    <3> QED BY <1>5, <1>13, <2>2, <3>1, <3>2, <3>3, <3>4, ContentKept DEF N
  <2> QED BY <2>1, <2>2
<1> QED BY <1>13 DEF RunContent

LEMMA ReshapeRuns ==
    ASSUME Planned, NEW i \in Nodes(nets["net"]), nets["net"].nodes[i].op = "reshape",
           RunContent(mem, 1..(i - 1)),
           \A t \in Range(nets["net"].nodes[i].ins) : Pointed("net", t)
    PROVE  /\ RunContent(mem, 1..i)
           /\ nets["net"].nodes[i].ins[1] \in Range(nets["net"].nodes[i].ins)
           /\ Spot("net", nets["net"].nodes[i].out) = Spot("net", nets["net"].nodes[i].ins[1])
<1> DEFINE N == nets["net"]
           node == N.nodes[i]
           out == node.out
           in == node.ins[1]
<1>0. Static /\ "net" \in Net /\ WellFormed(N)
  BY NetFacts DEF Planned, Net
<1>1. Nodes(N) = 1..Len(N.nodes) /\ Len(N.nodes) \in Nat
  BY <1>0, NetworkParts
<1>2. HasAlias(N, out) /\ AliasOf(N, out) = in /\ in \in Range(node.ins)
  BY <1>0, AliasIs DEF AliasingOp
<1>3. out \in Touched(N) /\ in \in Touched(N) /\ out \in Buffers(N)
  BY <1>0, <1>2, TouchedTensors
<1>4. Dealias(N, out) = Dealias(N, in)
  BY <1>0, <1>2, <1>3, RootFacts
<1>5. Spot("net", out) = Spot("net", in) /\ Words("net", out) = Words("net", in)
  BY <1>0, <1>3, <1>4, HomesAlike, WordsAre
<1>6. Wanted("net", out) = Wanted("net", in)
  <2>1. NamedAlike(N, out, in)
    BY <1>0, NetNodes
  <2> QED BY <2>1, WantedAlike
<1>7. Stored(mem, "net", in, Wanted("net", in))
  BY <1>2, ReadsRight
<1>8. out \notin Range(N.inputs)
  BY <1>0, ProducedIs
<1>9. ASSUME NEW t, Due(1..i, t), ~ (Awaiting(1..i, t) /\ AccumStep = 0)
      PROVE  Stored(mem, "net", t, Content(1..i, t))
  <2>1. CASE t = out
    <3>1. Content(1..i, t) = Wanted("net", t)
      BY <1>8, <2>1 DEF Content, Awaiting
    <3> QED BY <1>5, <1>6, <1>7, <2>1, <3>1 DEF Stored
  <2>2. CASE t # out
    <3>1. Due(1..(i - 1), t) /\ Written(t)
      BY <1>0, <1>9, <2>2, DueFacts
    <3>2. \A j \in Users(N, t) : N.role[t] = "grad" => (j \notin 1..i <=> j \notin 1..(i - 1))
      <4>1. \A j : j \in 1..i <=> j \in 1..(i - 1) \/ j = i
        BY <1>1
      <4>2. i \in Users(N, t) => N.role[t] # "grad"
        BY <1>0, <3>1, ViewFacts, NetNodes DEF Users
      <4> QED BY <4>1, <4>2
    <3>3. Awaiting(1..i, t) <=> Awaiting(1..(i - 1), t)
      BY <3>2 DEF Awaiting
    <3>4. Content(1..(i - 1), t) = Content(1..i, t)
      BY <3>3 DEF Content
    <3> QED BY <1>9, <3>1, <3>3, <3>4 DEF RunContent
  <2> QED BY <2>1, <2>2
<1> QED BY <1>2, <1>5, <1>9 DEF RunContent

(* The mini-batches of an update step. *)
LEMMA BatchFacts ==
    ASSUME mb \in Nat
    PROVE  LET start == Accum * UpdateStep
           IN  /\ UpdateStep \in Nat /\ AccumStep \in 0..(Accum - 1) /\ start \in Nat
               /\ mb = start + AccumStep /\ start <= mb /\ (mb = start <=> AccumStep = 0)
               /\ mb = start => {mb} = start..mb
               /\ (start..(mb - 1)) \cap {mb} = {} /\ (start..(mb - 1)) \cup {mb} = start..mb
               /\ (0..(start - 1)) \cap (start..mb) = {} /\ (0..(start - 1)) \cup (start..mb) = 0..mb
<1> DEFINE start == Accum * UpdateStep
<1>1. UpdateStep \in Nat /\ AccumStep \in 0..(Accum - 1) /\ mb = start + AccumStep
  BY DivMod, BoundsAssumption DEF UpdateStep, AccumStep
<1>2. start \in Nat
  <2>1. \A a, b \in Nat : a * b \in Nat
    OBVIOUS
  <2> QED BY <1>1, <2>1, BoundsAssumption
<1>3. Accum \in Nat
  BY BoundsAssumption
<1> HIDE DEF start
<1>4. start <= mb /\ (mb = start <=> AccumStep = 0)
  BY <1>1, <1>2, <1>3
<1>5. /\ mb = start => {mb} = start..mb
      /\ (start..(mb - 1)) \cap {mb} = {} /\ (start..(mb - 1)) \cup {mb} = start..mb
      /\ (0..(start - 1)) \cap (start..mb) = {} /\ (0..(start - 1)) \cup (start..mb) = 0..mb
  BY <1>2, <1>4
<1> QED BY <1>1, <1>2, <1>4, <1>5 DEF start

LEMMA FoldFacts ==
    ASSUME NEW a, NEW b, NEW S, NEW T, a # Garbage.of, b # Garbage.of, S \cap T = {}
    PROVE  Fold(Value(a, S), Value(b, T)) = Value(a, S \cup T)
BY DEF Fold, Value, Garbage

LEMMA ValueFacts ==
    ASSUME NEW a, NEW S
    PROVE  Value(a, S).of = a /\ Value(a, S).from = S /\ [of |-> a, from |-> S] = Value(a, S)
BY DEF Value

(* The first word of a tensor. *)
LEMMA FirstWord ==
    ASSUME Planned, NEW w \in Net, NEW t \in Touched(nets[w])
    PROVE  Spot(w, t) \in Words(w, t) /\ Spot(w, t) \in Cell
<1>1. nets[w].size[t] \in Nat /\ nets[w].size[t] > 0 /\ Spot(w, t) \in Cell
      /\ \A k \in 0..(nets[w].size[t] - 1) : Offset(Spot(w, t), k) \in Words(w, t)
  BY SpotIs
<1>2. Offset(Spot(w, t), 0) \in Words(w, t)
  BY <1>1
<1>3. \A a \in Cell : Offset(a, 0) = a
  BY BoundsAssumption DEF Cell, Offset
<1> QED BY <1>1, <1>2, <1>3

LEMMA AccumulateRuns ==
    ASSUME Planned, mb \in Nat,
           NEW i \in Nodes(nets["net"]), nets["net"].nodes[i].op = "accumulate",
           RunContent(mem, 1..(i - 1)),
           \A t \in Range(nets["net"].nodes[i].ins) : Pointed("net", t),
           RunAccumulate("net", nets["net"].nodes[i], Want("net"))
    PROVE  RunContent(mem', 1..i)
<1> DEFINE N == nets["net"]
           node == N.nodes[i]
           into == node.ins[1]
           gradient == node.ins[2]
           flag == node.ins[3]
           start == Accum * UpdateStep
           old == 1..(i - 1)
<1>0. Static /\ "net" \in Net /\ WellFormed(N) /\ Training
  BY NetFacts, NetNodes DEF Planned, Net
<1>1. Nodes(N) = 1..Len(N.nodes) /\ Len(N.nodes) \in Nat
  BY <1>0, NetworkParts
<1>2. /\ Range(node.ins) = {into, gradient, flag}
      /\ into \in Range(N.inputs) /\ N.role[into] = "grad"
      /\ N.role[gradient] = "inner" /\ N.size[gradient] = N.size[into]
      /\ flag \in Range(N.inputs) /\ N.role[flag] = "reset"
      /\ Users(N, into) = {i}
  BY <1>0, AccumulateNode
<1>3. into \in Touched(N) /\ gradient \in Touched(N) /\ flag \in Touched(N)
      /\ into \in Buffers(N) /\ gradient \in Buffers(N) /\ flag \in Buffers(N)
  BY <1>0, <1>2, TouchedTensors
<1>4. Pointed("net", into) /\ Pointed("net", gradient) /\ Pointed("net", flag)
  BY <1>2
<1>5. /\ Content(old, gradient) = Wanted("net", gradient) /\ Content(old, flag) = Wanted("net", flag)
      /\ Content(old, into) = Before("net", into)
  <2>1. i \notin old
    BY <1>1
  <2> QED BY <1>2, <2>1 DEF Content, Awaiting
<1>6. Stored(mem, "net", gradient, Wanted("net", gradient)) /\ Stored(mem, "net", flag, Wanted("net", flag))
      /\ Cells("net", into) = Words("net", into)
  <2>1. Cells("net", into) = Words("net", into)
    BY <1>0, <1>3, <1>4, CellsAre
  <2> QED BY <1>2, <1>4, <1>5, <2>1, ReadsRight
<1>7. AccumStep # 0 => Stored(mem, "net", into, Before("net", into))
  BY <1>2, <1>4, <1>5, ReadsRight
<1>8. /\ Wanted("net", gradient) = Value(N.name[gradient], {mb})
      /\ Wanted("net", flag) = Value(N.name[flag], IF mb = start THEN {1} ELSE {})
      /\ Wanted("net", into) = Value(N.name[into], start..mb)
      /\ Before("net", into) = Value(N.name[into], start..(mb - 1))
  BY <1>2 DEF Wanted, Before
<1>9. /\ start \in Nat /\ (mb = start <=> AccumStep = 0) /\ (mb = start => {mb} = start..mb)
      /\ (start..(mb - 1)) \cap {mb} = {} /\ (start..(mb - 1)) \cup {mb} = start..mb
  BY BatchFacts
<1>10. N.name[gradient] # Garbage.of /\ N.name[into] # Garbage.of
  BY <1>0, <1>3, NetFacts DEF Prepared, Static
<1> DEFINE reset == Read(ptr["net"][flag])
           from(c) == Offset(ptr["net"][gradient], c.at - ptr["net"][into].at)
           w == Want("net")
<1>11. reset = Wanted("net", flag)
  <2>1. Spot("net", flag) \in Words("net", flag) /\ Spot("net", flag) \in Cell
    BY <1>0, <1>3, FirstWord
  <2> QED BY <1>4, <1>6, <2>1 DEF Read, Pointed, Stored
<1>12. \A c \in Words("net", into) : Read(from(c)) = Wanted("net", gradient)
  <2> SUFFICES ASSUME NEW c \in Words("net", into)
               PROVE  Read(from(c)) = Wanted("net", gradient)
    OBVIOUS
  <2> DEFINE k == c.at - Spot("net", into).at
  <2>1. k \in 0..(N.size[into] - 1)
    BY <1>0, <1>3, SpotIs
  <2>2. Offset(Spot("net", gradient), k) \in Words("net", gradient)
        /\ Offset(Spot("net", gradient), k) \in Cell
    BY <1>0, <1>2, <1>3, <2>1, SpotIs
  <2>3. from(c) = Offset(Spot("net", gradient), k)
    BY <1>4 DEF Pointed
  <2> QED BY <1>6, <2>2, <2>3 DEF Read, Stored
<1>13. w[into] = Wanted("net", into) /\ w[flag] = Wanted("net", flag)
  BY <1>3 DEF Want, Buffers
<1>14. mem' = [c \in Cell |->
                  IF c \notin Words("net", into) THEN mem[c]
                  ELSE IF reset.of # w[flag].of THEN Garbage
                  ELSE IF reset.from # {} THEN [of |-> w[into].of, from |-> Read(from(c)).from]
                  ELSE Fold(mem[c], Read(from(c)))]
  BY <1>6 DEF RunAccumulate
<1>15. \A c \in Cell : c \notin Words("net", into) => mem'[c] = mem[c]
  <2> HIDE DEF reset, w, from
  <2> QED BY <1>14
<1>16. ASSUME NEW c \in Words("net", into) PROVE mem'[c] = Wanted("net", into)
  <2>1. c \in Cell
    BY <1>0, <1>3, SpotIs
  <2>2. reset.of = w[flag].of
    BY <1>11, <1>13
  <2>3. w[into].of = N.name[into] /\ Read(from(c)).from = {mb}
    <3>1. w[into] = Value(N.name[into], start..mb)
      BY <1>8, <1>13
    <3>2. Read(from(c)) = Value(N.name[gradient], {mb})
      BY <1>8, <1>12, <1>16
    <3> HIDE DEF w, from, into, gradient, N, start
    <3> QED BY <3>1, <3>2, ValueFacts
  <2>4. reset.from # {} <=> mb = start
    <3>1. reset = Value(N.name[flag], IF mb = start THEN {1} ELSE {})
      BY <1>8, <1>11
    <3> HIDE DEF reset, flag, N, start
    <3>2. reset.from = IF mb = start THEN {1} ELSE {}
      BY <3>1, ValueFacts
    <3> QED BY <3>2
  <2>5. mem'[c] = IF reset.from # {} THEN [of |-> w[into].of, from |-> Read(from(c)).from]
                  ELSE Fold(mem[c], Read(from(c)))
    <3> HIDE DEF reset, w, from
    <3> QED BY <1>14, <1>16, <2>1, <2>2
  <2>6. CASE mb = start
    <3>1. mem'[c] = [of |-> N.name[into], from |-> {mb}]
      <4> HIDE DEF reset, w, from
      <4> QED BY <2>3, <2>4, <2>5, <2>6
    <3>2. {mb} = start..mb
      BY <1>9, <2>6
    <3>3. [of |-> N.name[into], from |-> {mb}] = Value(N.name[into], {mb})
      BY DEF Value
    <3> QED BY <1>8, <3>1, <3>2, <3>3
  <2>7. CASE mb # start
    <3>1. mem'[c] = Fold(mem[c], Read(from(c)))
      <4> HIDE DEF reset, w, from
      <4> QED BY <2>4, <2>5, <2>7
    <3>2. mem[c] = Value(N.name[into], start..(mb - 1))
      BY <1>7, <1>8, <1>9, <1>16, <2>7 DEF Stored
    <3>3. Read(from(c)) = Value(N.name[gradient], {mb})
      BY <1>8, <1>12, <1>16
    <3>4. mem'[c] = Fold(Value(N.name[into], start..(mb - 1)), Value(N.name[gradient], {mb}))
      <4> HIDE DEF from
      <4> QED BY <3>1, <3>2, <3>3
    <3>5. mem'[c] = Value(N.name[into], (start..(mb - 1)) \cup {mb})
      <4> HIDE DEF start, N, into, gradient
      <4> QED BY <1>9, <1>10, <3>4, FoldFacts
    <3> QED BY <1>8, <1>9, <3>5
  <2> QED BY <2>6, <2>7
<1>17. Kept("net", i, into) /\ Dealias(N, into) = into
  <2>1. Kept("net", i, into)
    BY <1>0, <1>2 DEF Kept
  <2> QED BY <1>0, <1>2, <2>1, InputRoot
<1>18. ASSUME NEW t, Due(1..i, t), ~ (Awaiting(1..i, t) /\ AccumStep = 0)
       PROVE  Stored(mem', "net", t, Content(1..i, t))
  <2>1. CASE t = into
    <3>1. ~ Awaiting(1..i, t)
      <4>1. i \in 1..i
        BY <1>1
      <4>2. Users(N, t) = {i}
        BY <1>2, <2>1
      <4> QED BY <4>1, <4>2 DEF Awaiting
    <3>2. Content(1..i, t) = Wanted("net", into)
      BY <2>1, <3>1 DEF Content
    <3> QED BY <1>16, <2>1, <3>2 DEF Stored
  <2>2. CASE t # into
    <3>0. Written(t) /\ t \in Touched(N)
      BY <1>0, <1>18, DueFacts
    <3>1. Dealias(N, t) # into
      <4>1. SUFFICES ASSUME Dealias(N, t) = into PROVE FALSE
        OBVIOUS
      <4>2. NamedAlike(N, t, into)
        BY <1>0, <3>0, <4>1, ViewFacts
      <4>3. N.role[t] = "grad"
        BY <1>2, <4>2 DEF NamedAlike
      <4>4. t \in Range(N.inputs)
        BY <1>0, <3>0, <4>3, ViewFacts
      <4> QED BY <1>0, <2>2, <4>1, <4>4, InputRoot
    <3>2. i \in Users(N, t) => N.role[t] # "grad"
      BY <1>2, <2>2 DEF Users
    <3>3. into = Dealias(N, into) /\ Kept("net", i, into)
      BY <1>17
    <3> HIDE DEF N, into, from, reset, w, start, old
    <3>4. N = nets["net"]
      BY DEF N
    <3> QED BY <1>15, <1>18, <3>1, <3>2, <3>3, <3>4, ContentKept DEF old
  <2> QED BY <2>1, <2>2
<1> QED BY <1>18 DEF RunContent

(* What the optimiser works on when the nodes of ran have run. *)
OptContent(ran, t) ==
    LET O == nets["opt"]
    IN  IF O.role[t] = "weight" /\ Users(O, t) \subseteq ran
        THEN Value(O.name[t], 0..mb) ELSE Wanted("opt", t)

UpdateContent(m, ran) ==
    \A t \in Range(nets["opt"].inputs) : Stored(m, "opt", t, OptContent(ran, t))

LEMMA SGDRuns ==
    ASSUME Planned, Training, mb \in Nat, NEW i \in Nodes(nets["opt"]),
           UpdateContent(mem, 1..(i - 1)),
           Pointed("opt", OptWeight(i)), Pointed("opt", OptGrad(i)), Pointed("opt", OptUpdated(i)),
           RunSGD("opt", nets["opt"].nodes[i])
    PROVE  UpdateContent(mem', 1..i)
<1> DEFINE O == nets["opt"]
           weight == OptWeight(i)
           grad == OptGrad(i)
           out == OptUpdated(i)
           start == Accum * UpdateStep
<1>0. Static /\ "opt" \in Net /\ WellFormed(O)
  BY NetFacts DEF Planned, Net
<1>1. Nodes(O) = 1..Len(O.nodes) /\ Len(O.nodes) \in Nat
  BY <1>0, NetworkParts
<1>2. /\ O.nodes[i].out = out /\ O.nodes[i].ins[1] = weight /\ O.nodes[i].ins[2] = grad
      /\ weight \in Range(O.inputs) /\ grad \in Range(O.inputs) /\ out \in Range(O.outputs)
      /\ O.role[weight] = "weight" /\ O.role[grad] = "grad"
      /\ O.size[weight] = O.size[out] /\ O.size[grad] = O.size[out]
      /\ Users(O, weight) = {i}
  <2>1. O.nodes[i].ins = <<weight, grad>>
    BY <1>0, OptimizerFacts
  <2>2. O.nodes[i].ins[1] = weight /\ O.nodes[i].ins[2] = grad
    BY <2>1
  <2> QED BY <1>0, <2>2, OptimizerFacts
<1>3. weight \in Touched(O) /\ grad \in Touched(O) /\ out \in Touched(O)
  BY <1>0, <1>2, TouchedTensors
<1>4. Spot("opt", out) = Spot("opt", weight) /\ Words("opt", out) = Words("opt", weight)
  BY UpdatedInWeight
<1>5. Cells("opt", out) = Words("opt", weight)
  BY <1>0, <1>3, <1>4, CellsAre
<1>6. i \notin 1..(i - 1) /\ i \in 1..i /\ \A j : j \in 1..i <=> j \in 1..(i - 1) \/ j = i
  BY <1>1
<1>7. /\ Stored(mem, "opt", weight, Value(O.name[weight], 0..(start - 1)))
      /\ Stored(mem, "opt", grad, Value(O.name[grad], start..mb))
  <2>1. OptContent(1..(i - 1), weight) = Wanted("opt", weight)
    BY <1>2, <1>6 DEF OptContent
  <2>2. OptContent(1..(i - 1), grad) = Wanted("opt", grad)
    BY <1>2 DEF OptContent
  <2>3. /\ Wanted("opt", weight) = Value(O.name[weight], 0..(start - 1))
        /\ Wanted("opt", grad) = Value(O.name[grad], start..mb)
    BY <1>2 DEF Wanted
  <2> QED BY <1>2, <2>1, <2>2, <2>3 DEF UpdateContent
<1>8. O.name[weight] # Garbage.of /\ O.name[grad] # Garbage.of
  <2>1. Touched(O) \subseteq Buffers(O)
    BY <1>0, TouchedTensors
  <2> QED BY <1>0, <1>3, <2>1, NetFacts DEF Prepared, Static
<1>9. (0..(start - 1)) \cap (start..mb) = {} /\ (0..(start - 1)) \cup (start..mb) = 0..mb
  BY BatchFacts
<1> DEFINE at(t, c) == Offset(ptr["opt"][t], c.at - ptr["opt"][out].at)
<1>10. mem' = [c \in Cell |-> IF c \notin Words("opt", weight) THEN mem[c]
                              ELSE Fold(Read(at(weight, c)), Read(at(grad, c)))]
  BY <1>2, <1>5 DEF RunSGD
<1>11. ASSUME NEW c \in Words("opt", weight)
       PROVE  c \in Cell /\ Read(at(weight, c)) = Value(O.name[weight], 0..(start - 1))
              /\ Read(at(grad, c)) = Value(O.name[grad], start..mb)
  <2> DEFINE k == c.at - Spot("opt", weight).at
  <2>1. k \in 0..(O.size[weight] - 1) /\ Offset(Spot("opt", weight), k) = c /\ c \in Cell
    BY <1>0, <1>3, SpotIs
  <2>2. at(weight, c) = c
    BY <1>4, <2>1 DEF Pointed
  <2>3. Offset(Spot("opt", grad), k) \in Words("opt", grad) /\ Offset(Spot("opt", grad), k) \in Cell
    <3>1. O.size[grad] = O.size[weight]
      BY <1>2
    <3> QED BY <1>0, <1>3, <2>1, <3>1, SpotIs
  <2>4. at(grad, c) = Offset(Spot("opt", grad), k)
    BY <1>4 DEF Pointed
  <2>5. Read(at(weight, c)) = Value(O.name[weight], 0..(start - 1))
    BY <1>7, <2>1, <2>2 DEF Read, Stored
  <2>6. Read(at(grad, c)) = Value(O.name[grad], start..mb)
    BY <1>7, <2>3, <2>4 DEF Read, Stored
  <2> QED BY <2>1, <2>5, <2>6
<1>12. ASSUME NEW c \in Words("opt", weight) PROVE mem'[c] = Value(O.name[weight], 0..mb)
  <2>1. mem'[c] = Fold(Read(at(weight, c)), Read(at(grad, c)))
    <3> HIDE DEF at
    <3> QED BY <1>10, <1>11
  <2>2. mem'[c] = Fold(Value(O.name[weight], 0..(start - 1)), Value(O.name[grad], start..mb))
    <3> HIDE DEF at
    <3> QED BY <1>11, <2>1
  <2>3. mem'[c] = Value(O.name[weight], (0..(start - 1)) \cup (start..mb))
    <3> DEFINE past == 0..(start - 1)
               group == start..mb
    <3>1. past \cap group = {}
      BY <1>9
    <3>2. mem'[c] = Fold(Value(O.name[weight], past), Value(O.name[grad], group))
      BY <2>2
    <3> HIDE DEF past, group, start, O, weight, grad, at
    <3>3. mem'[c] = Value(O.name[weight], past \cup group)
      BY <1>8, <3>1, <3>2, FoldFacts
    <3> QED BY <3>3 DEF past, group
  <2> QED BY <1>9, <2>3
<1>13. ASSUME NEW t \in Range(O.inputs) PROVE Stored(mem', "opt", t, OptContent(1..i, t))
  <2>1. CASE t = weight
    <3>1. OptContent(1..i, t) = Value(O.name[weight], 0..mb)
      BY <1>2, <1>6, <2>1 DEF OptContent
    <3> QED BY <1>12, <2>1, <3>1 DEF Stored
  <2>2. CASE t # weight
    <3>1. Words("opt", t) \cap Words("opt", weight) = {} /\ Words("opt", t) \subseteq Cell
      BY <1>0, <1>2, <1>13, <2>2, OptInputsApart, SpotIs, TouchedTensors
    <3>2. \A c \in Words("opt", t) : mem'[c] = mem[c]
      <4> HIDE DEF at
      <4> QED BY <1>10, <3>1
    <3>3. OptContent(1..i, t) = OptContent(1..(i - 1), t)
      <4>1. ASSUME O.role[t] = "weight" PROVE i \notin Users(O, t)
        <5>1. t # grad
          BY <1>2, <4>1
        <5>2. Range(O.nodes[i].ins) = {weight, grad}
          BY <1>0, OptimizerFacts
        <5> QED BY <2>2, <5>1, <5>2 DEF Users
      <4>2. O.role[t] = "weight" => (Users(O, t) \subseteq 1..i <=> Users(O, t) \subseteq 1..(i - 1))
        BY <1>6, <4>1
      <4> QED BY <4>2 DEF OptContent
    <3> QED BY <1>13, <3>2, <3>3 DEF UpdateContent, Stored
  <2> QED BY <2>1, <2>2
<1> QED BY <1>13 DEF UpdateContent

(* The weights and the accumulators of the training network. *)
InputContent(m, roles) ==
    \A t \in Range(nets["net"].inputs) : nets["net"].role[t] \in roles =>
        Stored(m, "net", t, Wanted("net", t))

(* The inputs of the optimiser and what they stand for. *)
LEMMA SourceFacts ==
    ASSUME Static, Training, NEW t \in Range(nets["opt"].inputs)
    PROVE  LET N == nets["net"]
               O == nets["opt"]
               s == SourceOf(N, O.name[t])
           IN  /\ s \in Range(N.inputs) /\ s \in Touched(N) /\ t \in Touched(O)
               /\ O.name[t] = N.name[s] /\ O.role[t] = N.role[s] /\ O.role[t] \in {"weight", "grad"}
               /\ O.size[t] <= N.size[s] /\ O.size[t] \in Nat /\ O.size[t] > 0 /\ N.size[s] \in Nat
               /\ Wanted("opt", t) = Wanted("net", s)
<1> DEFINE N == nets["net"]
           O == nets["opt"]
           s == SourceOf(N, O.name[t])
<1>1. PICK wi \in Nodes(O) : t = OptWeight(wi) \/ t = OptGrad(wi)
  BY OptimizerFacts
<1>2. wi \in 1..NumWeights
  BY OptimizerFacts
<1>3. s \in Range(N.inputs) /\ O.name[t] = N.name[s] /\ O.role[t] = N.role[s]
      /\ O.role[t] \in {"weight", "grad"} /\ O.size[t] <= N.size[s]
  <2>1. CASE t = OptWeight(wi)
    <3>1. s = TrainWeight(wi)
      BY <2>1, SharedIs
    <3>2. N.role[TrainWeight(wi)] = "weight" /\ TrainWeight(wi) \in Range(N.inputs)
      BY <1>2, TrainingInputs
    <3>3. /\ O.name[t] = N.name[TrainWeight(wi)] /\ O.role[t] = "weight"
          /\ O.size[t] = O.size[OptUpdated(wi)]
          /\ O.size[OptUpdated(wi)] <= N.size[TrainWeight(wi)]
      BY <2>1, OptimizerFacts
    <3> QED BY <3>1, <3>2, <3>3
  <2>2. CASE t = OptGrad(wi)
    <3>1. s = TrainGrad(wi)
      BY <2>2, SharedIs
    <3>2. N.role[TrainGrad(wi)] = "grad" /\ TrainGrad(wi) \in Range(N.inputs)
      BY <1>2, TrainingInputs
    <3>3. /\ O.name[t] = N.name[TrainGrad(wi)] /\ O.role[t] = "grad"
          /\ O.size[t] = O.size[OptUpdated(wi)]
          /\ O.size[OptUpdated(wi)] <= N.size[TrainGrad(wi)]
      BY <2>2, OptimizerFacts
    <3> QED BY <3>1, <3>2, <3>3
  <2> QED BY <1>1, <2>1, <2>2
<1>4. s \in Touched(N) /\ t \in Touched(O)
  BY <1>3, TouchedTensors DEF Net
<1>5. O.size[t] \in Nat /\ O.size[t] > 0 /\ N.size[s] \in Nat
  BY <1>4, NetFacts, TouchedRoot DEF Net
<1>6. Wanted("opt", t) = Wanted("net", s)
  BY <1>3 DEF Wanted
<1> QED BY <1>3, <1>4, <1>5, <1>6

(* The cells after some copies. *)
LEMMA CopiedFacts ==
    ASSUME NEW copies, NEW m, m = Copied(copies), NEW c \in Cell
    PROVE  \/ \E n \in copies : c \in n.target /\ m[c] = Read(Offset(n.from, (c.at - n.to.at) % n.words))
           \/ (\A n \in copies : c \notin n.target) /\ m[c] = mem[c]
<1>1. CASE \E n \in copies : c \in n.target
  <2> DEFINE chosen == CHOOSE n \in copies : c \in n.target
  <2>1. chosen \in copies /\ c \in chosen.target
    BY <1>1
  <2>2. m[c] = Read(Offset(chosen.from, (c.at - chosen.to.at) % chosen.words))
    BY <1>1 DEF Copied
  <2> HIDE DEF chosen
  <2> QED BY <2>1, <2>2
<1>2. CASE \A n \in copies : c \notin n.target
  BY <1>2 DEF Copied
<1> QED BY <1>1, <1>2

LEMMA CopyFacts ==
    ASSUME NEW w, NEW t, NEW v, NEW u, NEW words, Pointed(w, t), Pointed(v, u)
    PROVE  LET m == Copy(w, t, v, u, words)
           IN  /\ m.to = Spot(w, t) /\ m.from = Spot(v, u)
               /\ words = nets[w].size[t] => m.target = Words(w, t)
               /\ m.words = nets["opt"].size[IF w = "opt" THEN t ELSE u]
BY DEF Copy, Pointed, Words, Span

LEMMA SmallMod ==
    ASSUME NEW n \in Nat, NEW k \in 0..(n - 1)
    PROVE  k % n = k
BY SMT

(* Copying in, the optimiser gets what belongs to its inputs. *)
LEMMA CopyInRuns ==
    ASSUME Planned, Training, InputContent(mem, {"weight", "grad"}),
           \A w \in Net : \A t \in Range(nets[w].inputs) : Pointed(w, t),
           NEW m,
           m = Copied(Apart(
               {Copy("opt", OptWeight(wi), "net", TrainWeight(wi),
                     nets["opt"].size[OptWeight(wi)]) : wi \in 1..NumWeights}
               \cup {Copy("opt", OptGrad(wi), "net", TrainGrad(wi),
                     nets["opt"].size[OptGrad(wi)]) : wi \in 1..NumWeights}))
    PROVE  UpdateContent(m, {})
<1> DEFINE N == nets["net"]
           O == nets["opt"]
           S(t) == SourceOf(N, O.name[t])
           copyOf(t) == Copy("opt", t, "net", S(t), O.size[t])
           copies == {Copy("opt", OptWeight(wi), "net", TrainWeight(wi),
                           O.size[OptWeight(wi)]) : wi \in 1..NumWeights}
                     \cup {Copy("opt", OptGrad(wi), "net", TrainGrad(wi),
                           O.size[OptGrad(wi)]) : wi \in 1..NumWeights}
<1>0. Static /\ "opt" \in Net /\ "net" \in Net
  BY DEF Planned, Net
<1>1. copies = {copyOf(t) : t \in Range(O.inputs)}
  <2>1. \A wi \in 1..NumWeights :
           /\ OptWeight(wi) \in Range(O.inputs) /\ S(OptWeight(wi)) = TrainWeight(wi)
           /\ OptGrad(wi) \in Range(O.inputs) /\ S(OptGrad(wi)) = TrainGrad(wi)
    BY <1>0, OptimizerFacts, SharedIs
  <2>2. \A t \in Range(O.inputs) : \E wi \in 1..NumWeights : t = OptWeight(wi) \/ t = OptGrad(wi)
    BY <1>0, OptimizerFacts
  <2> HIDE DEF S
  <2> QED BY <2>1, <2>2
<1>2. \A t \in Range(O.inputs) :
         /\ S(t) \in Range(N.inputs) /\ O.size[t] <= N.size[S(t)] /\ N.role[S(t)] \in {"weight", "grad"}
         /\ O.size[t] \in Nat /\ N.size[S(t)] \in Nat /\ Wanted("opt", t) = Wanted("net", S(t))
         /\ t \in Touched(O) /\ S(t) \in Touched(N)
  BY <1>0, SourceFacts
<1>3. \A t \in Range(O.inputs) :
         /\ copyOf(t).to = Spot("opt", t) /\ copyOf(t).from = Spot("net", S(t))
         /\ copyOf(t).target = Words("opt", t) /\ copyOf(t).words = O.size[t]
  <2> SUFFICES ASSUME NEW t \in Range(O.inputs)
               PROVE  /\ copyOf(t).to = Spot("opt", t) /\ copyOf(t).from = Spot("net", S(t))
                      /\ copyOf(t).target = Words("opt", t) /\ copyOf(t).words = O.size[t]
    OBVIOUS
  <2>1. Pointed("opt", t) /\ Pointed("net", S(t))
    BY <1>0, <1>2
  <2> HIDE DEF S
  <2> QED BY <2>1, CopyFacts
<1>4. ASSUME NEW t \in Range(O.inputs), NEW c \in Words("opt", t)
      PROVE  m[c] = Wanted("opt", t)
  <2> DEFINE s == S(t)
  <2>1. c \in Cell
    BY <1>0, <1>2, SpotIs
  <2>2. Stored(mem, "net", s, Wanted("opt", t))
    BY <1>2 DEF InputContent
  <2>3. \A u \in Range(O.inputs) : c \in Words("opt", u) => u = t
    BY <1>4, OptInputsApart
  <2>4. m = Copied(Apart(copies))
    OBVIOUS
  <2>5. \/ \E n \in Apart(copies) :
              c \in n.target /\ m[c] = Read(Offset(n.from, (c.at - n.to.at) % n.words))
        \/ (\A n \in Apart(copies) : c \notin n.target) /\ m[c] = mem[c]
    <3> HIDE DEF copies
    <3> QED BY <2>1, <2>4, CopiedFacts
  <2>6. CASE SharedBuffer(t)
    <3>1. copyOf(t) \notin Apart(copies)
      <4>1. Spot("opt", t) = Spot("net", s)
        BY <2>6 DEF Spot
      <4>2. copyOf(t).to = copyOf(t).from
        BY <1>3, <4>1
      <4> HIDE DEF copyOf
      <4> QED BY <4>2 DEF Apart
    <3>2. \A n \in Apart(copies) : c \notin n.target
      <4>1. SUFFICES ASSUME NEW n \in Apart(copies), c \in n.target PROVE FALSE
        OBVIOUS
      <4>2. PICK u \in Range(O.inputs) : n = copyOf(u)
        BY <1>1 DEF Apart
      <4>3. u = t
        <5> HIDE DEF copyOf
        <5> QED BY <1>3, <2>3, <4>1, <4>2
      <4> QED BY <3>1, <4>2, <4>3
    <3>3. m[c] = mem[c]
      BY <2>5, <3>2
    <3>4. c \in Words("net", s)
      BY <1>2, <1>4, <2>6, WordsAre
    <3> QED BY <2>2, <3>3, <3>4 DEF Stored
  <2>7. CASE ~ SharedBuffer(t)
    <3>1. Spot("opt", t) # Spot("net", s)
      <4>1. Spot("opt", t).area = "opt" /\ Spot("net", s).area = "net"
        BY <2>7 DEF Spot, ArenaAddress
      <4> QED BY <4>1
    <3>2. copyOf(t) \in Apart(copies) /\ c \in copyOf(t).target
      <4>1. copyOf(t) \in copies /\ copyOf(t).to # copyOf(t).from
        BY <1>1, <1>3, <3>1
      <4> HIDE DEF copyOf
      <4> QED BY <1>3, <1>4, <4>1 DEF Apart
    <3>3. PICK n \in Apart(copies) :
             c \in n.target /\ m[c] = Read(Offset(n.from, (c.at - n.to.at) % n.words))
      BY <2>5, <3>2
    <3>4. n = copyOf(t)
      <4>1. PICK u \in Range(O.inputs) : n = copyOf(u)
        BY <1>1 DEF Apart
      <4>2. u = t
        <5> HIDE DEF copyOf
        <5> QED BY <1>3, <2>3, <3>3, <4>1
      <4> QED BY <4>1, <4>2
    <3> DEFINE k == c.at - Spot("opt", t).at
    <3>5. k \in 0..(O.size[t] - 1)
      BY <1>0, <1>2, <1>4, SpotIs
    <3>6. k % O.size[t] = k
      <4> HIDE DEF k, O
      <4> QED BY <1>2, <3>5, SmallMod
    <3>7. m[c] = Read(Offset(Spot("net", s), k % O.size[t]))
      <4> HIDE DEF copyOf
      <4> QED BY <1>3, <3>3, <3>4
    <3>8. k \in 0..(N.size[s] - 1)
      <4>1. O.size[t] <= N.size[s] /\ O.size[t] \in Nat /\ N.size[s] \in Nat
        BY <1>2
      <4> HIDE DEF k, s, O, N
      <4> QED BY <3>5, <4>1
    <3>9. Offset(Spot("net", s), k) \in Words("net", s) /\ Offset(Spot("net", s), k) \in Cell
      BY <1>0, <1>2, <3>8, SpotIs
    <3>10. m[c] = mem[Offset(Spot("net", s), k)]
      BY <3>6, <3>7, <3>9 DEF Read
    <3> HIDE DEF k, s
    <3> QED BY <2>2, <3>9, <3>10 DEF Stored
  <2> QED BY <2>6, <2>7
<1>5. ASSUME NEW t \in Range(O.inputs) PROVE OptContent({}, t) = Wanted("opt", t)
  <2>1. O.role[t] = "weight" => Users(O, t) # {}
    <3>1. WellFormed(O)
      BY <1>0, NetFacts
    <3> QED BY <3>1 DEF WellFormed
  <2> QED BY <2>1 DEF OptContent
<1> QED BY <1>4, <1>5 DEF UpdateContent, Stored

(* Copying out, the training network gets its updated weights. *)
LEMMA CopyOutRuns ==
    ASSUME Planned, Training, UpdateContent(mem, Nodes(nets["opt"])),
           \A w \in Net : \A t \in Range(nets[w].inputs) \cup Range(nets[w].outputs) : Pointed(w, t),
           NEW m,
           m = Copied(Apart(
               {Copy("net", TrainWeight(wi), "opt", OptUpdated(wi),
                     nets["net"].size[TrainWeight(wi)]) : wi \in 1..NumWeights}))
    PROVE  \A t \in Range(nets["net"].inputs) : nets["net"].role[t] = "weight" =>
               Stored(m, "net", t, Value(nets["net"].name[t], 0..mb))
<1> DEFINE N == nets["net"]
           O == nets["opt"]
           copyOf(wi) == Copy("net", TrainWeight(wi), "opt", OptUpdated(wi), N.size[TrainWeight(wi)])
           copies == {copyOf(wi) : wi \in 1..NumWeights}
<1>0. Static /\ "opt" \in Net /\ "net" \in Net /\ Nodes(O) = 1..NumWeights
  BY OptimizerFacts DEF Planned, Net
<1>1. \A wi \in 1..NumWeights :
         /\ TrainWeight(wi) \in Range(N.inputs) /\ TrainWeight(wi) \in Touched(N)
         /\ OptUpdated(wi) \in Range(O.outputs) /\ OptUpdated(wi) \in Touched(O)
         /\ OptWeight(wi) \in Range(O.inputs) /\ O.role[OptWeight(wi)] = "weight"
         /\ O.name[OptWeight(wi)] = N.name[TrainWeight(wi)]
         /\ Users(O, OptWeight(wi)) \subseteq Nodes(O)
  <2> SUFFICES ASSUME NEW wi \in 1..NumWeights
               PROVE  /\ TrainWeight(wi) \in Range(N.inputs) /\ TrainWeight(wi) \in Touched(N)
                      /\ OptUpdated(wi) \in Range(O.outputs) /\ OptUpdated(wi) \in Touched(O)
                      /\ OptWeight(wi) \in Range(O.inputs) /\ O.role[OptWeight(wi)] = "weight"
                      /\ O.name[OptWeight(wi)] = N.name[TrainWeight(wi)]
                      /\ Users(O, OptWeight(wi)) \subseteq Nodes(O)
    OBVIOUS
  <2>1. TrainWeight(wi) \in Range(N.inputs)
    BY <1>0, TrainingInputs
  <2>2. /\ OptUpdated(wi) \in Range(O.outputs) /\ OptWeight(wi) \in Range(O.inputs)
        /\ O.role[OptWeight(wi)] = "weight" /\ O.name[OptWeight(wi)] = N.name[TrainWeight(wi)]
    BY <1>0, OptimizerFacts
  <2>3. Users(O, OptWeight(wi)) \subseteq Nodes(O)
    BY DEF Users
  <2> QED BY <1>0, <2>1, <2>2, <2>3, TouchedTensors
<1>2. \A wi \in 1..NumWeights :
         /\ copyOf(wi).to = Spot("net", TrainWeight(wi)) /\ copyOf(wi).from = Spot("opt", OptUpdated(wi))
         /\ copyOf(wi).target = Words("net", TrainWeight(wi)) /\ copyOf(wi).words = O.size[OptUpdated(wi)]
  <2> SUFFICES ASSUME NEW wi \in 1..NumWeights
               PROVE  /\ copyOf(wi).to = Spot("net", TrainWeight(wi))
                      /\ copyOf(wi).from = Spot("opt", OptUpdated(wi))
                      /\ copyOf(wi).target = Words("net", TrainWeight(wi))
                      /\ copyOf(wi).words = O.size[OptUpdated(wi)]
    OBVIOUS
  <2>1. Pointed("opt", OptUpdated(wi)) /\ Pointed("net", TrainWeight(wi))
    BY <1>0, <1>1
  <2> QED BY <2>1, CopyFacts
<1>3. ASSUME NEW wi \in 1..NumWeights, NEW c \in Words("net", TrainWeight(wi))
      PROVE  m[c] = Value(N.name[TrainWeight(wi)], 0..mb)
  <2> DEFINE out == OptUpdated(wi)
             weight == TrainWeight(wi)
  <2>1. c \in Cell
    BY <1>0, <1>1, SpotIs
  <2>2. Stored(mem, "opt", OptWeight(wi), Value(N.name[weight], 0..mb))
    <3>1. OptContent(Nodes(O), OptWeight(wi)) = Value(N.name[weight], 0..mb)
      BY <1>1 DEF OptContent
    <3> QED BY <1>1, <3>1 DEF UpdateContent
  <2>3. \A wj \in 1..NumWeights : c \in Words("net", TrainWeight(wj)) => wj = wi
    <3> SUFFICES ASSUME NEW wj \in 1..NumWeights, c \in Words("net", TrainWeight(wj)), wj # wi
                 PROVE  FALSE
      OBVIOUS
    <3>1. TrainWeight(wi) # TrainWeight(wj)
      BY <1>0, TrainDistinct
    <3>2. Home("net", TrainWeight(wi)) \cap Home("net", TrainWeight(wj)) = {}
      BY <1>0, <1>1, <3>1, InputsApart
    <3> QED BY <1>3, <3>2, WordsAre
  <2>4. m = Copied(Apart(copies))
    OBVIOUS
  <2>5. \/ \E n \in Apart(copies) :
              c \in n.target /\ m[c] = Read(Offset(n.from, (c.at - n.to.at) % n.words))
        \/ (\A n \in Apart(copies) : c \notin n.target) /\ m[c] = mem[c]
    <3> HIDE DEF copies
    <3> QED BY <2>1, <2>4, CopiedFacts
  <2>6. \A n \in Apart(copies) : c \in n.target => n = copyOf(wi)
    <3> SUFFICES ASSUME NEW n \in Apart(copies), c \in n.target PROVE n = copyOf(wi)
      OBVIOUS
    <3>1. PICK wj \in 1..NumWeights : n = copyOf(wj)
      BY DEF Apart
    <3>2. wj = wi
      <4> HIDE DEF copyOf
      <4> QED BY <1>2, <2>3, <3>1
    <3> QED BY <3>1, <3>2
  <2>7. /\ Spot("opt", out) = Spot("opt", OptWeight(wi)) /\ Words("opt", out) = Words("opt", OptWeight(wi))
        /\ SharedBuffer(OptWeight(wi)) =>
               /\ Spot("opt", OptWeight(wi)) = Spot("net", weight)
               /\ Words("opt", OptWeight(wi)) = Words("net", weight)
    BY <1>0, UpdatedInWeight
  <2>8. CASE SharedBuffer(OptWeight(wi))
    <3>1. copyOf(wi).to = copyOf(wi).from
      BY <1>2, <2>7, <2>8
    <3>2. copyOf(wi) \notin Apart(copies)
      <4> HIDE DEF copyOf
      <4> QED BY <3>1 DEF Apart
    <3>3. m[c] = mem[c]
      BY <2>5, <2>6, <3>2
    <3> QED BY <1>3, <2>2, <2>7, <2>8, <3>3 DEF Stored
  <2>9. CASE ~ SharedBuffer(OptWeight(wi))
    <3>1. Spot("opt", out).area = "opt" /\ Spot("net", weight).area = "net"
      <4>1. Spot("opt", OptWeight(wi)).area = "opt" /\ Spot("net", weight).area = "net"
        BY <2>9 DEF Spot, ArenaAddress
      <4> QED BY <2>7, <4>1
    <3>2. copyOf(wi).to # copyOf(wi).from
      BY <1>2, <3>1
    <3>3. copyOf(wi) \in Apart(copies) /\ c \in copyOf(wi).target
      <4> HIDE DEF copyOf
      <4> QED BY <1>2, <1>3, <3>2 DEF Apart
    <3> DEFINE k == c.at - Spot("net", weight).at
               n == O.size[out]
    <3>4. m[c] = Read(Offset(Spot("opt", out), k % n))
      <4>1. m[c] = Read(Offset(copyOf(wi).from, (c.at - copyOf(wi).to.at) % copyOf(wi).words))
        <5> HIDE DEF copyOf, copies
        <5> QED BY <2>5, <2>6, <3>3
      <4> HIDE DEF copyOf
      <4> QED BY <1>2, <4>1
    <3>5. k \in Nat
      <4>1. k \in 0..(N.size[weight] - 1)
        BY <1>0, <1>1, <1>3, SpotIs
      <4> QED BY <4>1
    <3>6. n \in Nat /\ n > 0
      BY <1>0, <1>1, SpotIs
    <3>7. k % n \in 0..(n - 1)
      <4> HIDE DEF k, n
      <4> QED BY <3>5, <3>6, DivMod
    <3>8. Offset(Spot("opt", out), k % n) \in Words("opt", out) /\ Offset(Spot("opt", out), k % n) \in Cell
      <4> DEFINE j == k % n
      <4>1. j \in 0..(O.size[out] - 1)
        BY <3>7
      <4> HIDE DEF j, k
      <4>2. Offset(Spot("opt", out), j) \in Words("opt", out) /\ Offset(Spot("opt", out), j) \in Cell
        BY <1>0, <1>1, <4>1, SpotIs
      <4> QED BY <4>2 DEF j
    <3>9. m[c] = mem[Offset(Spot("opt", out), k % n)]
      BY <3>4, <3>8 DEF Read
    <3> HIDE DEF k, n
    <3> QED BY <2>2, <2>7, <3>8, <3>9 DEF Stored
  <2> QED BY <2>8, <2>9
<1>4. \A t \in Range(N.inputs) : N.role[t] = "weight" => \E wi \in 1..NumWeights : t = TrainWeight(wi)
  BY <1>0, TrainingInputs
<1> QED BY <1>3, <1>4 DEF Stored

-----------------------------------------------------------------------------
(* The invariant of the run. *)

Early == {"generate", "place", "initNet"}

(* The stages that only a training deployment passes through. *)
TrainingPhases == {"zeroGrads", "initOpt", "initWeights", "copyIn", "runOpt"}

Phases == Early \cup TrainingPhases \cup {"loadData", "runNet", "done"}

(* Where the tool chain and the harness are. *)
PhaseInv ==
    /\ phase \in Phases /\ ip \in Nat \ {0} /\ heap = {}
    /\ phase # "generate" => \A w \in Net : AllGenerated(w)
    /\ phase \notin {"generate", "place"} => AllPlaced
    /\ ~ Training => phase \notin TrainingPhases

(* The mini-batches: the optimiser runs behind the last of a group. *)
BatchInv ==
    /\ mb \in Nat /\ losses \in Seq([of : {"loss"}, from : SUBSET Nat])
    /\ phase \in Early \cup {"zeroGrads", "initOpt", "initWeights"} \/ ~ Training =>
           mb = 0 /\ losses = <<>>
    /\ phase # "done" => UpdateStep < Updates
    /\ phase = "done" /\ Training => mb = Accum * Updates
    /\ phase \in {"copyIn", "runOpt"} => AccumStep = Accum - 1 /\ Len(losses) = mb + 1
    /\ phase \in {"loadData", "runNet", "done"} /\ Training => Len(losses) = mb
    /\ \A k \in 1..Len(losses) : losses[k] = Value("loss", {k - 1})

Initialised(w) ==
    IF w = "net" THEN phase \notin Early
    ELSE Training /\ phase \notin Early \cup {"zeroGrads", "initOpt"}

(* Inputs and outputs have their places from the initialisation on, what a *)
(* node writes when it is allocated.                                       *)
PtrInv ==
    /\ ptr = [w \in Net |-> ptr[w]]
    /\ \A w \in Net : ptr[w] \in [Buffers(nets[w]) -> Cell \cup {Null}]
    /\ \A w \in Net : Initialised(w) =>
           \A t \in Range(nets[w].inputs) \cup Range(nets[w].outputs) : Pointed(w, t)
    /\ phase = "runNet" =>
           /\ \A i \in Ran("net") : Pointed("net", nets["net"].nodes[i].out)
           /\ \A k \in 1..Len(program["net"]) : \A t \in Buffers(nets["net"]) :
                  k < ip /\ program["net"][k] = AllocOf(t) => Pointed("net", t)

(* The accumulators hold some mini-batches. *)
GradContent(m, batches) ==
    \A t \in Range(nets["net"].inputs) : nets["net"].role[t] = "grad" =>
        Stored(m, "net", t, Value(nets["net"].name[t], batches))

MemInv ==
    /\ phase = "runNet" => RunContent(mem, Ran("net"))
    /\ Training /\ phase \in {"loadData", "done"} => InputContent(mem, {"weight"})
    /\ Training /\ phase = "loadData" /\ AccumStep # 0 =>
           GradContent(mem, (Accum * UpdateStep)..(mb - 1))
    /\ phase = "copyIn" => InputContent(mem, {"weight", "grad"})
    /\ phase = "runOpt" => UpdateContent(mem, Ran("opt"))
    /\ ~ Training /\ phase = "done" =>
           \A t \in Range(nets["net"].outputs) : Stored(mem, "net", t, Wanted("net", t))

HarnessInv == PhaseInv /\ BatchInv /\ PtrInv /\ MemInv

-----------------------------------------------------------------------------
(* What the harness does not change. *)
Fix == nets' = nets /\ program' = program /\ addrSpace' = addrSpace /\ deployment' = deployment

LEMMA Fixed ==
    ASSUME Fix
    PROVE  /\ Training' <=> Training
           /\ \A w, t : Spot(w, t)' = Spot(w, t) /\ Words(w, t)' = Words(w, t)
           /\ \A m, w, t, v : Stored(m, w, t, v)' <=> Stored(m, w, t, v)
           /\ \A w, n : RanBefore(w, n)' = RanBefore(w, n)
           /\ \A m, batches : GradContent(m, batches)' <=> GradContent(m, batches)
<1>1. Training' <=> Training
  BY DEF Fix, Training
<1>2. \A w, t : ArenaAddress(w, t)' = ArenaAddress(w, t)
  BY DEF Fix, ArenaAddress
<1>3. \A t : SharedBuffer(t)' <=> SharedBuffer(t)
  BY DEF Fix, SharedBuffer
<1>4. \A w, t : Spot(w, t)' = Spot(w, t)
  BY <1>2, <1>3 DEF Fix, Spot
<1>5. \A w, t : Words(w, t)' = Words(w, t)
  BY <1>4 DEF Fix, Words, Span
<1>6. \A m, w, t, v : Stored(m, w, t, v)' <=> Stored(m, w, t, v)
  BY <1>5 DEF Stored
<1>7. \A w, n : RanBefore(w, n)' = RanBefore(w, n)
  BY DEF Fix, RanBefore
<1>8. \A m, batches : GradContent(m, batches)' <=> GradContent(m, batches)
  BY <1>6 DEF Fix, GradContent
<1> QED BY <1>1, <1>4, <1>5, <1>6, <1>7, <1>8

LEMMA FixedBatch ==
    ASSUME Fix, mb' = mb
    PROVE  /\ AccumStep' = AccumStep /\ UpdateStep' = UpdateStep
           /\ \A w, t : Wanted(w, t)' = Wanted(w, t)
           /\ \A m, ran : RunContent(m, ran)' <=> RunContent(m, ran)
           /\ \A m, roles : InputContent(m, roles)' <=> InputContent(m, roles)
           /\ \A m, ran : UpdateContent(m, ran)' <=> UpdateContent(m, ran)
<1>1. AccumStep' = AccumStep /\ UpdateStep' = UpdateStep
  BY DEF AccumStep, UpdateStep
<1>2. \A w, t : Wanted(w, t)' = Wanted(w, t)
  BY <1>1 DEF Fix, Wanted
<1>3. \A m, w, t, v : Stored(m, w, t, v)' <=> Stored(m, w, t, v)
  BY Fixed
<1>4. \A m, roles : InputContent(m, roles)' <=> InputContent(m, roles)
  BY <1>2, <1>3 DEF Fix, InputContent
<1>5. \A m, ran : UpdateContent(m, ran)' <=> UpdateContent(m, ran)
  <2>1. \A ran, t : OptContent(ran, t)' = OptContent(ran, t)
    BY <1>2 DEF Fix, OptContent
  <2> QED BY <1>3, <2>1 DEF Fix, UpdateContent
<1>6. \A m, ran : RunContent(m, ran)' <=> RunContent(m, ran)
  <2>1. Training' <=> Training
    BY Fixed
  <2>2. \A ran, t : Needs(ran, t)' <=> Needs(ran, t)
    BY DEF Fix, Needs
  <2>3. \A ran, t : Due(ran, t)' <=> Due(ran, t)
    BY <2>1, <2>2 DEF Fix, Due
  <2>4. \A ran, t : Awaiting(ran, t)' <=> Awaiting(ran, t)
    BY DEF Fix, Awaiting
  <2>5. \A t : Before("net", t)' = Before("net", t)
    BY <1>1, <1>2 DEF Fix, Before
  <2>6. \A ran, t : Content(ran, t)' = Content(ran, t)
    BY <1>2, <2>4, <2>5 DEF Content
  <2> QED BY <1>1, <1>3, <2>3, <2>4, <2>6 DEF RunContent
<1> QED BY <1>1, <1>2, <1>4, <1>5, <1>6

Stay ==
    /\ nets' = nets /\ generationVars' = generationVars /\ placementVars' = placementVars
    /\ deployment' = deployment /\ strategy' = strategy

LEMMA StayFix ==
    ASSUME Stay
    PROVE  Fix /\ (\A w : AllGenerated(w)' <=> AllGenerated(w)) /\ (AllPlaced' <=> AllPlaced)
BY DEF Stay, Fix, generationVars, placementVars, AllGenerated, AllPlaced, Block

LEMMA PhaseStep ==
    ASSUME Stay, PhaseInv, phase \notin {"generate", "place"},
           heap' = heap, ip' \in Nat \ {0}, phase' \in Phases \ {"generate", "place"},
           phase' \in TrainingPhases => Training
    PROVE  PhaseInv'
<1>1. Training' <=> Training
  BY StayFix, Fixed
<1>2. /\ phase' \in Phases /\ ip' \in Nat \ {0} /\ heap' = {}
      /\ phase' # "generate" /\ phase' \notin {"generate", "place"}
  BY DEF PhaseInv
<1>3. (\A w \in Net : AllGenerated(w)') /\ AllPlaced'
  BY StayFix DEF PhaseInv
<1> QED BY <1>1, <1>2, <1>3 DEF PhaseInv

(* The pointers stay, and at its start a network has run no node. *)
LEMMA PtrKept ==
    ASSUME Fix, PtrInv, ptr' = ptr, \A w \in Net : Initialised(w)' => Initialised(w),
           phase' = "runNet" => ip' = 1
    PROVE  PtrInv'
<1>1. \A w, t : Pointed(w, t)' <=> Pointed(w, t)
  BY Fixed DEF Pointed
<1>2. ptr' = [w \in Net |-> ptr'[w]] /\ \A w \in Net : ptr'[w] \in [Buffers(nets'[w]) -> Cell \cup {Null}]
  BY DEF PtrInv, Fix
<1>3. \A w \in Net : Initialised(w)' =>
         \A t \in Range(nets'[w].inputs) \cup Range(nets'[w].outputs) : Pointed(w, t)'
  BY <1>1 DEF PtrInv, Fix
<1>4. ASSUME phase' = "runNet"
      PROVE  /\ Ran("net")' = {}
             /\ \A k \in 1..Len(program'["net"]) : ~ (k < ip')
  BY <1>4 DEF Ran, RanBefore
<1> QED BY <1>2, <1>3, <1>4 DEF PtrInv

LEMMA ZeroGradsStep ==
    ASSUME Stay, HarnessInv, ZeroGrads
    PROVE  HarnessInv'
<1>1. phase = "zeroGrads" /\ phase' = "initOpt" /\ Fix
      /\ UNCHANGED <<ptr, heap, ip, mb, losses>>
  BY StayFix DEF ZeroGrads
<1>2. Training /\ (Training' <=> Training)
  BY <1>1, Fixed DEF HarnessInv, PhaseInv, TrainingPhases
<1>3. PhaseInv'
  BY <1>1, <1>2, PhaseStep DEF HarnessInv, PhaseInv, Phases, TrainingPhases
<1>4. BatchInv'
  BY <1>1, <1>2 DEF HarnessInv, BatchInv, UpdateStep, Early
<1>5. PtrInv'
  BY <1>1, <1>2, PtrKept DEF HarnessInv, Initialised, Early
<1>6. MemInv'
  BY <1>1, <1>2 DEF MemInv
<1> QED BY <1>3, <1>4, <1>5, <1>6 DEF HarnessInv

(* The tensors that a network is initialised with. *)
LEMMA InitListFacts ==
    ASSUME Static, NEW w \in Net
    PROVE  LET first == nets[w].inputs \o nets[w].outputs
           IN  /\ first \in Seq(Buffers(nets[w]))
               /\ Range(first) = Range(nets[w].inputs) \cup Range(nets[w].outputs)
<1>1. nets[w].inputs \in Seq(Buffers(nets[w]))
  BY NetFacts, NetworkParts
<1>2. nets[w].outputs \in Seq(Buffers(nets[w]))
  BY NetFacts DEF WellFormed
<1> QED BY <1>1, <1>2, ConcatRange

(* Initialising a network points its inputs and outputs to their places. *)
LEMMA Initialises ==
    ASSUME Planned, PtrInv, NEW w \in Net, NEW redirect,
           InitNetwork(w, nets[w].inputs \o nets[w].outputs, redirect),
           \A t \in Range(nets[w].inputs) \cup Range(nets[w].outputs) : Target(w, redirect, t) = Spot(w, t)
    PROVE  /\ ptr' = [v \in Net |-> ptr'[v]]
           /\ \A v \in Net : ptr'[v] \in [Buffers(nets[v]) -> Cell \cup {Null}]
           /\ \A t \in Range(nets[w].inputs) \cup Range(nets[w].outputs) : ptr'[w][t] = Spot(w, t)
           /\ \A v \in Net : v # w => ptr'[v] = ptr[v]
           /\ heap' = heap /\ ip' = 1 /\ mem' = mem
<1> DEFINE B == Buffers(nets[w])
           G == Range(nets[w].inputs) \cup Range(nets[w].outputs)
           first == nets[w].inputs \o nets[w].outputs
           A == Cell \cup {Null} \cup {Target(w, redirect, t) : t \in B}
           new == [t \in B |-> IF t \in G THEN Target(w, redirect, t) ELSE ptr[w][t]]
<1>1. Static /\ strategy = "arena"
  BY DEF Planned, InArena
<1>2. first \in Seq(B) /\ Range(first) = G
  BY <1>1, InitListFacts
<1>3. ptr[w] \in [B -> Cell \cup {Null}]
  BY DEF PtrInv
<1>4. ptr[w] \in [B -> A] /\ \A t \in B : Target(w, redirect, t) \in A
  <2> HIDE DEF B
  <2> QED BY <1>3
<1>5. TargetsGiven(w, first, redirect, B)
  <2> InitNetwork(w, first, redirect)
    OBVIOUS
  <2> B = Buffers(nets[w])
    OBVIOUS
  <2> HIDE DEF B, A, first
  <2> QED BY <1>1, <1>2, <1>4, InitNetworkFacts
<1>6. ptr' = [ptr EXCEPT ![w] = new] /\ heap' = heap /\ ip' = 1 /\ mem' = mem
  BY <1>2, <1>5 DEF TargetsGiven
<1>7. G \subseteq Touched(nets[w]) /\ Touched(nets[w]) \subseteq B
  BY <1>1, TouchedTensors
<1>8. \A t \in G : Spot(w, t) \in Cell
  BY <1>7, SpotIs
<1>9. new \in [B -> Cell \cup {Null}] /\ \A t \in G : new[t] = Spot(w, t)
  <2> HIDE DEF B, G
  <2>1. \A t \in B : t \in G => Target(w, redirect, t) \in Cell
    BY <1>8 DEF G
  <2>2. \A t \in B : ptr[w][t] \in Cell \cup {Null}
    BY <1>3
  <2>3. \A t \in G : t \in B
    BY <1>7 DEF B
  <2> QED BY <2>1, <2>2, <2>3 DEF G
<1> HIDE DEF new
<1>10. ptr' = [v \in Net |-> IF v = w THEN new ELSE ptr[v]]
  BY <1>6 DEF PtrInv
<1>11. \A v \in Net : ptr'[v] = IF v = w THEN new ELSE ptr[v]
  BY <1>10
<1>12. \A v \in Net : ptr'[v] \in [Buffers(nets[v]) -> Cell \cup {Null}]
  <2> SUFFICES ASSUME NEW v \in Net PROVE ptr'[v] \in [Buffers(nets[v]) -> Cell \cup {Null}]
    OBVIOUS
  <2>1. CASE v = w
    BY <1>9, <1>11, <2>1
  <2>2. CASE v # w
    BY <1>11, <2>2 DEF PtrInv
  <2> QED BY <2>1, <2>2
<1> QED BY <1>6, <1>9, <1>10, <1>11, <1>12

LEMMA InitNetStep ==
    ASSUME Stay, Planned, HarnessInv, InitNet
    PROVE  HarnessInv'
<1>1. /\ phase = "initNet" /\ phase' = (IF Training THEN "zeroGrads" ELSE "loadData") /\ Fix
      /\ mb' = mb /\ losses' = losses
      /\ InitNetwork("net", nets["net"].inputs \o nets["net"].outputs, <<>>)
  BY StayFix DEF InitNet
<1>2. Training' <=> Training
  BY <1>1, Fixed
<1>3. \A t : Target("net", <<>>, t) = Spot("net", t)
  BY WordsAre DEF Target
<1>4. /\ ptr' = [v \in Net |-> ptr'[v]]
      /\ \A v \in Net : ptr'[v] \in [Buffers(nets[v]) -> Cell \cup {Null}]
      /\ \A t \in Range(nets["net"].inputs) \cup Range(nets["net"].outputs) : ptr'["net"][t] = Spot("net", t)
      /\ heap' = heap /\ ip' = 1 /\ mem' = mem
  <2>1. "net" \in Net /\ PtrInv
    BY DEF Net, HarnessInv
  <2> QED BY <1>1, <1>3, <2>1, Initialises
<1>5. PhaseInv'
  BY <1>1, <1>4, PhaseStep DEF HarnessInv, Phases, TrainingPhases, Early
<1>6. BatchInv'
  <2>1. mb = 0 /\ losses = <<>> /\ UpdateStep < Updates /\ UpdateStep' = UpdateStep
    BY <1>1 DEF HarnessInv, BatchInv, Early, UpdateStep
  <2>2. losses \in Seq([of : {"loss"}, from : SUBSET Nat]) /\ Len(losses) = mb
    BY <2>1 DEF HarnessInv, BatchInv
  <2> QED BY <1>1, <1>2, <2>1, <2>2 DEF BatchInv, Early
<1>7. PtrInv'
  <2>1. \A w \in Net : Initialised(w)' => w = "net"
    BY <1>1, <1>2 DEF Initialised, Early
  <2>2. \A t \in Range(nets'["net"].inputs) \cup Range(nets'["net"].outputs) : Pointed("net", t)'
    BY <1>1, <1>4, Fixed DEF Pointed, Fix
  <2>3. phase' # "runNet"
    BY <1>1
  <2>4. \A v \in Net : ptr'[v] \in [Buffers(nets'[v]) -> Cell \cup {Null}]
    BY <1>1, <1>4 DEF Fix
  <2> QED BY <1>4, <2>1, <2>2, <2>3, <2>4 DEF PtrInv
<1>8. MemInv'
  <2>1. Training \/ phase' = "loadData"
    BY <1>1
  <2>2. Training => phase' = "zeroGrads"
    BY <1>1
  <2> QED BY <1>2, <2>1, <2>2 DEF MemInv
<1> QED BY <1>5, <1>6, <1>7, <1>8 DEF HarnessInv

LEMMA InitOptStep ==
    ASSUME Stay, Planned, HarnessInv, InitOpt
    PROVE  HarnessInv'
<1> DEFINE N == nets["net"]
           O == nets["opt"]
<1>1. /\ phase = "initOpt" /\ phase' = "initWeights" /\ Fix
      /\ mb' = mb /\ losses' = losses
      /\ InitNetwork("opt", O.inputs \o nets["opt"].outputs, Redirected)
  BY StayFix DEF InitOpt
<1>2. Training /\ (Training' <=> Training)
  BY <1>1, Fixed DEF HarnessInv, PhaseInv, TrainingPhases
<1>3. \A t \in Range(N.inputs) \cup Range(N.outputs) : ptr["net"][t] = Spot("net", t)
  BY <1>1 DEF HarnessInv, PtrInv, Initialised, Early, Pointed, Net
<1>4. ASSUME NEW t \in Range(O.inputs) \cup Range(O.outputs)
      PROVE  Target("opt", Redirected, t) = Spot("opt", t)
  <2>1. t \in DOMAIN Redirected <=> SharedBuffer(t)
    BY DEF Redirected, SharedBuffer
  <2>2. CASE SharedBuffer(t)
    <3>1. SourceOf(N, O.name[t]) \in Range(N.inputs)
      <4>1. t \in Touched(O)
        BY TouchedTensors DEF Planned, Net
      <4> QED BY <1>2, <2>2, <4>1, SharedWithin
    <3>2. Redirected[t] = ptr["net"][SourceOf(N, O.name[t])]
      BY <2>2 DEF Redirected, SharedBuffer, SourceOf
    <3>3. Redirected[t] = ArenaAddress("net", SourceOf(N, O.name[t]))
      BY <1>3, <3>1, <3>2, WordsAre
    <3> QED BY <2>1, <2>2, <3>3 DEF Target, Spot
  <2>3. CASE ~ SharedBuffer(t)
    BY <2>1, <2>3 DEF Target, Spot
  <2> QED BY <2>2, <2>3
<1>5. /\ ptr' = [v \in Net |-> ptr'[v]]
      /\ \A v \in Net : ptr'[v] \in [Buffers(nets[v]) -> Cell \cup {Null}]
      /\ \A t \in Range(O.inputs) \cup Range(O.outputs) : ptr'["opt"][t] = Spot("opt", t)
      /\ ptr'["net"] = ptr["net"]
      /\ heap' = heap /\ ip' = 1 /\ mem' = mem
  <2>1. "opt" \in Net /\ "net" \in Net /\ PtrInv
    BY DEF Net, HarnessInv
  <2> QED BY <1>1, <1>4, <2>1, Initialises
<1>6. PhaseInv'
  BY <1>1, <1>2, <1>5, PhaseStep DEF HarnessInv, Phases, TrainingPhases, Early
<1>7. BatchInv'
  BY <1>1, <1>2 DEF HarnessInv, BatchInv, UpdateStep, Early
<1>8. PtrInv'
  <2>1. \A t \in Range(nets'["net"].inputs) \cup Range(nets'["net"].outputs) : Pointed("net", t)'
    BY <1>1, <1>3, <1>5, Fixed DEF Pointed, Fix
  <2>2. \A t \in Range(nets'["opt"].inputs) \cup Range(nets'["opt"].outputs) : Pointed("opt", t)'
    BY <1>1, <1>5, Fixed DEF Pointed, Fix
  <2>3. phase' # "runNet"
    BY <1>1
  <2>4. \A v \in Net : ptr'[v] \in [Buffers(nets'[v]) -> Cell \cup {Null}]
    BY <1>1, <1>5 DEF Fix
  <2> QED BY <1>5, <2>1, <2>2, <2>3, <2>4 DEF PtrInv, Net
<1>9. MemInv'
  BY <1>1 DEF MemInv
<1> QED BY <1>6, <1>7, <1>8, <1>9 DEF HarnessInv

-----------------------------------------------------------------------------
(* What the harness writes. *)

(* A cell belongs to one input. *)
LEMMA InputAt ==
    ASSUME Planned, NEW t \in Range(nets["net"].inputs), NEW c \in Words("net", t)
    PROVE  \A u \in Range(nets["net"].inputs) : c \in Words("net", u) => u = t
<1> SUFFICES ASSUME NEW u \in Range(nets["net"].inputs), c \in Words("net", u), u # t PROVE FALSE
  OBVIOUS
<1>1. Home("net", t) \cap Home("net", u) = {}
  BY InputsApart DEF Net
<1> QED BY <1>1, WordsAre

LEMMA NetPointed ==
    ASSUME Planned, PtrInv, NEW w \in Net, Initialised(w),
                            NEW t \in Range(nets[w].inputs) \cup Range(nets[w].outputs)
    PROVE  /\ Pointed(w, t) /\ t \in Touched(nets[w]) /\ Cells(w, t) = Words(w, t)
           /\ Words(w, t) \subseteq Cell
           /\ \A v : Holds(w, t, v) <=> Stored(mem, w, t, v)
<1>1. Pointed(w, t)
  BY DEF PtrInv
<1>2. t \in Touched(nets[w])
  BY TouchedTensors DEF Planned
<1> QED BY <1>1, <1>2, CellsAre, SpotIs

(* The weights after their initialisation. *)
LEMMA WeightsSet ==
    ASSUME Planned, Training, PtrInv, Initialised("net"), mb = 0, InitWeights
    PROVE  InputContent(mem', {"weight"})
<1> DEFINE N == nets["net"]
           weights == {t \in Range(N.inputs) : N.role[t] = "weight"}
<1>0. Static /\ "net" \in Net
  BY DEF Planned, Net
<1>1. \A t \in weights : \E wi \in 1..NumWeights : t = TrainWeight(wi)
  BY <1>0, TrainingInputs
<1>2. \A t \in Range(N.inputs) : Cells("net", t) = Words("net", t) /\ Words("net", t) \subseteq Cell
  BY <1>0, NetPointed
<1>3. ASSUME NEW t \in weights, NEW c \in Words("net", t) PROVE mem'[c] = Value(N.name[t], {})
  <2>1. c \in Cell /\ \E wi \in 1..NumWeights : c \in Cells("net", TrainWeight(wi))
    BY <1>1, <1>2, <1>3
  <2>2. mem'[c] = Value(N.name[CHOOSE u \in Range(N.inputs) :
                                   N.role[u] = "weight" /\ c \in Cells("net", u)], {})
    BY <2>1 DEF InitWeights
  <2>3. \A u \in Range(N.inputs) : c \in Cells("net", u) => u = t
    BY <1>2, <1>3, InputAt
  <2>4. t \in Range(N.inputs) /\ N.role[t] = "weight" /\ c \in Cells("net", t)
    BY <1>2, <1>3
  <2>5. (CHOOSE u \in Range(N.inputs) : N.role[u] = "weight" /\ c \in Cells("net", u)) = t
    BY <2>3, <2>4
  <2> QED BY <2>2, <2>5
<1>4. \A t \in weights : Wanted("net", t) = Value(N.name[t], {})
  <2>1. 0..(Accum * UpdateStep - 1) = {}
    <3>1. Accum * UpdateStep = 0
      BY BatchFacts
    <3> QED BY <3>1
  <2> QED BY <2>1 DEF Wanted
<1> QED BY <1>3, <1>4 DEF InputContent, Stored

LEMMA InitWeightsStep ==
    ASSUME Stay, Planned, HarnessInv, InitWeights
    PROVE  HarnessInv'
<1>1. /\ phase = "initWeights" /\ phase' = "loadData" /\ Fix
      /\ UNCHANGED <<ptr, heap, ip, mb, losses>>
  BY StayFix DEF InitWeights
<1>2. Training /\ (Training' <=> Training)
  BY <1>1, Fixed DEF HarnessInv, PhaseInv, TrainingPhases
<1>3. PhaseInv'
  BY <1>1, <1>2, PhaseStep DEF HarnessInv, PhaseInv, Phases, TrainingPhases
<1>4. mb = 0 /\ losses = <<>> /\ UpdateStep < Updates /\ UpdateStep' = UpdateStep /\ AccumStep' = AccumStep
  BY <1>1 DEF HarnessInv, BatchInv, Early, UpdateStep, AccumStep
<1>5. BatchInv'
  <2>1. losses \in Seq([of : {"loss"}, from : SUBSET Nat]) /\ Len(losses) = mb
    BY <1>4 DEF HarnessInv, BatchInv
  <2> QED BY <1>1, <1>2, <1>4, <2>1 DEF BatchInv, Early
<1>6. PtrInv'
  BY <1>1, <1>2, PtrKept DEF HarnessInv, Initialised, Early
<1>7. MemInv'
  <2>1. InputContent(mem', {"weight"})
    BY <1>1, <1>2, <1>4, WeightsSet DEF HarnessInv, Initialised, Early
  <2>2. AccumStep = 0
    BY <1>4, BatchFacts
  <2> QED BY <1>1, <1>2, <1>4, <2>1, <2>2, FixedBatch DEF MemInv
<1> QED BY <1>3, <1>5, <1>6, <1>7 DEF HarnessInv

(* The memory when the network starts. *)
LEMMA DataLoaded ==
    ASSUME Planned, PtrInv, Initialised("net"), mb \in Nat, LoadData,
           Training => InputContent(mem, {"weight"}),
           Training /\ AccumStep # 0 => GradContent(mem, (Accum * UpdateStep)..(mb - 1))
    PROVE  RunContent(mem', {})
<1> DEFINE N == nets["net"]
           loaded(t) == IF N.role[t] = "reset" THEN Value(N.name[t], ResetFlag)
                        ELSE Value(N.name[t], {mb % DataSize})
           changed == {t \in Range(N.inputs) : N.role[t] \in {"data", "reset"}}
<1>0. Static /\ "net" \in Net
  BY DEF Planned, Net
<1>1. \A t \in Range(N.inputs) : Cells("net", t) = Words("net", t) /\ Words("net", t) \subseteq Cell
  BY <1>0, NetPointed
<1>2. mem' = [c \in Cell |-> IF \E t \in changed : c \in Cells("net", t)
                             THEN loaded(CHOOSE t \in changed : c \in Cells("net", t)) ELSE mem[c]]
  BY DEF LoadData
<1>3. ASSUME NEW t \in changed PROVE Stored(mem', "net", t, loaded(t))
  <2> SUFFICES ASSUME NEW c \in Words("net", t) PROVE mem'[c] = loaded(t)
    BY DEF Stored
  <2>1. c \in Cell /\ c \in Cells("net", t) /\ \A u \in changed : c \in Cells("net", u) => u = t
    BY <1>1, InputAt
  <2> HIDE DEF loaded, changed
  <2>2. (CHOOSE u \in changed : c \in Cells("net", u)) = t
    BY <1>3, <2>1
  <2>3. mem'[c] = loaded(CHOOSE u \in changed : c \in Cells("net", u))
    BY <1>2, <1>3, <2>1
  <2> QED BY <2>2, <2>3
<1>4. ASSUME NEW t \in Range(N.inputs), t \notin changed, NEW v, Stored(mem, "net", t, v)
      PROVE  Stored(mem', "net", t, v)
  <2> SUFFICES ASSUME NEW c \in Words("net", t) PROVE mem'[c] = mem[c]
    BY <1>4 DEF Stored
  <2>1. c \in Cell /\ \A u \in Range(N.inputs) : c \in Cells("net", u) => u = t
    BY <1>1, InputAt
  <2>2. ~ \E u \in changed : c \in Cells("net", u)
    BY <1>4, <2>1
  <2> HIDE DEF loaded, changed
  <2> QED BY <1>2, <2>1, <2>2
<1>5. ASSUME NEW t \in changed PROVE loaded(t) = Wanted("net", t)
  <2>1. CASE N.role[t] = "data"
    BY <2>1 DEF Wanted
  <2>2. CASE N.role[t] = "reset"
    <3>1. ResetFlag = IF mb = Accum * UpdateStep THEN {1} ELSE {}
      BY BatchFacts DEF ResetFlag
    <3> QED BY <2>2, <3>1 DEF Wanted
  <2> QED BY <2>1, <2>2
<1>6. \A t \in Range(N.inputs) \ changed : Training /\ N.role[t] \in {"weight", "grad"}
  <2>1. CASE Training
    BY <1>0, <2>1, TrainingInputs
  <2>2. CASE ~ Training
    <3>1. \A t \in Range(N.inputs) : N.role[t] = "data"
      BY <1>0, <2>2, DeploymentsAssumption DEF Static, Training, Deployable, Inference
    <3> QED BY <3>1
  <2> QED BY <2>1, <2>2
<1>7. \A t \in Range(N.inputs) : N.role[t] = "grad" => Awaiting({}, t)
  <2>1. WellFormed(N)
    BY <1>0, NetFacts
  <2> QED BY <2>1 DEF WellFormed, Awaiting
<1>8. \A t : Due({}, t) => t \in Range(N.inputs)
  BY DEF Due
<1>9. ASSUME NEW t \in Range(N.inputs), ~ (Awaiting({}, t) /\ AccumStep = 0)
      PROVE  Stored(mem', "net", t, Content({}, t))
  <2>1. CASE t \in changed
    <3>1. ~ Awaiting({}, t)
      BY <2>1 DEF Awaiting
    <3> HIDE DEF loaded, changed
    <3> QED BY <1>3, <1>5, <2>1, <3>1 DEF Content
  <2>2. CASE t \notin changed /\ N.role[t] = "weight"
    <3>1. ~ Awaiting({}, t) /\ Stored(mem, "net", t, Wanted("net", t))
      BY <1>6, <2>2 DEF Awaiting, InputContent
    <3> QED BY <1>4, <2>2, <3>1 DEF Content
  <2>3. CASE t \notin changed /\ N.role[t] = "grad"
    <3>1. Awaiting({}, t) /\ AccumStep # 0 /\ Training
      BY <1>6, <1>7, <1>9, <2>3
    <3>2. Content({}, t) = Value(N.name[t], (Accum * UpdateStep)..(mb - 1))
      BY <2>3, <3>1 DEF Content, Before
    <3>3. Stored(mem, "net", t, Content({}, t))
      BY <2>3, <3>1, <3>2 DEF GradContent
    <3> QED BY <1>4, <2>3, <3>3
  <2> QED BY <1>6, <2>1, <2>2, <2>3
<1> QED BY <1>8, <1>9 DEF RunContent

LEMMA LoadDataStep ==
    ASSUME Stay, Planned, HarnessInv, LoadData
    PROVE  HarnessInv'
<1>1. /\ phase = "loadData" /\ phase' = "runNet" /\ ip' = 1 /\ Fix
      /\ UNCHANGED <<ptr, heap, mb, losses>>
  BY StayFix DEF LoadData
<1>2. (Training' <=> Training) /\ UpdateStep' = UpdateStep
  BY <1>1, Fixed, FixedBatch
<1>3. PhaseInv'
  BY <1>1, PhaseStep DEF HarnessInv, Phases, TrainingPhases, Early
<1>4. BatchInv'
  <2>1. losses \in Seq([of : {"loss"}, from : SUBSET Nat]) /\ mb \in Nat
    BY DEF HarnessInv, BatchInv
  <2> QED BY <1>1, <1>2, <2>1 DEF HarnessInv, BatchInv, Early
<1>5. PtrInv'
  BY <1>1, <1>2, PtrKept DEF HarnessInv, Initialised, Early
<1>6. MemInv'
  <2>1. RunContent(mem', {})
    BY <1>1, DataLoaded DEF HarnessInv, BatchInv, MemInv, Initialised, Early
  <2>2. Ran("net")' = {}
    <3>1. "net" \in Net /\ RanBefore("net", 1) = {}
      BY DEF RanBefore, Net, Planned
    <3> QED BY <1>1, <3>1, Fixed DEF Ran
  <2>3. RunContent(mem, Ran("net"))'
    BY <1>1, <2>1, <2>2, FixedBatch
  <2> QED BY <1>1, <2>3 DEF MemInv
<1> QED BY <1>3, <1>4, <1>5, <1>6 DEF HarnessInv

-----------------------------------------------------------------------------
(* The run of the network. *)

(* Pointers move to the places of their tensors only. *)
LEMMA PtrMoved ==
    ASSUME Fix, Planned, PtrInv, phase = "runNet", phase' = phase, ip' = ip + 1, ip \in Nat \ {0},
           NEW t \in Touched(nets["net"]),
           ptr' = ptr \/ ptr' = [ptr EXCEPT !["net"][t] = Spot("net", t)],
           \A i \in RanBefore("net", ip + 1) \ RanBefore("net", ip) :
               ptr'["net"][nets["net"].nodes[i].out] = Spot("net", nets["net"].nodes[i].out),
           \A u : ip \in 1..Len(program["net"]) /\ program["net"][ip] = AllocOf(u) =>
               ptr'["net"][u] = Spot("net", u)
    PROVE  PtrInv'
<1> DEFINE N == nets["net"]
<1>0. Static /\ "net" \in Net /\ "opt" \in Net
  BY DEF Planned, Net
<1>1. t \in Buffers(N) /\ Spot("net", t) \in Cell
  BY <1>0, TouchedTensors, SpotIs
<1>2. /\ ptr' = [w \in Net |-> ptr'[w]]
      /\ \A w \in Net : ptr'[w] \in [Buffers(nets[w]) -> Cell \cup {Null}]
      /\ \A w \in Net : \A u : u \in Buffers(nets[w]) /\ Pointed(w, u) => ptr'[w][u] = Spot(w, u)
  <2>1. CASE ptr' = ptr
    BY <2>1 DEF PtrInv, Pointed
  <2>2. CASE ptr' = [ptr EXCEPT !["net"][t] = Spot("net", t)]
    <3> DEFINE new == [ptr["net"] EXCEPT ![t] = Spot("net", t)]
    <3>1. ptr["net"] \in [Buffers(N) -> Cell \cup {Null}]
      BY <1>0 DEF PtrInv
    <3>2. new \in [Buffers(N) -> Cell \cup {Null}]
      BY <1>1, <3>1
    <3>3. \A u \in Buffers(N) : new[u] = IF u = t THEN Spot("net", t) ELSE ptr["net"][u]
      BY <3>1
    <3>4. ptr' = [ptr EXCEPT !["net"] = new]
      BY <2>2
    <3> HIDE DEF new
    <3>5. ptr' = [w \in Net |-> IF w = "net" THEN new ELSE ptr[w]]
      BY <3>4 DEF PtrInv
    <3>6. \A w \in Net : ptr'[w] = IF w = "net" THEN new ELSE ptr[w]
      BY <3>5
    <3>7. \A w \in Net : ptr'[w] \in [Buffers(nets[w]) -> Cell \cup {Null}]
      <4> SUFFICES ASSUME NEW w \in Net PROVE ptr'[w] \in [Buffers(nets[w]) -> Cell \cup {Null}]
        OBVIOUS
      <4>1. CASE w = "net"
        BY <3>2, <3>6, <4>1
      <4>2. CASE w # "net"
        BY <3>6, <4>2 DEF PtrInv
      <4> QED BY <4>1, <4>2
    <3>8. ASSUME NEW w \in Net, NEW u \in Buffers(nets[w]), Pointed(w, u) PROVE ptr'[w][u] = Spot(w, u)
      <4>1. CASE w = "net"
        BY <3>3, <3>6, <3>8, <4>1 DEF Pointed
      <4>2. CASE w # "net"
        BY <3>6, <3>8, <4>2 DEF Pointed
      <4> QED BY <4>1, <4>2
    <3> QED BY <3>5, <3>6, <3>7, <3>8
  <2> QED BY <2>1, <2>2
<1>3. \A w \in Net : Initialised(w)' =>
         \A u \in Range(nets'[w].inputs) \cup Range(nets'[w].outputs) : Pointed(w, u)'
  <2> SUFFICES ASSUME NEW w \in Net, Initialised(w)',
                      NEW u \in Range(nets[w].inputs) \cup Range(nets[w].outputs)
               PROVE  ptr'[w][u] = Spot(w, u)
    BY Fixed DEF Fix, Pointed
  <2>1. Initialised(w)
    BY Fixed DEF Initialised
  <2>2. Pointed(w, u) /\ u \in Buffers(nets[w])
    BY <1>0, <2>1, TouchedTensors DEF PtrInv
  <2> QED BY <1>2, <2>2
<1>4. (\A i \in Ran("net") : Pointed("net", nets["net"].nodes[i].out))'
  <2>1. Ran("net")' = RanBefore("net", ip + 1)
    BY Fixed DEF Ran
  <2> SUFFICES ASSUME NEW i \in RanBefore("net", ip + 1)
               PROVE  ptr'["net"][N.nodes[i].out] = Spot("net", N.nodes[i].out)
    <3>1. \A u : Pointed("net", u)' <=> ptr'["net"][u] = Spot("net", u)
      BY Fixed DEF Pointed
    <3>2. nets' = nets
      BY DEF Fix
    <3> QED BY <2>1, <3>1, <3>2
  <2>2. CASE i \in RanBefore("net", ip)
    <3>1. i \in Nodes(N) /\ Pointed("net", N.nodes[i].out)
      BY <2>2 DEF PtrInv, Ran, RanBefore
    <3>2. N.nodes[i].out \in Buffers(N)
      BY <1>0, <3>1, TouchedTensors
    <3> QED BY <1>0, <1>2, <3>1, <3>2
  <2> QED BY <2>2
<1>5. \A k \in 1..Len(program'["net"]) : \A u \in Buffers(nets'["net"]) :
         k < ip' /\ program'["net"][k] = AllocOf(u) => Pointed("net", u)'
  <2> SUFFICES ASSUME NEW k \in 1..Len(program["net"]), NEW u \in Buffers(N),
                      k < ip + 1, program["net"][k] = AllocOf(u)
               PROVE  ptr'["net"][u] = Spot("net", u)
    BY Fixed DEF Fix, Pointed
  <2>1. CASE k = ip
    BY <2>1
  <2>2. CASE k < ip
    <3>1. Pointed("net", u)
      BY <2>2 DEF PtrInv
    <3> QED BY <1>0, <1>2, <3>1
  <2> QED BY <2>1, <2>2
<1>6. /\ ptr' = [v \in Net |-> ptr'[v]]
      /\ \A v \in Net : ptr'[v] \in [Buffers(nets'[v]) -> Cell \cup {Null}]
  BY <1>2 DEF Fix
<1> QED BY <1>3, <1>4, <1>5, <1>6 DEF PtrInv

(* Nothing but blocks of the memory map is allocated. *)
LEMMA LocalsTouched ==
    ASSUME Static, strategy = "arena", NEW w \in Net
    PROVE  Locals(nets[w]) \subseteq {t \in Touched(nets[w]) : ~ IsGlobal(nets[w], t)}
<1>1. \A i \in Nodes(nets[w]) : nets[w].nodes[i].scratch = <<>>
  BY NetFacts DEF Static, Prepared
<1>2. \A i \in Nodes(nets[w]) : Range(nets[w].nodes[i].scratch) = {}
  BY <1>1 DEF Range
<1> QED BY <1>2 DEF Locals

(* What the program of the network does next. *)
LEMMA NetInstruction ==
    ASSUME Planned, GenInv, HarnessInv, phase = "runNet", ~ Finished("net")
    PROVE  LET N == nets["net"]
               now == Current("net")
           IN  /\ ip \in 1..Len(program["net"]) /\ now = program["net"][ip]
               /\ now.do \in {"alloc", "free", "run"}
               /\ now.do # "run" =>
                      /\ now.arg \in Touched(N) /\ RanBefore("net", ip + 1) = Ran("net")
               /\ now.do = "run" =>
                      /\ now.arg \in Nodes(N)
                      /\ Ran("net") = 1..(now.arg - 1) /\ RanBefore("net", ip + 1) = 1..now.arg
                      /\ \A t \in Range(N.nodes[now.arg].ins) : Pointed("net", t)
                      /\ N.nodes[now.arg].op # "reshape" => Pointed("net", N.nodes[now.arg].out)
<1> DEFINE N == nets["net"]
           now == Current("net")
           i == now.arg
<1>0. Static /\ strategy = "arena" /\ "net" \in Net /\ WellFormed(N)
  BY NetFacts DEF Planned, InArena, Net
<1>1. RunsInOrder(N, program["net"], Len(N.nodes))
  BY <1>0 DEF GenInv, HarnessInv, PhaseInv, AllGenerated
<1>2. ip \in Nat /\ ip > 0 /\ PtrInv
  BY DEF HarnessInv, PhaseInv
<1>3. ip \in 1..Len(program["net"]) /\ now = program["net"][ip] /\ ip <= Len(program["net"])
  <2>1. Len(program["net"]) \in Nat
    BY <1>1 DEF RunsInOrder
  <2> QED BY <1>2, <2>1 DEF Finished, Current
<1>4. /\ now \in Instr(N)
      /\ now.do # "run" => RanBefore("net", ip + 1) = Ran("net")
      /\ now.do = "run" =>
             /\ i \in Nodes(N) /\ now = RunOf(i)
             /\ Ran("net") = 1..(i - 1) /\ RanBefore("net", ip + 1) = 1..i
  BY <1>0, <1>1, <1>2, <1>3, RanFacts DEF Ran
<1>5. now.do # "run" => now.do \in {"alloc", "free"} /\ i \in Touched(N)
  <2>1. now.do # "run" => now.do \in {"alloc", "free"} /\ i \in Locals(N)
    BY <1>4 DEF Instr
  <2> QED BY <1>0, <2>1, LocalsTouched
<1>6. \A t \in Range(N.inputs) \cup Range(N.outputs) : Pointed("net", t)
  BY <1>0, <1>2 DEF PtrInv, Initialised, Early
<1>7. ASSUME now.do = "run", NEW t \in Range(N.nodes[i].ins) PROVE Pointed("net", t)
  <2>1. t \in Range(N.inputs) \/ \E j \in 1..(i - 1) : N.nodes[j].out = t
    BY <1>0, <1>4, <1>7, ReadWritten
  <2>2. \A j \in Ran("net") : Pointed("net", N.nodes[j].out)
    BY <1>2 DEF PtrInv
  <2> QED BY <1>4, <1>6, <1>7, <2>1, <2>2
<1>8. ASSUME now.do = "run", N.nodes[i].op # "reshape" PROVE Pointed("net", N.nodes[i].out)
  <2> DEFINE out == N.nodes[i].out
  <2>1. CASE IsGlobal(N, out)
    BY <1>6, <2>1 DEF IsGlobal, IsInput, IsOutput
  <2>2. CASE ~ IsGlobal(N, out)
    <3>1. i \in 1..Len(N.nodes) /\ out \in Buffers(N)
      BY <1>0, <1>4, <1>8, NetworkParts
    <3>2. PICK j \in 1..(ip - 1) : program["net"][j] = AllocOf(out)
      BY <1>1, <1>3, <1>4, <1>8, <2>2, <3>1 DEF RunsInOrder
    <3>3. j \in 1..Len(program["net"]) /\ j < ip
      BY <1>1, <1>3 DEF RunsInOrder
    <3>4. \A k \in 1..Len(program["net"]) : \A t \in Buffers(N) :
             k < ip /\ program["net"][k] = AllocOf(t) => Pointed("net", t)
      BY <1>2 DEF PtrInv
    <3>5. Pointed("net", out)
      <4> HIDE DEF out, N
      <4> QED BY <3>1, <3>2, <3>3, <3>4
    <3> QED BY <3>5
  <2> QED BY <2>1, <2>2
<1>9. now.do \in {"alloc", "free", "run"}
  BY <1>5
<1> QED BY <1>3, <1>4, <1>5, <1>7, <1>8, <1>9

(* Memory that is alike holds the same. *)
LEMMA ContentAlike ==
    ASSUME Planned, NEW ran \in SUBSET Nodes(nets["net"]), NEW m, \A c \in Cell : m[c] = mem[c],
           RunContent(mem, ran)
    PROVE  RunContent(m, ran)
<1>1. \A t : Due(ran, t) => t \in Touched(nets["net"])
  BY TouchedTensors DEF Due, Planned, Net
<1>2. \A t : Due(ran, t) => Words("net", t) \subseteq Cell
  BY <1>1, SpotIs DEF Net
<1> QED BY <1>2 DEF RunContent, Stored

LEMMA RunNetStep ==
    ASSUME Stay, Planned, GenInv, HarnessInv, RunNet
    PROVE  HarnessInv'
<1> DEFINE N == nets["net"]
           now == Current("net")
           i == now.arg
<1>0. Static /\ strategy = "arena" /\ "net" \in Net /\ Fix /\ heap = {} /\ ip \in Nat \ {0} /\ mb \in Nat
  BY StayFix DEF Planned, InArena, Net, HarnessInv, PhaseInv, BatchInv
<1>1. /\ phase = "runNet" /\ phase' = phase /\ mb' = mb /\ losses' = losses
      /\ ip' = ip + 1 /\ ~ Finished("net")
      /\ \/ now.do = "alloc" /\ AllocBuffer("net", i)
         \/ now.do = "run" /\ RunNode("net", N.nodes[i], Want("net"))
         \/ now.do = "free" /\ FreeBuffer("net", i)
  BY DEF RunNet, Execute, harnessVars
<1> DEFINE Moved(t) == ptr' = ptr \/ ptr' = [ptr EXCEPT !["net"][t] = Spot("net", t)]
<1>2. /\ ip \in 1..Len(program["net"]) /\ now = program["net"][ip]
      /\ now.do # "run" => i \in Touched(N) /\ RanBefore("net", ip + 1) = Ran("net")
      /\ now.do = "run" =>
             /\ i \in Nodes(N)
             /\ Ran("net") = 1..(i - 1) /\ RanBefore("net", ip + 1) = 1..i
             /\ \A t \in Range(N.nodes[i].ins) : Pointed("net", t)
             /\ N.nodes[i].op # "reshape" => Pointed("net", N.nodes[i].out)
  BY <1>1, NetInstruction
<1>3. RunContent(mem, Ran("net")) /\ Ran("net") \subseteq Nodes(N)
  BY <1>1 DEF HarnessInv, MemInv, Ran, RanBefore
<1>4. /\ heap' = heap /\ RunContent(mem', RanBefore("net", ip + 1))
      /\ \E t \in Touched(N) : Moved(t)
      /\ now.do = "run" => ptr'["net"][N.nodes[i].out] = Spot("net", N.nodes[i].out)
      /\ now.do = "alloc" => ptr'["net"][i] = Spot("net", i)
  <2> HIDE DEF now
  <2>0. "net" \in DOMAIN ptr /\ ptr["net"] \in [Buffers(N) -> Cell \cup {Null}]
    BY <1>0 DEF HarnessInv, PtrInv
  <2>1. CASE now.do = "alloc"
    <3>1. i \in Buffers(N)
      BY <1>0, <1>2, <2>1, TouchedTensors
    <3>2. ptr' = [ptr EXCEPT !["net"][i] = Spot("net", i)] /\ heap' = heap /\ mem' = mem
      BY <1>0, <1>1, <2>1, WordsAre DEF AllocBuffer
    <3>3. ptr'["net"][i] = Spot("net", i)
      BY <2>0, <3>1, <3>2
    <3> QED BY <1>2, <1>3, <2>1, <3>2, <3>3
  <2>2. CASE now.do = "free"
    <3>1. ptr' = ptr /\ heap' = {} /\ mem' = Write([area : {"heap"}, at : Taken({})], Void)
      <4>1. FreeBuffer("net", i)
        BY <1>1, <2>2
      <4>2. {b \in heap : strategy = "heap" /\ b.at = ptr["net"][i].at} = {}
        BY <1>0
      <4> QED BY <1>0, <4>1, <4>2 DEF FreeBuffer
    <3>2. \A c \in Cell : mem'[c] = mem[c]
      <4>1. [area : {"heap"}, at : Taken({})] = {}
        BY DEF Taken
      <4> QED BY <3>1, <4>1 DEF Write
    <3>3. RunContent(mem', Ran("net"))
      BY <1>3, <3>2, ContentAlike
    <3> QED BY <1>0, <1>2, <2>2, <3>1, <3>3
  <2>3. CASE now.do = "run"
    <3> DEFINE node == N.nodes[i]
    <3>0. i \in Nodes(N) /\ node.out \in Touched(N) /\ node.out \in Buffers(N) /\ RunContent(mem, 1..(i - 1))
      BY <1>0, <1>2, <1>3, <2>3, TouchedTensors
    <3>1. heap' = heap /\ node.op \in {"kernel", "reshape", "accumulate"}
      BY <1>0, <1>1, <2>3, <3>0, NetNodes DEF RunNode
    <3>2. CASE node.op = "kernel"
      <4>1. RunKernel("net", node, Want("net")) /\ ptr' = ptr
        BY <1>1, <2>3, <3>2 DEF RunNode, RunKernel
      <4>2. RunContent(mem', 1..i)
        BY <1>2, <2>3, <3>0, <3>2, <4>1, KernelRuns
      <4> QED BY <1>2, <2>3, <3>0, <3>1, <3>2, <4>1, <4>2 DEF Pointed
    <3>3. CASE node.op = "accumulate"
      <4>1. RunAccumulate("net", node, Want("net")) /\ ptr' = ptr
        BY <1>1, <2>3, <3>3 DEF RunNode, RunAccumulate
      <4>2. RunContent(mem', 1..i)
        BY <1>0, <1>2, <2>3, <3>0, <3>3, <4>1, AccumulateRuns
      <4> QED BY <1>2, <2>3, <3>0, <3>1, <3>3, <4>1, <4>2 DEF Pointed
    <3>4. CASE node.op = "reshape"
      <4>1. ptr' = [ptr EXCEPT !["net"][node.out] = ptr["net"][node.ins[1]]] /\ mem' = mem
        BY <1>1, <2>3, <3>4 DEF RunNode, RunReshape
      <4>2. /\ RunContent(mem, 1..i) /\ Pointed("net", node.ins[1])
            /\ Spot("net", node.out) = Spot("net", node.ins[1])
        BY <1>2, <2>3, <3>0, <3>4, ReshapeRuns
      <4>3. ptr' = [ptr EXCEPT !["net"][node.out] = Spot("net", node.out)]
        BY <4>1, <4>2 DEF Pointed
      <4>4. ptr'["net"][node.out] = Spot("net", node.out)
        BY <2>0, <3>0, <4>3
      <4> QED BY <1>2, <2>3, <3>0, <3>1, <4>1, <4>2, <4>3, <4>4
    <3> QED BY <3>1, <3>2, <3>3, <3>4
  <2> QED BY <1>1, <2>1, <2>2, <2>3
<1>5. PhaseInv'
  BY <1>0, <1>1, <1>4, PhaseStep DEF HarnessInv, Phases, TrainingPhases
<1>6. BatchInv'
  BY <1>0, <1>1, Fixed, FixedBatch DEF HarnessInv, BatchInv, Early
<1>7. PtrInv'
  <2>1. \A j \in RanBefore("net", ip + 1) \ RanBefore("net", ip) :
           ptr'["net"][N.nodes[j].out] = Spot("net", N.nodes[j].out)
    <3>1. now.do # "run" => RanBefore("net", ip + 1) \ RanBefore("net", ip) = {}
      BY <1>2 DEF Ran
    <3>2. now.do = "run" => \A j \in RanBefore("net", ip + 1) \ RanBefore("net", ip) : j = i
      <4> SUFFICES ASSUME now.do = "run", NEW j \in 1..i, j \notin 1..(i - 1) PROVE j = i
        BY <1>2 DEF Ran
      <4> i \in 1..Len(N.nodes) /\ Len(N.nodes) \in Nat
        BY <1>0, <1>2, NetFacts, NetworkParts
      <4> HIDE DEF i
      <4> QED OBVIOUS
    <3> HIDE DEF now
    <3> QED BY <1>4, <3>1, <3>2
  <2>2. \A u : program["net"][ip] = AllocOf(u) => ptr'["net"][u] = Spot("net", u)
    BY <1>2, <1>4 DEF AllocOf
  <2>3. PICK t \in Touched(N) : Moved(t)
    BY <1>4
  <2>4. PtrInv
    BY DEF HarnessInv
  <2> HIDE DEF now
  <2> QED BY <1>0, <1>1, <2>1, <2>2, <2>3, <2>4, PtrMoved
<1>8. MemInv'
  <2>1. Ran("net")' = RanBefore("net", ip + 1)
    BY <1>0, <1>1, Fixed DEF Ran
  <2>2. RunContent(mem, Ran("net"))'
    BY <1>0, <1>1, <1>4, <2>1, FixedBatch
  <2> QED BY <1>1, <2>2 DEF MemInv
<1> QED BY <1>5, <1>6, <1>7, <1>8 DEF HarnessInv

-----------------------------------------------------------------------------
(* When the network has run. *)
LEMMA AfterRun ==
    ASSUME Planned, GenInv, HarnessInv, phase = "runNet", Finished("net")
    PROVE  LET N == nets["net"]
           IN  /\ Training => InputContent(mem, {"weight", "grad"})
               /\ \A i \in Nodes(N) : N.nodes[i].out \in Range(N.outputs) /\ N.nodes[i].op # "accumulate" =>
                      Stored(mem, "net", N.nodes[i].out, Wanted("net", N.nodes[i].out))
<1> DEFINE N == nets["net"]
<1>0. Static /\ "net" \in Net /\ WellFormed(N)
  BY NetFacts DEF Planned, Net
<1>1. Ran("net") = Nodes(N)
  <2>1. RunsInOrder(N, program["net"], Len(N.nodes))
    BY <1>0 DEF GenInv, HarnessInv, PhaseInv, AllGenerated
  <2>2. ip \in Nat /\ ip > 0 /\ ip > Len(program["net"])
    BY DEF HarnessInv, PhaseInv, Finished
  <2> QED BY <1>0, <2>1, <2>2, RanFacts DEF Ran
<1>2. RunContent(mem, Nodes(N))
  BY <1>1 DEF HarnessInv, MemInv
<1>3. \A t : ~ Awaiting(Nodes(N), t)
  BY DEF Awaiting, Users
<1>4. \A t : Due(Nodes(N), t) => Stored(mem, "net", t, Wanted("net", t))
  BY <1>2, <1>3 DEF RunContent, Content
<1>5. Training => \A t \in Range(N.inputs) : Due(Nodes(N), t)
  BY DEF Due
<1>6. \A i \in Nodes(N) : N.nodes[i].out \in Range(N.outputs) /\ N.nodes[i].op # "accumulate" =>
         Due(Nodes(N), N.nodes[i].out)
  BY DEF Due, Needs
<1> QED BY <1>4, <1>5, <1>6 DEF InputContent

(* The output that is stored as loss. *)
LEMMA LossRead ==
    ASSUME Planned, GenInv, HarnessInv, phase = "runNet", Finished("net"), Training
    PROVE  Read(ptr["net"][nets["net"].outputs[1]]) = Value("loss", {mb})
<1> DEFINE N == nets["net"]
           loss == N.outputs[1]
<1>0. Static /\ "net" \in Net /\ WellFormed(N) /\ PtrInv
  BY NetFacts DEF Planned, Net, HarnessInv
<1>1. TrainingGraph(N)
  BY <1>0, InputLists
<1>2. loss \in Range(N.outputs) /\ N.name[loss] = "loss"
  <2>1. N.outputs \in Seq(Buffers(N)) /\ N.outputs # <<>> /\ N.name[loss] = "loss"
    BY <1>0, <1>1 DEF TrainingGraph, WellFormed
  <2> QED BY <2>1 DEF Range
<1>9. \A i \in Nodes(N) : N.nodes[i].out = loss => N.role[N.nodes[i].out] = "inner" /\ N.nodes[i].op # "accumulate"
  BY <1>1 DEF TrainingGraph
<1> HIDE DEF loss
<1>3. PICK i \in Nodes(N) : loss = N.nodes[i].out
  BY <1>0, <1>2, NetworkParts DEF WellFormed, Produced
<1>4. N.role[loss] = "inner" /\ N.nodes[i].op # "accumulate"
  BY <1>3, <1>9
<1>5. Stored(mem, "net", loss, Wanted("net", loss))
  BY <1>2, <1>3, <1>4, AfterRun
<1>6. Wanted("net", loss) = Value("loss", {mb})
  BY <1>2, <1>4 DEF Wanted
<1>7. Pointed("net", loss) /\ Spot("net", loss) \in Words("net", loss) /\ Spot("net", loss) \in Cell
  BY <1>0, <1>2, NetPointed, TouchedTensors, FirstWord DEF Initialised, Early
<1>8. Read(ptr["net"][loss]) = Value("loss", {mb})
  BY <1>5, <1>6, <1>7 DEF Pointed, Read, Stored
<1> QED BY <1>8 DEF loss

LEMMA LossStored ==
    ASSUME BatchInv, Len(losses) = mb, losses' = Append(losses, Value("loss", {mb}))
    PROVE  /\ losses' \in Seq([of : {"loss"}, from : SUBSET Nat]) /\ Len(losses') = mb + 1
           /\ \A k \in 1..Len(losses') : losses'[k] = Value("loss", {k - 1})
<1>1. /\ mb \in Nat /\ losses \in Seq([of : {"loss"}, from : SUBSET Nat])
      /\ \A k \in 1..mb : losses[k] = Value("loss", {k - 1})
  BY DEF BatchInv
<1>2. Value("loss", {mb}) \in [of : {"loss"}, from : SUBSET Nat]
  BY <1>1 DEF Value
<1> DEFINE v == Value("loss", {mb})
           X == [of : {"loss"}, from : SUBSET Nat]
<1>3. losses' = Append(losses, v) /\ v \in X /\ losses \in Seq(X)
  BY <1>1, <1>2
<1>4. v = Value("loss", {(mb + 1) - 1})
  BY <1>1
<1>5. /\ losses' \in Seq(X) /\ Len(losses') = mb + 1
      /\ losses'[mb + 1] = v /\ \A k \in 1..mb : losses'[k] = losses[k]
  <2> HIDE DEF v, X
  <2> QED BY <1>3
<1> HIDE DEF v
<1>6. \A k \in 1..(mb + 1) : k = mb + 1 \/ k \in 1..mb
  BY <1>1
<1> QED BY <1>1, <1>4, <1>5, <1>6

(* Within a group the weights stay and the accumulators take in one more. *)
LEMMA NextInGroup ==
    ASSUME Planned, mb \in Nat, AccumStep # Accum - 1, Fix, mb' = mb + 1
    PROVE  /\ UpdateStep' = UpdateStep
           /\ \A m : InputContent(m, {"weight", "grad"}) =>
                  /\ InputContent(m, {"weight"})'
                  /\ GradContent(m, (Accum * UpdateStep)..(mb - 1))'
<1>1. UpdateStep' = UpdateStep
  BY NextBatch, BoundsAssumption DEF UpdateStep, AccumStep
<1>2. \A t : nets["net"].role[t] = "weight" => Wanted("net", t)' = Wanted("net", t)
  BY <1>1 DEF Fix, Wanted
<1>3. \A t : nets["net"].role[t] = "grad" =>
         Wanted("net", t) = Value(nets["net"].name[t], (Accum * UpdateStep)..mb)
  BY DEF Wanted
<1>4. ((Accum * UpdateStep)..(mb - 1))' = (Accum * UpdateStep)..mb
  <2>1. (mb - 1)' = mb
    BY SMT
  <2> QED BY <1>1, <2>1
<1>5. ASSUME NEW m, InputContent(m, {"weight", "grad"}) PROVE InputContent(m, {"weight"})'
  <2>1. \A w, t, v : Stored(m, w, t, v)' <=> Stored(m, w, t, v)
    BY Fixed
  <2>2. \A t \in Range(nets["net"].inputs) : nets["net"].role[t] = "weight" =>
           Stored(m, "net", t, Wanted("net", t))
    BY <1>5 DEF InputContent
  <2> QED BY <1>2, <2>1, <2>2 DEF InputContent, Fix
<1>6. ASSUME NEW m, InputContent(m, {"weight", "grad"})
      PROVE  GradContent(m, (Accum * UpdateStep)..(mb - 1))'
  <2> DEFINE batches == (Accum * UpdateStep)..mb
  <2>1. GradContent(m, batches)
    <3>1. \A t \in Range(nets["net"].inputs) : nets["net"].role[t] = "grad" =>
             Stored(m, "net", t, Value(nets["net"].name[t], batches))
      BY <1>3, <1>6 DEF InputContent
    <3> QED BY <3>1 DEF GradContent
  <2>2. \A s : GradContent(m, s)' <=> GradContent(m, s)
    BY Fixed
  <2> HIDE DEF batches
  <2>3. \A s : s = batches => GradContent(m, s)'
    BY <2>1, <2>2
  <2> QED BY <1>4, <2>3 DEF batches
<1> QED BY <1>1, <1>5, <1>6

LEMMA StoreLossStep ==
    ASSUME Stay, Planned, GenInv, HarnessInv, StoreLoss
    PROVE  HarnessInv'
<1> DEFINE N == nets["net"]
<1>0. Static /\ "net" \in Net /\ Fix /\ ip \in Nat \ {0} /\ mb \in Nat /\ BatchInv
  BY StayFix DEF Planned, Net, HarnessInv, PhaseInv, BatchInv
<1>1. phase = "runNet" /\ Finished("net") /\ UNCHANGED <<mem, ptr, heap, ip>>
  BY DEF StoreLoss, runtimeVars
<1>2. Training' <=> Training
  BY <1>0, Fixed
<1>3. phase' \in {"copyIn", "loadData", "done"} /\ (phase' = "copyIn" => Training)
  BY <1>1 DEF StoreLoss
<1>4. PhaseInv'
  BY <1>0, <1>1, <1>3, PhaseStep DEF HarnessInv, Phases, TrainingPhases, Early
<1>5. PtrInv'
  BY <1>0, <1>1, <1>2, <1>3, PtrKept DEF HarnessInv, Initialised, Early
<1>6. CASE Training /\ AccumStep = Accum - 1
  <2>1. /\ phase' = "copyIn" /\ mb' = mb /\ losses' = Append(losses, Value("loss", {mb}))
        /\ Len(losses) = mb
    BY <1>0, <1>1, <1>6, LossRead DEF StoreLoss, BatchInv
  <2>2. UpdateStep' = UpdateStep /\ AccumStep' = AccumStep /\ UpdateStep < Updates
    BY <1>0, <1>1, <2>1, FixedBatch DEF BatchInv
  <2>3. BatchInv'
    <3>1. /\ losses' \in Seq([of : {"loss"}, from : SUBSET Nat]) /\ Len(losses') = mb + 1
          /\ \A k \in 1..Len(losses') : losses'[k] = Value("loss", {k - 1})
      BY <1>0, <2>1, LossStored
    <3> QED BY <1>0, <1>2, <1>6, <2>1, <2>2, <3>1 DEF BatchInv, Early
  <2>4. MemInv'
    <3>1. InputContent(mem, {"weight", "grad"})
      BY <1>1, <1>6, AfterRun
    <3>2. InputContent(mem, {"weight", "grad"})'
      BY <1>0, <1>1, <2>1, <3>1, FixedBatch
    <3> QED BY <2>1, <3>2 DEF MemInv
  <2> QED BY <1>4, <1>5, <2>3, <2>4 DEF HarnessInv
<1>7. CASE Training /\ AccumStep # Accum - 1
  <2>1. /\ phase' = "loadData" /\ mb' = mb + 1 /\ losses' = Append(losses, Value("loss", {mb}))
        /\ Len(losses) = mb
    BY <1>0, <1>1, <1>7, LossRead DEF StoreLoss, BatchInv
  <2>2. UpdateStep' = UpdateStep /\ UpdateStep < Updates
    BY <1>0, <1>1, <1>7, <2>1, NextInGroup DEF BatchInv
  <2>3. BatchInv'
    <3>1. /\ losses' \in Seq([of : {"loss"}, from : SUBSET Nat]) /\ Len(losses') = mb + 1
          /\ \A k \in 1..Len(losses') : losses'[k] = Value("loss", {k - 1})
      BY <1>0, <2>1, LossStored
    <3>2. mb' \in Nat /\ Len(losses') = mb' /\ Training'
      BY <1>0, <1>2, <1>7, <2>1, <3>1
    <3>3. phase' = "loadData" /\ UpdateStep' < Updates
      BY <2>1, <2>2
    <3> QED BY <3>1, <3>2, <3>3 DEF BatchInv, Early
  <2>4. MemInv'
    <3>1. InputContent(mem, {"weight", "grad"})
      BY <1>1, <1>7, AfterRun
    <3>2. /\ InputContent(mem, {"weight"})'
          /\ GradContent(mem, (Accum * UpdateStep)..(mb - 1))'
      <4>1. \A m : m = mem => /\ InputContent(m, {"weight"})'
                              /\ GradContent(m, (Accum * UpdateStep)..(mb - 1))'
        BY <1>0, <1>7, <2>1, <3>1, NextInGroup
      <4> QED BY <1>1, <4>1
    <3> QED BY <2>1, <3>2 DEF MemInv
  <2> QED BY <1>4, <1>5, <2>3, <2>4 DEF HarnessInv
<1>8. CASE ~ Training
  <2>1. phase' = "done" /\ mb' = mb /\ losses' = losses
    BY <1>8 DEF StoreLoss
  <2>2. BatchInv'
    BY <1>0, <1>2, <1>8, <2>1 DEF BatchInv, Early
  <2>3. \A t \in Range(N.outputs) : Stored(mem, "net", t, Wanted("net", t))
    <3>1. \A t \in Range(N.outputs) : \E i \in Nodes(N) : t = N.nodes[i].out
      <4>1. WellFormed(N) /\ Nodes(N) = 1..Len(N.nodes)
        BY <1>0, NetFacts, NetworkParts
      <4> QED BY <4>1 DEF WellFormed, Produced
    <3>2. \A i \in Nodes(N) : N.nodes[i].op # "accumulate"
      BY <1>0, <1>8, NetNodes
    <3> QED BY <1>1, <3>1, <3>2, AfterRun
  <2>4. MemInv'
    <3>1. (\A t \in Range(nets["net"].outputs) : Stored(mem, "net", t, Wanted("net", t)))'
      <4>1. \A t, v : Stored(mem, "net", t, v)' <=> Stored(mem, "net", t, v)
        BY <1>0, <1>1, Fixed
      <4>2. \A t : Wanted("net", t)' = Wanted("net", t)
        BY <1>0, <2>1, FixedBatch
      <4>3. nets' = nets
        BY <1>0 DEF Fix
      <4> QED BY <2>3, <4>1, <4>2, <4>3
    <3> QED BY <1>2, <1>8, <2>1, <3>1 DEF MemInv
  <2> QED BY <1>4, <1>5, <2>2, <2>4 DEF HarnessInv
<1> QED BY <1>6, <1>7, <1>8

-----------------------------------------------------------------------------
(* The optimiser. *)
LEMMA CopyInStep ==
    ASSUME Stay, Planned, HarnessInv, CopyIn
    PROVE  HarnessInv'
<1>0. Static /\ Fix /\ BatchInv /\ PtrInv
  BY StayFix DEF Planned, HarnessInv
<1>1. /\ phase = "copyIn" /\ phase' = "runOpt" /\ ip' = 1
      /\ UNCHANGED <<ptr, heap, mb, losses>>
  BY DEF CopyIn
<1>2. Training /\ (Training' <=> Training)
  BY <1>0, <1>1, Fixed DEF HarnessInv, PhaseInv, TrainingPhases
<1>3. PhaseInv'
  BY <1>1, <1>2, PhaseStep DEF HarnessInv, Phases, TrainingPhases, Early
<1>4. BatchInv'
  <2>1. AccumStep' = AccumStep /\ UpdateStep' = UpdateStep
    BY <1>0, <1>1, FixedBatch
  <2> QED BY <1>0, <1>1, <1>2, <2>1 DEF BatchInv, Early
<1>5. PtrInv'
  BY <1>0, <1>1, <1>2, PtrKept DEF Initialised, Early
<1>6. MemInv'
  <2>1. InputContent(mem, {"weight", "grad"})
    BY <1>1 DEF HarnessInv, MemInv
  <2>2. \A w \in Net : \A t \in Range(nets[w].inputs) : Pointed(w, t)
    BY <1>0, <1>1, <1>2 DEF PtrInv, Initialised, Early
  <2>3. UpdateContent(mem', {})
    BY <1>2, <2>1, <2>2, CopyInRuns DEF CopyIn
  <2>4. Ran("opt")' = {}
    <3>1. RanBefore("opt", 1) = {}
      BY DEF RanBefore
    <3> QED BY <1>0, <1>1, <3>1, Fixed DEF Ran
  <2>5. UpdateContent(mem, Ran("opt"))'
    BY <1>0, <1>1, <2>3, <2>4, FixedBatch
  <2> QED BY <1>1, <2>5 DEF MemInv
<1> QED BY <1>3, <1>4, <1>5, <1>6 DEF HarnessInv

(* The optimiser has inputs and outputs only, so that it runs nodes and    *)
(* nothing else.                                                           *)
LEMMA OptInstruction ==
    ASSUME Planned, GenInv, HarnessInv, phase = "runOpt"
    PROVE  LET O == nets["opt"]
               now == Current("opt")
           IN  /\ \A w \in Net : \A t \in Range(nets[w].inputs) \cup Range(nets[w].outputs) : Pointed(w, t)
               /\ ~ Finished("opt") =>
                      /\ now.do = "run" /\ now.arg \in Nodes(O)
                      /\ Ran("opt") = 1..(now.arg - 1) /\ RanBefore("opt", ip + 1) = 1..now.arg
               /\ Finished("opt") => Ran("opt") = Nodes(O)
<1> DEFINE O == nets["opt"]
           now == Current("opt")
<1>0. Static /\ strategy = "arena" /\ "opt" \in Net /\ WellFormed(O)
  BY NetFacts DEF Planned, InArena, Net
<1>1. Training
  BY DEF HarnessInv, PhaseInv, TrainingPhases
<1>2. \A w \in Net : \A t \in Range(nets[w].inputs) \cup Range(nets[w].outputs) : Pointed(w, t)
  BY <1>1 DEF HarnessInv, PtrInv, Initialised, Early
<1>3. RunsInOrder(O, program["opt"], Len(O.nodes)) /\ Len(program["opt"]) \in Nat
  <2>1. RunsInOrder(O, program["opt"], Len(O.nodes))
    BY <1>0 DEF GenInv, HarnessInv, PhaseInv, AllGenerated
  <2> QED BY <2>1 DEF RunsInOrder
<1>4. ip \in Nat /\ ip > 0
  BY DEF HarnessInv, PhaseInv
<1>5. Finished("opt") => Ran("opt") = Nodes(O)
  BY <1>0, <1>3, <1>4, RanFacts DEF Finished, Ran
<1>6. ASSUME ~ Finished("opt")
      PROVE  /\ now.do = "run" /\ now.arg \in Nodes(O)
             /\ Ran("opt") = 1..(now.arg - 1) /\ RanBefore("opt", ip + 1) = 1..now.arg
  <2>1. ip <= Len(program["opt"]) /\ now = program["opt"][ip]
    BY <1>3, <1>4, <1>6 DEF Finished, Current
  <2>2. /\ now \in Instr(O)
        /\ now.do = "run" =>
               /\ now.arg \in Nodes(O)
               /\ Ran("opt") = 1..(now.arg - 1) /\ RanBefore("opt", ip + 1) = 1..now.arg
    BY <1>0, <1>3, <1>4, <2>1, RanFacts DEF Ran
  <2>3. Locals(O) = {}
    <3> SUFFICES ASSUME NEW t \in Locals(O) PROVE FALSE
      OBVIOUS
    <3>1. t \in Touched(O) /\ ~ IsGlobal(O, t)
      BY <1>0, LocalsTouched
    <3>2. PICK wi \in Nodes(O) : t \in {OptWeight(wi), OptGrad(wi), OptUpdated(wi)}
      BY <1>0, <1>1, <3>1, TouchedTensors
    <3>3. t \in Range(O.inputs) \/ t \in Range(O.outputs)
      BY <1>0, <1>1, <3>2, OptimizerFacts
    <3> QED BY <3>1, <3>3 DEF IsGlobal, IsInput, IsOutput
  <2>4. now.do = "run"
    BY <2>2, <2>3 DEF Instr
  <2> QED BY <2>2, <2>4
<1> QED BY <1>2, <1>5, <1>6

LEMMA RunOptStep ==
    ASSUME Stay, Planned, GenInv, HarnessInv, RunOpt
    PROVE  HarnessInv'
<1> DEFINE O == nets["opt"]
           i == Current("opt").arg
<1>0. Static /\ Fix /\ BatchInv /\ PtrInv /\ mb \in Nat /\ ip \in Nat \ {0}
  BY StayFix DEF Planned, HarnessInv, BatchInv, PhaseInv
<1>1. /\ phase = "runOpt" /\ phase' = phase /\ mb' = mb /\ losses' = losses
      /\ ip' = ip + 1 /\ ~ Finished("opt")
      /\ \/ Current("opt").do = "alloc" /\ AllocBuffer("opt", i)
         \/ Current("opt").do = "run" /\ RunNode("opt", O.nodes[i], Want("opt"))
         \/ Current("opt").do = "free" /\ FreeBuffer("opt", i)
  BY DEF RunOpt, Execute, harnessVars
<1>2. Training /\ (Training' <=> Training)
  BY <1>0, <1>1, Fixed DEF HarnessInv, PhaseInv, TrainingPhases
<1>3. /\ Current("opt").do = "run" /\ i \in Nodes(O)
      /\ Ran("opt") = 1..(i - 1) /\ RanBefore("opt", ip + 1) = 1..i
      /\ \A t \in Range(O.inputs) \cup Range(O.outputs) : Pointed("opt", t)
  BY <1>1, OptInstruction DEF Net
<1>4. /\ O.nodes[i].op = "sgd" /\ OptWeight(i) \in Range(O.inputs)
      /\ OptGrad(i) \in Range(O.inputs) /\ OptUpdated(i) \in Range(O.outputs)
  BY <1>0, <1>2, <1>3, OptimizerFacts
<1>5. RunSGD("opt", O.nodes[i]) /\ heap' = heap /\ ptr' = ptr
  BY <1>1, <1>3, <1>4 DEF RunNode, RunSGD
<1>6. UpdateContent(mem', 1..i)
  <2>1. UpdateContent(mem, 1..(i - 1))
    BY <1>1, <1>3 DEF HarnessInv, MemInv
  <2>2. Pointed("opt", OptWeight(i)) /\ Pointed("opt", OptGrad(i)) /\ Pointed("opt", OptUpdated(i))
    BY <1>3, <1>4
  <2> HIDE DEF i
  <2> QED BY <1>0, <1>2, <1>3, <1>5, <2>1, <2>2, SGDRuns
<1>7. PhaseInv'
  BY <1>0, <1>1, <1>2, <1>5, PhaseStep DEF HarnessInv, Phases, TrainingPhases
<1>8. BatchInv'
  <2>1. AccumStep' = AccumStep /\ UpdateStep' = UpdateStep
    BY <1>0, <1>1, FixedBatch
  <2> QED BY <1>0, <1>1, <1>2, <2>1 DEF BatchInv, Early
<1>9. PtrInv'
  BY <1>0, <1>1, <1>2, <1>5, PtrKept DEF Initialised, Early
<1>10. MemInv'
  <2>1. Ran("opt")' = 1..i
    BY <1>0, <1>1, <1>3, Fixed DEF Ran
  <2>2. UpdateContent(mem, Ran("opt"))'
    <3>1. \A m, ran : UpdateContent(m, ran)' <=> UpdateContent(m, ran)
      BY <1>0, <1>1, FixedBatch
    <3> HIDE DEF i
    <3> QED BY <1>6, <2>1, <3>1
  <2> QED BY <1>1, <2>2 DEF MemInv
<1> QED BY <1>7, <1>8, <1>9, <1>10 DEF HarnessInv

(* The first mini-batch of the next group. *)
LEMMA NextGroup ==
    ASSUME mb \in Nat, AccumStep = Accum - 1, mb' = mb + 1
    PROVE  /\ UpdateStep' = UpdateStep + 1 /\ AccumStep' = 0 /\ UpdateStep \in Nat
           /\ Accum * (UpdateStep + 1) = mb + 1 /\ (Accum * UpdateStep)' = mb + 1
<1>1. /\ (mb + 1) \div Accum = (mb \div Accum) + 1 /\ (mb + 1) % Accum = 0
      /\ Accum * ((mb \div Accum) + 1) = mb + 1 /\ mb \div Accum \in Nat
  BY NextBatch, DivMod, BoundsAssumption DEF AccumStep
<1> QED BY <1>1 DEF UpdateStep, AccumStep

LEMMA CopyOutStep ==
    ASSUME Stay, Planned, GenInv, HarnessInv, CopyOut
    PROVE  HarnessInv'
<1> DEFINE N == nets["net"]
           O == nets["opt"]
<1>0. Static /\ Fix /\ BatchInv /\ PtrInv /\ mb \in Nat /\ ip \in Nat \ {0}
  BY StayFix DEF Planned, HarnessInv, BatchInv, PhaseInv
<1>1. /\ phase = "runOpt" /\ Finished("opt") /\ mb' = mb + 1
      /\ phase' = IF UpdateStep = Updates - 1 THEN "done" ELSE "loadData"
      /\ UNCHANGED <<ptr, heap, ip, losses>>
  BY DEF CopyOut
<1>2. Training /\ (Training' <=> Training)
  BY <1>0, <1>1, Fixed DEF HarnessInv, PhaseInv, TrainingPhases
<1>3. AccumStep = Accum - 1 /\ Len(losses) = mb + 1 /\ UpdateStep < Updates
  BY <1>0, <1>1 DEF BatchInv
<1>4. /\ UpdateStep' = UpdateStep + 1 /\ AccumStep' = 0 /\ UpdateStep \in Nat
      /\ Accum * (UpdateStep + 1) = mb + 1 /\ (Accum * UpdateStep)' = mb + 1
  BY <1>0, <1>1, <1>3, NextGroup
<1>5. PhaseInv'
  BY <1>0, <1>1, PhaseStep DEF HarnessInv, Phases, TrainingPhases, Early
<1>6. BatchInv'
  <2>1. phase' # "done" => UpdateStep' < Updates
    BY <1>1, <1>3, <1>4, BoundsAssumption
  <2>2. phase' = "done" => mb' = Accum * Updates
    <3>1. phase' = "done" => UpdateStep + 1 = Updates
      BY <1>1, <1>4, BoundsAssumption
    <3> QED BY <1>1, <1>4, <3>1
  <2>3. /\ mb' \in Nat /\ losses' \in Seq([of : {"loss"}, from : SUBSET Nat])
        /\ \A k \in 1..Len(losses') : losses'[k] = Value("loss", {k - 1})
        /\ Len(losses') = mb' /\ Training' /\ phase' \in {"loadData", "done"}
    BY <1>0, <1>1, <1>2, <1>3 DEF BatchInv
  <2> QED BY <2>1, <2>2, <2>3 DEF BatchInv, Early
<1>7. PtrInv'
  BY <1>0, <1>1, <1>2, PtrKept DEF Initialised, Early
<1>8. MemInv'
  <2>1. UpdateContent(mem, Nodes(O))
    BY <1>1, OptInstruction DEF HarnessInv, MemInv
  <2>2. \A w \in Net : \A t \in Range(nets[w].inputs) \cup Range(nets[w].outputs) : Pointed(w, t)
    BY <1>1, OptInstruction
  <2>3. \A t \in Range(N.inputs) : N.role[t] = "weight" =>
           Stored(mem', "net", t, Value(N.name[t], 0..mb))
    BY <1>2, <2>1, <2>2, CopyOutRuns DEF CopyOut
  <2>4. \A t : N.role[t] = "weight" => Wanted("net", t)' = Value(N.name[t], 0..mb)
    <3>1. (0..(Accum * UpdateStep - 1))' = 0..mb
      <4>1. (Accum * UpdateStep)' - 1 = mb
        BY <1>0, <1>4
      <4> QED BY <4>1
    <3> QED BY <1>0, <3>1 DEF Wanted, Fix
  <2>5. InputContent(mem, {"weight"})'
    <3>1. \A t, v : Stored(mem, "net", t, v)' <=> Stored(mem', "net", t, v)
      <4>1. \A m, t, v : Stored(m, "net", t, v)' <=> Stored(m, "net", t, v)
        BY <1>0, Fixed
      <4> QED BY <4>1
    <3>2. \A t \in Range(N.inputs) : N.role[t] = "weight" =>
             Stored(mem, "net", t, Wanted("net", t))'
      BY <2>3, <2>4, <3>1
    <3>3. nets' = nets
      BY <1>0 DEF Fix
    <3> QED BY <3>2, <3>3 DEF InputContent
  <2> QED BY <1>1, <1>2, <1>4, <2>5 DEF MemInv
<1> QED BY <1>5, <1>6, <1>7, <1>8 DEF HarnessInv

-----------------------------------------------------------------------------
(* Before the program runs. *)
LEMMA EarlyKept ==
    ASSUME BatchInv, PtrInv, nets' = nets, deployment' = deployment, runtimeVars' = runtimeVars,
           mb' = mb, losses' = losses, phase \in Early, phase' \in Early
    PROVE  BatchInv' /\ PtrInv' /\ MemInv'
<1>1. /\ ptr' = ptr /\ (Training' <=> Training) /\ UpdateStep' = UpdateStep
      /\ phase' \notin {"runNet", "loadData", "done", "copyIn", "runOpt"}
  BY DEF runtimeVars, Training, UpdateStep, Early
<1>2. BatchInv'
  <2>1. mb = 0 /\ losses = <<>> /\ UpdateStep < Updates
    BY DEF BatchInv, Early
  <2>2. mb \in Nat /\ losses \in Seq([of : {"loss"}, from : SUBSET Nat]) /\ Len(losses) = 0
    BY <2>1 DEF BatchInv
  <2> QED BY <1>1, <2>1, <2>2 DEF BatchInv
<1>3. PtrInv'
  <2>1. \A w \in Net : ~ Initialised(w)'
    BY <1>1 DEF Initialised, Early
  <2>2. /\ ptr' = [w \in Net |-> ptr'[w]]
        /\ \A w \in Net : ptr'[w] \in [Buffers(nets'[w]) -> Cell \cup {Null}]
    BY <1>1 DEF PtrInv
  <2> QED BY <1>1, <2>1, <2>2 DEF PtrInv
<1>4. MemInv'
  BY <1>1 DEF MemInv
<1> QED BY <1>2, <1>3, <1>4

LEMMA HarnessInit ==
    ASSUME Init
    PROVE  HarnessInv
<1>1. /\ phase = "generate" /\ mb = 0 /\ losses = <<>> /\ ip = 1 /\ heap = {}
      /\ ptr = [w \in Net |-> [t \in DOMAIN nets[w].size |-> Null]]
  BY DEF Init, RuntimeInit
<1>2. PhaseInv
  BY <1>1 DEF PhaseInv, Phases, Early, TrainingPhases
<1>3. BatchInv
  <2>1. UpdateStep < Updates
    <3>1. 0 \div Accum = 0
      BY BoundsAssumption
    <3> QED BY <1>1, <3>1, BoundsAssumption DEF UpdateStep
  <2>2. losses \in Seq([of : {"loss"}, from : SUBSET Nat]) /\ Len(losses) = 0
    BY <1>1
  <2> QED BY <1>1, <2>1, <2>2 DEF BatchInv
<1>4. PtrInv
  <2>1. \A w \in Net : ptr[w] \in [Buffers(nets[w]) -> Cell \cup {Null}]
    BY <1>1 DEF Buffers
  <2>2. \A w \in Net : ~ Initialised(w)
    BY <1>1 DEF Initialised, Early
  <2> QED BY <1>1, <2>1, <2>2 DEF PtrInv
<1>5. MemInv
  BY <1>1 DEF MemInv
<1> QED BY <1>2, <1>3, <1>4, <1>5 DEF HarnessInv

LEMMA GenerateStep ==
    ASSUME strategy = "arena", HarnessInv, Generate
    PROVE  HarnessInv'
<1>1. /\ phase = "generate" /\ phase' \in {"generate", "place"}
      /\ runtimeVars' = runtimeVars /\ deployment' = deployment /\ mb' = mb /\ losses' = losses
      /\ nets' = nets
  BY DEF Generate, GenerateNode
<1>2. BatchInv' /\ PtrInv' /\ MemInv'
  BY <1>1, EarlyKept DEF HarnessInv, Early
<1>3. phase' # "generate" => \A w \in Net : AllGenerated(w)'
  <2>1. phase' # "generate" => (\A w \in Net : AllGenerated(w)) /\ generationVars' = generationVars
    BY <1>1 DEF Generate
  <2> QED BY <1>1, <2>1 DEF AllGenerated, generationVars
<1>4. PhaseInv'
  BY <1>1, <1>3 DEF HarnessInv, PhaseInv, Phases, Early, TrainingPhases, runtimeVars
<1> QED BY <1>2, <1>4 DEF HarnessInv

LEMMA PlaceStep ==
    ASSUME HarnessInv, Place
    PROVE  HarnessInv'
<1>1. /\ phase = "place" /\ phase' \in {"place", "initNet"} /\ generationVars' = generationVars
      /\ runtimeVars' = runtimeVars /\ deployment' = deployment /\ mb' = mb /\ losses' = losses
      /\ nets' = nets
  BY DEF Place
<1>2. BatchInv' /\ PtrInv' /\ MemInv'
  BY <1>1, EarlyKept DEF HarnessInv, Early
<1>3. \A w \in Net : AllGenerated(w)'
  BY <1>1 DEF HarnessInv, PhaseInv, AllGenerated, generationVars
<1>4. phase' # "place" => AllPlaced'
  BY <1>1 DEF Place, AllPlaced, Block, placementVars
<1>5. PhaseInv'
  BY <1>1, <1>3, <1>4 DEF HarnessInv, PhaseInv, Phases, Early, TrainingPhases, runtimeVars
<1> QED BY <1>2, <1>5 DEF HarnessInv

(* A plan that fits has fitted before its last block. *)
LEMMA ArenaBefore ==
    ASSUME PlanInv, [Next]_vars, InArena'
    PROVE  InArena
<1>1. strategy = "arena"
  BY StepFrame DEF InArena
<1>2. CASE placementVars' = placementVars
  BY <1>1, <1>2 DEF InArena, placementVars
<1>3. CASE \E b \in Block : PlaceBlock(b)
  <2>1. PICK b \in Block : PlaceBlock(b)
    BY <1>3
  <2>2. PICK h : height' = [height EXCEPT ![b] = h]
    BY <2>1 DEF PlaceBlock
  <2>3. b \notin placed /\ placed' = placed \cup {b}
    BY <2>1 DEF PlaceBlock
  <2>4. placed \subseteq Block /\ height \in [Block -> Nat]
    BY DEF PlanInv, PlacementInv, PlacementTypeOK
  <2>5. \A c \in placed : height'[c] = height[c]
    BY <2>2, <2>3, <2>4
  <2> QED BY <1>1, <2>3, <2>5 DEF InArena
<1> QED BY <1>2, <1>3, StepFrame

LEMMA HarnessKept ==
    ASSUME PlanInv, GenInv, InArena, HarnessInv, [Next]_vars
    PROVE  HarnessInv'
<1>0. Static /\ strategy = "arena"
  BY DEF PlanInv, InArena
<1>1. CASE Generate
  BY <1>0, <1>1, GenerateStep
<1>2. CASE Place
  BY <1>2, PlaceStep
<1>3. CASE HarnessStep /\ UNCHANGED <<nets, generationVars, placementVars>>
  <2>1. Stay
    BY <1>3, HarnessFrame DEF Stay
  <2>2. phase \notin {"generate", "place"}
    BY <1>3 DEF HarnessStep, InitNet, ZeroGrads, InitOpt, InitWeights, LoadData, RunNet, StoreLoss,
                CopyIn, RunOpt, CopyOut
  <2>3. Planned
    BY <2>2 DEF PlanInv, Planned, HarnessInv, PhaseInv
  <2> QED BY <1>3, <2>1, <2>3, InitNetStep, ZeroGradsStep, InitOptStep, InitWeightsStep, LoadDataStep,
             RunNetStep, StoreLossStep, CopyInStep, RunOptStep, CopyOutStep DEF HarnessStep
<1>4. CASE UNCHANGED vars
  <2>1. /\ Fix /\ UNCHANGED <<ptr, mem, heap, ip, phase, mb, losses, block, placed, generated>>
    BY <1>4 DEF Fix, vars, placementVars, generationVars, runtimeVars, harnessVars
  <2>2. /\ (Training' <=> Training) /\ AccumStep' = AccumStep /\ UpdateStep' = UpdateStep
        /\ \A w \in Net : AllGenerated(w)' <=> AllGenerated(w)
        /\ AllPlaced' <=> AllPlaced
    BY <2>1, Fixed, FixedBatch DEF AllGenerated, AllPlaced, Block, Fix
  <2>3. PhaseInv'
    BY <2>1, <2>2 DEF HarnessInv, PhaseInv
  <2>4. BatchInv'
    BY <2>1, <2>2 DEF HarnessInv, BatchInv
  <2>5. PtrInv'
    BY <2>1 DEF HarnessInv, PtrInv, Fix, Initialised, Training, Ran, RanBefore, Pointed, Spot,
                SharedBuffer, ArenaAddress
  <2>6. MemInv'
    <3>1. Ran("net")' = Ran("net") /\ Ran("opt")' = Ran("opt")
      BY <2>1, Fixed DEF Ran
    <3>2. phase' = "runNet" => RunContent(mem, Ran("net"))'
      BY <2>1, <3>1, FixedBatch DEF HarnessInv, MemInv
    <3>3. Training' /\ phase' \in {"loadData", "done"} => InputContent(mem, {"weight"})'
      BY <2>1, <2>2, FixedBatch DEF HarnessInv, MemInv
    <3>4. Training' /\ phase' = "loadData" /\ AccumStep' # 0 =>
              GradContent(mem, (Accum * UpdateStep)..(mb - 1))'
      <4>1. \A s : GradContent(mem, s)' <=> GradContent(mem, s)
        BY <2>1, Fixed
      <4>2. ((Accum * UpdateStep)..(mb - 1))' = (Accum * UpdateStep)..(mb - 1)
        BY <2>1, <2>2
      <4> QED BY <2>1, <2>2, <4>1, <4>2 DEF HarnessInv, MemInv
    <3>5. phase' = "copyIn" => InputContent(mem, {"weight", "grad"})'
      BY <2>1, FixedBatch DEF HarnessInv, MemInv
    <3>6. phase' = "runOpt" => UpdateContent(mem, Ran("opt"))'
      BY <2>1, <3>1, FixedBatch DEF HarnessInv, MemInv
    <3>7. ~ Training' /\ phase' = "done" =>
              (\A t \in Range(nets["net"].outputs) : Stored(mem, "net", t, Wanted("net", t)))'
      BY <2>1, <2>2, Fixed, FixedBatch DEF HarnessInv, MemInv, Fix
    <3> QED BY <3>2, <3>3, <3>4, <3>5, <3>6, <3>7 DEF MemInv
  <2> QED BY <2>3, <2>4, <2>5, <2>6 DEF HarnessInv
<1> QED BY <1>1, <1>2, <1>3, <1>4 DEF Next, Done

Inv == PlanInv /\ GenInv /\ (InArena => HarnessInv)

LEMMA InvInit ==
    Init => Inv
BY PlanInit, GenInit, HarnessInit DEF Inv

LEMMA InvStep ==
    Inv /\ [Next]_vars => Inv'
<1> SUFFICES ASSUME Inv, [Next]_vars PROVE Inv'
  OBVIOUS
<1>1. PlanInv' /\ GenInv'
  BY PlanStep, GenStep DEF Inv, PlanInv
<1>2. InArena' => HarnessInv'
  BY ArenaBefore, HarnessKept DEF Inv
<1> QED BY <1>1, <1>2 DEF Inv

-----------------------------------------------------------------------------
(* What the invariant implies. *)

(* The blocks of a network are the tensors that its nodes touch. *)
LEMMA MapCorrect ==
    ASSUME PlanInv, NEW w \in {b[1] : b \in Block}
    PROVE  MemoryMapCorrect(nets[w], [t \in {b[2] : b \in {c \in Block : c[1] = w}} |->
                                          block[<<w, t>>]])
<1> DEFINE N == nets[w]
           held == {b[2] : b \in {c \in Block : c[1] = w}}
           life == LifetimesOf(deployment, w)
           map == [t \in held |-> block[<<w, t>>]]
<1>0. Static /\ deployment \in Deployments /\ N = deployment.nets[w] /\ block = BlockTable(deployment)
  BY DEF PlanInv, Static
<1>1. strategy = "arena" /\ deployment.strategy = "arena"
  <2>1. Block # {}
    OBVIOUS
  <2> QED BY <1>0, <2>1 DEF Block, BlockTable, Static
<1>2. w \in Net
  BY <1>0, <1>1, BlockTableFacts DEF Block
<1>3. \A t \in Touched(N) :
         /\ <<w, t>> \in Block
         /\ block[<<w, t>>].first = life[t].first /\ block[<<w, t>>].last = life[t].last
  BY <1>0, <1>1, <1>2, BlockTableFacts DEF Block
<1>4. \A t \in Touched(N) : t \in held
  <2> SUFFICES ASSUME NEW t \in Touched(N) PROVE t \in held
    OBVIOUS
  <2>1. <<w, t>> \in {c \in Block : c[1] = w} /\ <<w, t>>[2] = t
    BY <1>3
  <2> QED BY <2>1
<1>5. WellFormed(N) /\ Len(N.nodes) \in Nat
  BY <1>0, <1>2, NetFacts, NetworkParts
<1>6. PICK base \in {CalculateLifetimes(N), TrainingLifetimes(N)} :
         /\ life = DealiasLifetimes(N, base)
         /\ base = TrainingLifetimes(N) \/ DirectViews(N)
  BY <1>0, <1>2, Deployed
<1>7. \A t \in Touched(N) :
         /\ life[t].first \in Nat /\ life[t].last \in Nat
         /\ IsOutput(N, t) => life[t].last = Len(N.nodes)
         /\ IsInput(N, t) => life[t].first = 0
         /\ \A i \in Nodes(N) : t \in Touches(N.nodes[i]) => life[t].first <= i - 1 /\ i - 1 <= life[t].last
  <2>1. \A t \in Blocks(N) :
           /\ life[t] \in [first : 0..Len(N.nodes), last : 0..Len(N.nodes)]
           /\ IsOutput(N, t) => life[t].last = Len(N.nodes)
           /\ IsInput(N, t) => life[t].first = 0
           /\ \A i \in Nodes(N) : t \in Touches(N.nodes[i]) => life[t].first <= i - 1 /\ i - 1 <= life[t].last
    <3> HIDE DEF life
    <3> QED BY <1>5, <1>6, RootLifetimes
  <2>2. Touched(N) \subseteq Blocks(N)
    BY <1>5, TouchedFacts
  <2> HIDE DEF life
  <2> QED BY <1>5, <2>1, <2>2
<1>8. /\ Range(N.inputs) \cup Range(N.outputs) \subseteq Touched(N)
      /\ \A i \in Nodes(N) : Touches(N.nodes[i]) \subseteq Touched(N)
  BY <1>0, <1>2, TouchedTensors DEF Touched
<1>9. \A t \in Touched(N) : map[t].first = life[t].first /\ map[t].last = life[t].last
  <2> HIDE DEF life
  <2> QED BY <1>3, <1>4
<1> HIDE DEF map, life
<1>10. \A t \in Range(N.outputs) : map[t].last = Len(N.nodes)
  BY <1>7, <1>8, <1>9 DEF IsOutput
<1>11. \A t \in Range(N.inputs) : map[t].first = 0
  BY <1>7, <1>8, <1>9 DEF IsInput
<1>12. \A i \in Nodes(N) : \A t \in Touches(N.nodes[i]) : i - 1 \in map[t].first..map[t].last
  <2> SUFFICES ASSUME NEW i \in Nodes(N), NEW t \in Touches(N.nodes[i])
               PROVE  i - 1 \in map[t].first..map[t].last
    OBVIOUS
  <2>1. i \in Nat
    BY <1>5, NetworkParts
  <2>2. t \in Touched(N)
    BY <1>8
  <2> QED BY <1>7, <1>9, <2>1, <2>2
<1>13. MemoryMapCorrect(N, map)
  BY <1>10, <1>11, <1>12 DEF MemoryMapCorrect
<1> QED BY <1>13 DEF map

LEMMA Typed ==
    ASSUME Inv, InArena
    PROVE  TypeOK
<1>0. PlanInv /\ GenInv /\ HarnessInv /\ Static
  BY DEF Inv, PlanInv
<1>1. \A w \in {b[1] : b \in Block} :
         MemoryMapCorrect(nets[w], [t \in {b[2] : b \in {c \in Block : c[1] = w}} |-> block[<<w, t>>]])
  BY <1>0, MapCorrect
<1>2. \A b \in placed : height[b] <= Top
  BY DEF InArena
<1>3. \A b \in placed : Located(b) => addrSpace[b].lo < addrSpace[b].hi
  <2> SUFFICES ASSUME NEW b \in placed, Located(b) PROVE addrSpace[b].lo < addrSpace[b].hi
    OBVIOUS
  <2>1. b \in Block /\ addrSpace[b].lo \in Nat /\ addrSpace[b].hi \in Nat
        /\ addrSpace[b].hi - addrSpace[b].lo >= block[b].cost
    BY <1>0 DEF PlanInv, PlacementInv, PlacementTypeOK, LargeEnough
  <2>2. deployment \in Deployments /\ deployment.strategy = "arena" /\ block = BlockTable(deployment)
        /\ nets = deployment.nets
    BY <1>0 DEF Static, InArena
  <2>3. b = <<b[1], b[2]>> /\ b[1] \in Net /\ b[2] \in Touched(nets[b[1]])
    BY <2>1, <2>2, BlockTableFacts DEF Block
  <2>4. block[<<b[1], b[2]>>].cost = nets[b[1]].size[b[2]]
    <3>1. ~ block[<<b[1], b[2]>>].resolved
      BY <2>3 DEF Located
    <3> QED BY <2>2, <2>3, <3>1, BlockTableFacts
  <2>5. nets[b[1]].size[b[2]] \in Nat /\ nets[b[1]].size[b[2]] > 0
    BY <1>0, <2>3, NetFacts, TouchedRoot
  <2>6. block[b].cost \in Nat /\ block[b].cost > 0
    BY <2>3, <2>4, <2>5
  <2> QED BY <2>1, <2>6
<1>4. \A w \in Net : generated[w] \in 0..Len(nets[w].nodes)
  <2>1. \A w \in Net : Len(nets[w].nodes) \in Nat
    BY <1>0, NetFacts, NetworkParts
  <2> QED BY <1>0, <2>1 DEF GenInv
<1>5. \A w \in Net : live[w] \subseteq Buffer(w)
  <2> SUFFICES ASSUME NEW w \in Net PROVE live[w] \subseteq Buffers(nets[w])
    BY DEF Buffer, Buffers
  <2>1. WellFormed(nets[w]) /\ Len(nets[w].nodes) \in Nat /\ generated[w] \in Nat
        /\ generated[w] <= Len(nets[w].nodes)
    BY <1>0, NetFacts, NetworkParts DEF GenInv
  <2> DEFINE g == generated[w]
             n == Len(nets[w].nodes)
  <2>2. Produced(nets[w], g) \subseteq Produced(nets[w], n)
    <3>1. g \in 0..n /\ n \in 0..n /\ g <= n
      BY <2>1
    <3> QED BY <2>1, <3>1, ProducedIs
  <2>3. Produced(nets[w], n) \subseteq Buffers(nets[w])
    BY <2>1, ProducedIs DEF Tensors
  <2> QED BY <1>0, <2>2, <2>3 DEF GenInv, Alive
<1>6. \A w \in Net : \A t \in Buffer(w) : ptr[w][t] \in Cell \cup {Null}
  BY <1>0 DEF HarnessInv, PtrInv, Buffer, Buffers
<1>7. Taken(heap) \subseteq 0..(Top - 1)
  BY <1>0 DEF HarnessInv, PhaseInv, Taken
<1>8. mb \in 0..(Accum * Updates)
  <2> DEFINE q == UpdateStep
             r == AccumStep
  <2>1. mb \in Nat /\ BatchInv
    BY <1>0 DEF HarnessInv, BatchInv
  <2>2. q \in Nat /\ r \in 0..(Accum - 1) /\ mb = Accum * q + r
    BY <2>1, BatchFacts
  <2>3. Accum * Updates \in Nat
    BY BoundsAssumption
  <2>4. CASE phase # "done"
    <3>1. q + 1 <= Updates
      BY <2>1, <2>2, <2>4, BoundsAssumption DEF BatchInv
    <3>2. \A a, b \in Nat : a <= b => Accum * a <= Accum * b
      BY BoundsAssumption, SMT
    <3>3. Accum * (q + 1) <= Accum * Updates
      <4> HIDE DEF q, r
      <4>1. q + 1 \in Nat /\ Updates \in Nat
        BY <2>2, BoundsAssumption
      <4> QED BY <3>1, <3>2, <4>1
    <3>4. Accum * (q + 1) = Accum * q + Accum
      <4> HIDE DEF q, r
      <4> QED BY <2>2, BoundsAssumption
    <3> HIDE DEF q, r
    <3> QED BY <2>1, <2>2, <2>3, <3>3, <3>4, BoundsAssumption
  <2>5. CASE phase = "done" /\ Training
    BY <2>1, <2>3, <2>5 DEF BatchInv
  <2>6. CASE ~ Training
    BY <2>1, <2>3, <2>6 DEF BatchInv
  <2> QED BY <2>4, <2>5, <2>6
<1> QED BY <1>1, <1>2, <1>3, <1>4, <1>5, <1>6, <1>7, <1>8 DEF TypeOK

LEMMA Intact ==
    ASSUME Inv, InArena
    PROVE  InputsIntact
<1>0. PlanInv /\ GenInv /\ HarnessInv /\ Static
  BY DEF Inv, PlanInv
<1> SUFFICES ASSUME NEW w \in Net, Running(w),
                    NEW t \in Needed(w, nets[w].nodes[Current(w).arg])
             PROVE  Holds(w, t, Before(w, t))
  BY DEF InputsIntact
<1>1. Busy(w) /\ ~ Finished(w) /\ Current(w).do = "run"
  BY DEF Running
<1>2. Planned
  BY <1>0, <1>1 DEF Busy, HarnessInv, PhaseInv, PlanInv, Planned
<1>3. CASE w = "net"
  <2> DEFINE N == nets["net"]
             i == Current("net").arg
             node == N.nodes[i]
  <2>1. phase = "runNet"
    BY <1>1, <1>3 DEF Busy
  <2>2. /\ i \in Nodes(N) /\ Ran("net") = 1..(i - 1)
        /\ \A u \in Range(node.ins) : Pointed("net", u)
    BY <1>0, <1>1, <1>2, <1>3, <2>1, NetInstruction
  <2>3. RunContent(mem, 1..(i - 1))
    BY <1>0, <2>1, <2>2 DEF HarnessInv, MemInv
  <2>4. /\ t \in Range(node.ins)
        /\ node.op = "accumulate" => AccumStep # 0 \/ N.role[t] # "grad"
    <3>1. CASE node.op = "accumulate"
      <4>1. /\ Range(node.ins) = {node.ins[1], node.ins[2], node.ins[3]}
            /\ Range(Tail(node.ins)) = {node.ins[2], node.ins[3]}
            /\ N.role[node.ins[2]] = "inner" /\ N.role[node.ins[3]] = "reset"
        BY <1>0, <2>2, <3>1, AccumulateNode
      <4> QED BY <1>3, <3>1, <4>1 DEF Needed
    <3>2. CASE node.op # "accumulate"
      BY <1>3, <3>2 DEF Needed
    <3> QED BY <3>1, <3>2
  <2>5. Pointed("net", t) /\ t \in Touched(N)
    BY <1>0, <2>2, <2>4, TouchedTensors DEF Net
  <2>6. Stored(mem, "net", t, Content(1..(i - 1), t))
    <3> HIDE DEF i
    <3> QED BY <1>2, <2>2, <2>3, <2>4, <2>5, ReadsRight
  <2>7. Content(1..(i - 1), t) = Before("net", t)
    <3>1. CASE N.role[t] = "grad"
      <4>1. Written(t)
        BY <1>0, <2>2, <2>4, ReadWritten
      <4>2. t \in Range(N.inputs)
        BY <1>0, <3>1, <4>1, ViewFacts
      <4>3. i \in Users(N, t) /\ i \notin 1..(i - 1)
        <5>1. i \in Users(N, t)
          BY <2>2, <2>4 DEF Users
        <5>2. i \in Nat
          BY <1>0, <2>2, NetFacts, NetworkParts DEF Net
        <5> HIDE DEF i
        <5> QED BY <5>1, <5>2
      <4> HIDE DEF i
      <4>4. Awaiting(1..(i - 1), t)
        BY <3>1, <4>2, <4>3 DEF Awaiting
      <4> QED BY <4>4 DEF Content
    <3>2. CASE N.role[t] # "grad"
      BY <3>2 DEF Content, Awaiting, Before
    <3> QED BY <3>1, <3>2
  <2> QED BY <1>2, <1>3, <2>5, <2>6, <2>7, CellsAre DEF Net
<1>4. CASE w = "opt"
  <2> DEFINE O == nets["opt"]
             i == Current("opt").arg
  <2>1. phase = "runOpt"
    BY <1>1, <1>4 DEF Busy
  <2>2. /\ i \in Nodes(O) /\ Ran("opt") = 1..(i - 1)
        /\ \A u \in Range(O.inputs) : Pointed("opt", u)
    BY <1>0, <1>1, <1>2, <1>4, <2>1, OptInstruction
  <2>3. Training
    BY <1>0, <2>1 DEF HarnessInv, PhaseInv, TrainingPhases
  <2>4. UpdateContent(mem, 1..(i - 1))
    BY <1>0, <2>1, <2>2 DEF HarnessInv, MemInv
  <2>5. /\ O.nodes[i].op = "sgd" /\ Range(O.nodes[i].ins) = {OptWeight(i), OptGrad(i)}
        /\ OptWeight(i) \in Range(O.inputs) /\ OptGrad(i) \in Range(O.inputs)
        /\ O.role[OptGrad(i)] = "grad" /\ Users(O, OptWeight(i)) = {i}
    BY <1>0, <2>2, <2>3, OptimizerFacts
  <2>6. t \in {OptWeight(i), OptGrad(i)} /\ t \in Range(O.inputs)
    BY <1>4, <2>5 DEF Needed
  <2>7. OptContent(1..(i - 1), t) = Wanted("opt", t)
    <3>1. i \notin 1..(i - 1)
      <4>1. i \in Nat
        BY <1>0, <2>2, NetFacts, NetworkParts DEF Net
      <4> HIDE DEF i
      <4> QED BY <4>1
    <3> HIDE DEF i
    <3> QED BY <2>5, <2>6, <3>1 DEF OptContent
  <2>8. Stored(mem, "opt", t, Wanted("opt", t))
    BY <2>4, <2>6, <2>7 DEF UpdateContent
  <2>9. Pointed("opt", t) /\ t \in Touched(O)
    BY <1>0, <2>2, <2>6, TouchedTensors DEF Net
  <2> QED BY <1>2, <1>4, <2>8, <2>9, CellsAre DEF Before
<1> QED BY <1>3, <1>4 DEF Net

LEMMA Exact ==
    ASSUME Inv, InArena
    PROVE  ResultsExact
<1> DEFINE N == nets["net"]
<1>0. PlanInv /\ GenInv /\ HarnessInv /\ Static /\ BatchInv /\ PtrInv /\ "net" \in Net
  BY DEF Inv, PlanInv, HarnessInv, Net
<1>1. ASSUME phase \in {"loadData", "done"}
      PROVE  Planned /\ Initialised("net")
  BY <1>0, <1>1 DEF HarnessInv, PhaseInv, PlanInv, Planned, Initialised, Early
<1>2. ASSUME Training, phase \in {"loadData", "done"}, AccumStep = 0, NEW wi \in 1..NumWeights
      PROVE  Holds("net", TrainWeight(wi), Value(N.name[TrainWeight(wi)], 0..(mb - 1)))
  <2> DEFINE t == TrainWeight(wi)
  <2>1. t \in Range(N.inputs) /\ N.role[t] = "weight"
    BY <1>0, <1>2, TrainingInputs
  <2>2. Stored(mem, "net", t, Wanted("net", t))
    BY <1>0, <1>2, <2>1 DEF HarnessInv, MemInv, InputContent
  <2>3. Wanted("net", t) = Value(N.name[t], 0..(mb - 1))
    <3>1. mb \in Nat
      BY <1>0 DEF BatchInv
    <3>2. mb = Accum * UpdateStep
      BY <1>2, <3>1, BatchFacts
    <3> QED BY <2>1, <3>2 DEF Wanted
  <2> QED BY <1>0, <1>1, <1>2, <2>1, <2>2, <2>3, NetPointed
<1>3. \A k \in DOMAIN losses : losses[k] = Value("loss", {k - 1})
  <2>1. DOMAIN losses = 1..Len(losses)
    BY <1>0 DEF BatchInv
  <2> QED BY <1>0, <2>1 DEF BatchInv
<1>4. ASSUME ~ Training, phase = "done", NEW t \in Range(N.outputs) PROVE Holds("net", t, Wanted("net", t))
  <2>1. Stored(mem, "net", t, Wanted("net", t))
    BY <1>0, <1>4 DEF HarnessInv, MemInv
  <2> QED BY <1>0, <1>1, <1>4, <2>1, NetPointed
<1> QED BY <1>2, <1>3, <1>4 DEF ResultsExact

(* In every arena deployment whose plan fits, of every network and for     *)
(* every number of accumulation and update steps: the memory map passes    *)
(* the compiler's own test, its blocks are ordered and within the arena,   *)
(* and no pointer leaves the memory.                                       *)
THEOREM ArenaTyped == Spec => [](InArena => TypeOK)
<1>1. Inv => (InArena => TypeOK)
  BY Typed
<1> QED BY <1>1, InvInit, InvStep, PTL DEF Spec

(* There, whenever a kernel starts, every tensor it reads is what its      *)
(* producer wrote or the harness loaded in this mini-batch.                *)
THEOREM ArenaInputsIntact == Spec => [](InArena => InputsIntact)
<1>1. Inv => (InArena => InputsIntact)
  BY Intact
<1> QED BY <1>1, InvInit, InvStep, PTL DEF Spec

(* There, between update steps every word of every weight has taken in     *)
(* every past mini-batch exactly once, the losses are those of the         *)
(* mini-batches in order, and an inference leaves its outputs.             *)
THEOREM ArenaResultsExact == Spec => [](InArena => ResultsExact)
<1>1. Inv => (InArena => ResultsExact)
  BY Exact
<1> QED BY <1>1, InvInit, InvStep, PTL DEF Spec
=============================================================================
