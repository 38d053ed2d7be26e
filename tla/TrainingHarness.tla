-------------------------- MODULE TrainingHarness --------------------------
(***************************************************************************)
(* From a network to its results: the memory scheduler places the tensors, *)
(* the code generator emits the program, and the harness initialises and   *)
(* runs it.  A training deployment (deeploytraintest.c) has two networks,  *)
(* the training network "net" and the optimiser "opt", whose weights and   *)
(* gradients are the same buffers or are copied between the two; an        *)
(* inference deployment (deeploytest.c) has one.                           *)
(*                                                                         *)
(* A network carries two more fields here: role and name of every buffer,  *)
(* from which the value it should hold follows.                            *)
(***************************************************************************)
EXTENDS TensorLifetimes, NetworkRuntime

CONSTANTS
    Deployments,  \* the networks and how they are deployed
    Accum,        \* N_ACCUM_STEPS
    Updates,      \* N_TRAIN_STEPS, and one of them for inference
    DataSize,     \* TRAINING_DATA_SIZE
    Orders(_)     \* bound: the orders of a list of blocks that are tried

-----------------------------------------------------------------------------
(* What is deployed.  A view shows a tensor with the role and the name of   *)
(* its source.                                                              *)
NamedAlike(N, t, u) == N.role[t] = N.role[u] /\ N.name[t] = N.name[u]

(* What an untiled network can give back: the front end has removed what   *)
(* nobody reads (graph.cleanup), and the shape that a reshape reads is no  *)
(* local buffer (ReshapeTemplate looks it up among the globals).  A view   *)
(* is no output: the run moves its pointer, but the harness keeps the      *)
(* address that InitNetwork has recorded for the output.                   *)
ReturnsAll(N) ==
    \A i \in Nodes(N) :
        LET node == N.nodes[i]
        IN  /\ IsOutput(N, node.out) \/ Users(N, node.out) # {}
            /\ node.op = "reshape" =>
                   /\ ~ IsOutput(N, node.out)
                   /\ \A k \in 2..Len(node.ins) : IsGlobal(N, node.ins[k])

(* A network and its memory: a transient buffer has no block in an arena.   *)
(* No tensor is called what marks a spoiled cell.                           *)
Prepared(d, w) ==
    LET N == d.nets[w]
    IN  /\ WellFormed(N)
        /\ DOMAIN N.role = Buffers(N) /\ DOMAIN N.name = Buffers(N)
        /\ \A t \in Buffers(N) : N.name[t] # Garbage.of
        /\ \A i \in Nodes(N) :
               /\ d.strategy = "arena" => N.nodes[i].scratch = <<>>
               /\ N.nodes[i].op = "reshape" => NamedAlike(N, N.nodes[i].out, N.nodes[i].ins[1])
        /\ d.strategy = "heap" => ReturnsAll(N)

(* deploytest.c has one network.  A view of its input is no output, and no  *)
(* view is taken of it: its input lives only as long as the input and its   *)
(* direct views are read.                                                   *)
Inference(d) ==
    LET N == d.nets["net"]
    IN  /\ d.nets["opt"] = NoNetwork
        /\ \A t \in Range(N.inputs) : N.role[t] = "data"
        /\ \A i \in Nodes(N) :
               /\ N.nodes[i].op \in {"kernel", "reshape"}
               /\ N.nodes[i].op = "kernel" => N.role[N.nodes[i].out] = "inner"
               /\ N.nodes[i].op = "reshape" /\ IsInput(N, Dealias(N, N.nodes[i].out)) =>
                      IsInput(N, N.nodes[i].ins[1]) /\ ~ IsOutput(N, N.nodes[i].out)

(* The inputs of a training network that have a role, and the first number  *)
(* of those.                                                                *)
WithRole(N, role) == Picked(N.inputs, {k \in DOMAIN N.inputs : N.role[N.inputs[k]] = role})

GradStartOf(N) == Len(WithRole(N, "data")) + Len(WithRole(N, "weight"))

(* The training network: its inputs are data, weights, one accumulator for  *)
(* each weight and the reset flag, and its first output is the loss.  Each  *)
(* accumulator is read by one node, which adds a gradient of its size to it *)
(* and whose result nobody reads.                                           *)
TrainingGraph(N) ==
    LET data == Len(WithRole(N, "data"))
        start == GradStartOf(N)
        weights == start - data
    IN  /\ weights > 0 /\ Len(N.inputs) = start + weights + 1
        /\ \A k \in DOMAIN N.inputs :
               N.role[N.inputs[k]] = IF k <= data THEN "data"
                                     ELSE IF k <= start THEN "weight"
                                     ELSE IF k <= start + weights THEN "grad"
                                     ELSE "reset"
        /\ \A j, k \in DOMAIN N.inputs :
               N.name[N.inputs[j]] = N.name[N.inputs[k]] => j = k
        /\ \A i \in Nodes(N) :
               LET node == N.nodes[i]
               IN  /\ node.op # "sgd"
                   /\ node.op = "accumulate" =>
                          /\ Len(node.ins) = 3 /\ Users(N, node.out) = {}
                          /\ IsInput(N, node.ins[1]) /\ N.role[node.ins[1]] = "grad"
                          /\ N.role[node.ins[2]] = "inner"
                          /\ N.size[node.ins[2]] = N.size[node.ins[1]]
                          /\ IsInput(N, node.ins[3]) /\ N.role[node.ins[3]] = "reset"
                   /\ node.op # "reshape" => N.role[node.out] = "inner"
                   /\ \A k \in DOMAIN node.ins :
                          N.role[node.ins[k]] = "grad" => node.op = "accumulate" /\ k = 1
        /\ \A t \in Range(N.inputs) : N.role[t] = "grad" => Cardinality(Users(N, t)) = 1
        /\ N.outputs # <<>> /\ N.name[N.outputs[1]] = "loss"
        /\ \A i \in Nodes(N) : N.nodes[i].out = N.outputs[1] =>
               N.role[N.nodes[i].out] = "inner" /\ N.nodes[i].op # "accumulate"

(* The optimiser: node wi updates weight wi of the training network with    *)
(* gradient wi, under the names these have there.  A weight that both       *)
(* share has the same size in both.                                         *)
OptimizerGraph(N, O, shared) ==
    LET data == Len(WithRole(N, "data"))
        start == GradStartOf(N)
    IN  /\ Len(O.nodes) = start - data /\ Len(O.inputs) = 2 * (start - data)
        /\ Range(O.outputs) = Produced(O, Len(O.nodes))
        /\ \A wi \in Nodes(O) :
               LET node == O.nodes[wi]
                   weight == N.inputs[data + wi]
                   grad == N.inputs[start + wi]
               IN  /\ node.op = "sgd"
                   /\ node.ins = <<O.inputs[2 * wi - 1], O.inputs[2 * wi]>>
                   /\ O.role[node.ins[1]] = "weight" /\ O.role[node.ins[2]] = "grad"
                   /\ O.role[node.out] = "updated"
                   /\ O.name[node.ins[1]] = N.name[weight] /\ O.name[node.out] = N.name[weight]
                   /\ O.name[node.ins[2]] = N.name[grad]
                   /\ O.size[node.ins[2]] = O.size[node.out]
                   /\ O.size[node.out] <= N.size[weight] /\ O.size[node.out] <= N.size[grad]
                   /\ N.name[weight] \in shared => O.size[node.out] = N.size[weight]

Deployable(d) ==
    /\ DOMAIN d.nets = Net
    /\ d.strategy \in {"arena", "heap"}
    /\ \A w \in Net : Prepared(d, w)
    /\ \/ d.kind = "inference" /\ Inference(d)
       \/ /\ d.kind = "training" /\ TrainingGraph(d.nets["net"])
          /\ OptimizerGraph(d.nets["net"], d.nets["opt"], d.shared)

ASSUME DeploymentsAssumption == \A d \in Deployments : Deployable(d)

ASSUME BoundsAssumption ==
    /\ Accum \in Nat \ {0} /\ Updates \in Nat \ {0} /\ DataSize \in Nat \ {0}
    /\ Top \in Nat

-----------------------------------------------------------------------------
VARIABLES
    deployment,   \* the one of Deployments that is built
    order,        \* the order in which the scheduler takes the blocks
    phase,        \* where the tool chain and then the harness are
    mb,           \* the mini-batch
    losses        \* stored_losses, by mini-batch

harnessVars == <<deployment, order, phase, mb, losses>>
vars == <<nets, generationVars, placementVars, runtimeVars, harnessVars>>

Training == deployment.kind = "training"

UpdateStep == mb \div Accum
AccumStep  == mb % Accum

-----------------------------------------------------------------------------
(* Building. *)

(* Mutant of LifetimesOf: no network is scheduled for training. *)
PlainLifetimes(d, w) == DealiasLifetimes(d.nets[w], CalculateLifetimes(d.nets[w]))

(* TrainingSBTiler schedules both networks of a training deployment. *)
LifetimesOf(d, w) ==
    LET N == d.nets[w]
    IN  DealiasLifetimes(N, IF d.kind = "training" THEN TrainingLifetimes(N)
                            ELSE CalculateLifetimes(N))

(* The list of blocks of both networks, the training network's first. *)
BlockList(d) ==
    LET of(w) == LET bufs == BufferOrder(d.nets[w])
                 IN  [k \in DOMAIN bufs |-> <<w, bufs[k]>>]
    IN  of("net") \o of("opt")

BlockOf(d, lives, b) ==
    LET life == lives[b[1]]
        N == d.nets[b[1]]
    IN  [arena |-> b[1], first |-> life[b[2]].first, last |-> life[b[2]].last,
         cost |-> CostOf(N, life, b[2]), resolved |-> Resolved(N, life, b[2])]

Init ==
    /\ deployment \in Deployments
    /\ nets = deployment.nets
    /\ strategy = deployment.strategy
    /\ \E lives \in {[w \in Net |-> LifetimesOf(deployment, w)]} :
           block = [b \in {c \in Range(BlockList(deployment)) : strategy = "arena"} |->
                       BlockOf(deployment, lives, b)]
    /\ order \in IF strategy = "arena" THEN Orders(BlockList(deployment)) ELSE {<<>>}
    /\ PlacementInit
    /\ GenerationInit
    /\ RuntimeInit
    /\ phase = "generate"
    /\ mb = 0
    /\ losses = <<>>

Generate ==
    /\ phase = "generate"
    /\ \/ /\ \E w \in Net : (w = "opt" => AllGenerated("net")) /\ GenerateNode(w)
          /\ UNCHANGED phase
       \/ /\ \A w \in Net : AllGenerated(w)
          /\ phase' = IF strategy = "arena" THEN "place" ELSE "initNet"
          /\ UNCHANGED <<generationVars, nets>>
    /\ UNCHANGED <<placementVars, runtimeVars, deployment, order, mb, losses>>

(* annotateSolution walks over the permuted blocks. *)
Place ==
    /\ phase = "place"
    /\ \/ /\ ~ AllPlaced
          /\ PlaceBlock(order[Cardinality(placed) + 1])
          /\ UNCHANGED phase
       \/ /\ AllPlaced
          /\ phase' = "initNet"
          /\ UNCHANGED placementVars
    /\ UNCHANGED <<nets, generationVars, runtimeVars, deployment, order, mb, losses>>

-----------------------------------------------------------------------------
(* The harness.  The graph's inputs come in the order data, weights,       *)
(* accumulators, lazy_reset_grad.                                          *)

InputsOf(w, role) ==
    Picked(nets[w].inputs,
           {k \in DOMAIN nets[w].inputs : nets[w].role[nets[w].inputs[k]] = role})

(* TRAINING_NUM_DATA_INPUTS and TRAINING_GRAD_BUF_START_IDX *)
NumData == Len(InputsOf("net", "data"))
NumWeights == Len(InputsOf("net", "weight"))
GradStart == NumData + NumWeights

TrainWeight(wi) == nets["net"].inputs[NumData + wi]
TrainGrad(wi)   == nets["net"].inputs[GradStart + wi]
OptWeight(wi)   == nets["opt"].inputs[2 * wi - 1]
OptGrad(wi)     == nets["opt"].inputs[2 * wi]
OptUpdated(wi)  == nets["opt"].nodes[wi].out

Value(name, batches) == [of |-> name, from |-> batches]

(* Mutant of ResetFlag: it is set once, before the first mini-batch. *)
ResetOnce == IF mb = 0 THEN {1} ELSE {}

(* lazy_reset_grad *)
ResetFlag == IF AccumStep = 0 THEN {1} ELSE {}

(* What a buffer should hold during mini-batch mb, the weights those of *)
(* the current update step.                                             *)
Wanted(w, t) ==
    LET role == nets[w].role[t]
        name == nets[w].name[t]
        start == Accum * UpdateStep
    IN  Value(name,
            IF role = "data" THEN {mb % DataSize}
            ELSE IF role = "weight" THEN 0..(start - 1)
            ELSE IF role = "updated" THEN 0..mb
            ELSE IF role = "grad" THEN start..mb
            ELSE IF role = "reset" THEN IF mb = start THEN {1} ELSE {}
            ELSE {mb})

Want(w) == [t \in DOMAIN nets[w].size |-> Wanted(w, t)]

InitNet ==
    /\ phase = "initNet"
    /\ InitNetwork("net", nets["net"].inputs \o nets["net"].outputs, <<>>)
    /\ phase' = IF Training THEN "zeroGrads" ELSE "loadData"
    /\ UNCHANGED <<deployment, order, mb, losses>>

(* The accumulators are cleared. *)
ZeroGrads ==
    LET zeroed == InputsOf("net", "grad")
    IN  /\ phase = "zeroGrads"
        /\ mem' = [c \in Cell |->
               IF \E k \in DOMAIN zeroed : c \in Cells("net", zeroed[k])
               THEN Value("zero", {}) ELSE mem[c]]
        /\ phase' = "initOpt"
        /\ UNCHANGED <<strategy, ptr, heap, ip, deployment, order, mb, losses>>

(* build_shared_buffer_maps, _patch_shared_buffers: inputs and outputs of  *)
(* the optimiser that are named like an input of the training network are  *)
(* pointers to it.                                                         *)
Redirected ==
    [t \in {u \in Range(nets["opt"].inputs) \cup Range(nets["opt"].outputs) :
               nets["opt"].name[u] \in deployment.shared} |->
        ptr["net"][CHOOSE v \in Range(nets["net"].inputs) :
                       nets["net"].name[v] = nets["opt"].name[t]]]

InitOpt ==
    /\ phase = "initOpt"
    /\ InitNetwork("opt", nets["opt"].inputs \o nets["opt"].outputs, Redirected)
    /\ phase' = "initWeights"
    /\ UNCHANGED <<deployment, order, mb, losses>>

(* testInitWeights are copied in. *)
InitWeights ==
    /\ phase = "initWeights"
    /\ mem' = [c \in Cell |->
           IF \E wi \in 1..NumWeights : c \in Cells("net", TrainWeight(wi))
           THEN Value(nets["net"].name[CHOOSE t \in Range(nets["net"].inputs) :
                          nets["net"].role[t] = "weight" /\ c \in Cells("net", t)], {})
           ELSE mem[c]]
    /\ phase' = "loadData"
    /\ UNCHANGED <<strategy, ptr, heap, ip, deployment, order, mb, losses>>

(* lazy_reset_grad is set and the samples of the mini-batch are loaded. *)
LoadData ==
    LET loaded(t) == IF nets["net"].role[t] = "reset"
                     THEN Value(nets["net"].name[t], ResetFlag)
                     ELSE Value(nets["net"].name[t], {mb % DataSize})
        changed == {t \in Range(nets["net"].inputs) :
                       nets["net"].role[t] \in {"data", "reset"}}
    IN  /\ phase = "loadData"
        /\ mem' = [c \in Cell |->
               IF \E t \in changed : c \in Cells("net", t)
               THEN loaded(CHOOSE t \in changed : c \in Cells("net", t))
               ELSE mem[c]]
        /\ ip' = 1
        /\ phase' = "runNet"
        /\ UNCHANGED <<strategy, ptr, heap, deployment, order, mb, losses>>

RunNet ==
    /\ phase = "runNet"
    /\ Execute("net", Want("net"))
    /\ UNCHANGED harnessVars

(* RunTrainingNetwork has returned: the network's first output is stored  *)
(* as the loss, and a whole group of mini-batches is followed by the      *)
(* optimiser.                                                             *)
StoreLoss ==
    /\ phase = "runNet" /\ Finished("net")
    /\ IF Training
       THEN /\ losses' = Append(losses, Read(ptr["net"][nets["net"].outputs[1]]))
            /\ phase' = IF AccumStep = Accum - 1 THEN "copyIn" ELSE "loadData"
            /\ mb' = IF AccumStep = Accum - 1 THEN mb ELSE mb + 1
       ELSE phase' = "done" /\ UNCHANGED <<losses, mb>>
    /\ UNCHANGED <<runtimeVars, deployment, order>>

(* The copies of a loop over the weights, as one assignment to mem.  to    *)
(* and from are addresses; a pair of equal pointers is skipped.  A target  *)
(* larger than its source is filled with copies of it.                     *)
Copied(copies) ==
    [c \in Cell |->
        IF \E m \in copies : c \in m.target
        THEN LET m == CHOOSE n \in copies : c \in n.target
             IN  Read(Offset(m.from, (c.at - m.to.at) % m.words))
        ELSE mem[c]]

Copy(w, t, v, u, words) ==
    [target |-> {Offset(ptr[w][t], k) : k \in 0..(words - 1)},
     to |-> ptr[w][t], from |-> ptr[v][u], words |-> nets["opt"].size[
         IF w = "opt" THEN t ELSE u]]

Apart(copies) == {m \in copies : m.to # m.from}

(* Step A of run_optimizer_step. *)
CopyIn ==
    /\ phase = "copyIn"
    /\ mem' = Copied(Apart(
           {Copy("opt", OptWeight(wi), "net", TrainWeight(wi),
                 nets["opt"].size[OptWeight(wi)]) : wi \in 1..NumWeights}
           \cup {Copy("opt", OptGrad(wi), "net", TrainGrad(wi),
                 nets["opt"].size[OptGrad(wi)]) : wi \in 1..NumWeights}))
    /\ ip' = 1
    /\ phase' = "runOpt"
    /\ UNCHANGED <<strategy, ptr, heap, deployment, order, mb, losses>>

RunOpt ==
    /\ phase = "runOpt"
    /\ Execute("opt", Want("opt"))
    /\ UNCHANGED harnessVars

(* Step C: the updated weights go back, and the next update step begins. *)
CopyOut ==
    /\ phase = "runOpt" /\ Finished("opt")
    /\ mem' = Copied(Apart(
           {Copy("net", TrainWeight(wi), "opt", OptUpdated(wi),
                 nets["net"].size[TrainWeight(wi)]) : wi \in 1..NumWeights}))
    /\ mb' = mb + 1
    /\ phase' = IF UpdateStep = Updates - 1 THEN "done" ELSE "loadData"
    /\ UNCHANGED <<strategy, ptr, heap, ip, deployment, order, losses>>

Done == phase = "done" /\ UNCHANGED vars

HarnessStep ==
    \/ InitNet \/ ZeroGrads \/ InitOpt \/ InitWeights \/ LoadData \/ RunNet
    \/ StoreLoss \/ CopyIn \/ RunOpt \/ CopyOut

Next ==
    \/ Generate
    \/ Place
    \/ HarnessStep /\ UNCHANGED <<nets, generationVars, placementVars>>
    \/ Done

Spec == Init /\ [][Next]_vars

-----------------------------------------------------------------------------
(* Properties. *)

Buffer(w) == DOMAIN nets[w].size

(* What the compiler asserts of its plan: every block it locates has an    *)
(* ordered range (MemoryBlock.addrSpace) inside the arena, and the map     *)
(* passes testMemoryMapCorrectness.  Pointers and heap stay in memory.     *)
TypeOK ==
    /\ \A w \in {b[1] : b \in Block} :
           MemoryMapCorrect(nets[w], [t \in {b[2] : b \in {c \in Block : c[1] = w}} |->
                                         block[<<w, t>>]])
    /\ \A b \in placed : height[b] <= Top
    /\ \A b \in placed : Located(b) => addrSpace[b].lo < addrSpace[b].hi
    /\ \A w \in Net : generated[w] \in 0..Len(nets[w].nodes)
    /\ \A w \in Net : live[w] \subseteq Buffer(w)
    /\ \A w \in Net : \A t \in Buffer(w) : ptr[w][t] \in Cell \cup {Null}
    /\ Taken(heap) \subseteq 0..(Top - 1)
    /\ mb \in 0..(Accum * Updates)

(* The buffers a node reads: the accumulator is not when it is reset. *)
Needed(w, node) ==
    IF node.op = "accumulate" /\ AccumStep = 0
    THEN Range(Tail(node.ins)) ELSE Range(node.ins)

Busy(w) == phase = IF w = "net" THEN "runNet" ELSE "runOpt"

Running(w) == Busy(w) /\ ~ Finished(w) /\ Current(w).do = "run"

Before(w, t) ==
    IF w = "net" /\ nets[w].role[t] = "grad"
    THEN Value(nets[w].name[t], (Accum * UpdateStep)..(mb - 1))
    ELSE Wanted(w, t)

(* Whenever a kernel starts, every tensor it reads is what its producer    *)
(* wrote or the harness loaded in this mini-batch: nothing placed on top   *)
(* of it, freed it or was copied over it while it was still needed.        *)
InputsIntact ==
    \A w \in Net :
        Running(w) =>
            LET node == nets[w].nodes[Current(w).arg]
            IN  \A t \in Needed(w, node) : Holds(w, t, Before(w, t))

(* Between update steps, and at the end, every word of every weight of the *)
(* training network has taken in every past mini-batch exactly once, the   *)
(* losses are those of the mini-batches in order, and an inference leaves  *)
(* its outputs.                                                            *)
ResultsExact ==
    /\ Training /\ phase \in {"loadData", "done"} /\ AccumStep = 0 =>
           \A wi \in 1..NumWeights :
               Holds("net", TrainWeight(wi),
                     Value(nets["net"].name[TrainWeight(wi)], 0..(mb - 1)))
    /\ \A k \in DOMAIN losses : losses[k] = Value("loss", {k - 1})
    /\ ~ Training /\ phase = "done" =>
           \A t \in Range(nets["net"].outputs) : Holds("net", t, Wanted("net", t))

(* The blocks of the heap that InitNetwork took. *)
Permanent ==
    {b \in heap : \E w \in Net : \E t \in Range(nets[w].inputs) \cup Range(nets[w].outputs) :
                      ptr[w][t] = [area |-> "heap", at |-> b.at]}

(* What the generator asserts holds, a buffer that is freed is allocated,  *)
(* a run never holds more than the size the compiler accounts for, and it  *)
(* gives back all it took.                                                 *)
HeapSound ==
    /\ GenerationAsserts
    /\ \A w \in Net :
           Busy(w) =>
               /\ Cardinality(Taken(heap \ Permanent)) <= maxDynamic[w]
               /\ strategy = "heap" /\ ~ Finished(w) /\ Current(w).do = "free" =>
                      \E b \in heap \ Permanent : b.at = ptr[w][Current(w).arg].at
               /\ Finished(w) => heap = Permanent
=============================================================================
