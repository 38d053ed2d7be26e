-------------------------- MODULE TensorLifetimes --------------------------
(***************************************************************************)
(* From a schedule to memory blocks: the liveness flow over the graph      *)
(* (MemoryConstraintFlows.py, TilerExtension.py) and the lifetimes that    *)
(* the memory scheduler of the tensors' home level derives from it         *)
(* (MemoryScheduler.py, with the variant for training networks in          *)
(* tilingUtils.py).  Every pattern of the schedule holds one node, so node *)
(* i of the schedule is step i - 1.                                        *)
(***************************************************************************)
EXTENDS NetworkGraph, SequencesExt

(* GraphMemoryConstraintFlow: the tensors alive before node i + 1.  The     *)
(* flow starts with the global buffers that are read and not produced.  A  *)
(* node adds its output and kills what it is the last user of.             *)
LiveAfter(N) ==
    LET produced == {N.nodes[i].out : i \in Nodes(N)}
        killed(i, live) == {t \in live : Users(N, t) # {} /\ LastUser(N, t) = i}
        live[i \in 0..Len(N.nodes)] ==
            IF i = 0
            THEN {t \in Range(N.inputs) \cup Range(N.outputs) :
                     Users(N, t) # {}} \ produced
            ELSE LET before == live[i - 1]
                 IN  (before \cup {N.nodes[i].out}) \ killed(i, before)
    IN  live

(* _generateMemoryConstraints: the tensors with a constraint at step i - 1 *)
(* are those the node touches and the local ones alive around it.          *)
InStep(N, i) ==
    Touches(N.nodes[i]) \cup
    {t \in LiveAfter(N)[i - 1] \cup {N.nodes[i].out} : ~ IsGlobal(N, t)}

Blocks(N) == UNION {InStep(N, i) : i \in Nodes(N)}

(* list and those of the tensors that are new in it. *)
Extended(list, tensors) ==
    LET with[k \in 0..Len(tensors)] ==
            IF k = 0 THEN list
            ELSE IF tensors[k] \in Range(with[k - 1]) THEN with[k - 1]
            ELSE Append(with[k - 1], tensors[k])
    IN  with[Len(tensors)]

(* The order in which the lifetime map meets the blocks. *)
BufferOrder(N) ==
    LET met[i \in 0..Len(N.nodes)] ==
            IF i = 0 THEN <<>> ELSE Extended(met[i - 1], Append(N.nodes[i].ins, N.nodes[i].out))
    IN  met[Len(N.nodes)]

Life(first, last) == [first |-> first, last |-> last]

(* The loop of _calculateLifetimes over the steps: a block lives from its  *)
(* first to its last step, and a step of an alias of it prolongs it.       *)
Occupancy(N) ==
    LET present == [i \in Nodes(N) |-> InStep(N, i)]
        steps(t) == {i - 1 : i \in {j \in Nodes(N) : t \in present[j]}}
        aliases(t) == {u \in Blocks(N) : HasAlias(N, u) /\ AliasOf(N, u) = t}
        later(t) == {k \in UNION {steps(u) : u \in aliases(t)} : k >= Min(steps(t))}
    IN  [t \in Blocks(N) |-> Life(Min(steps(t)), Max(steps(t) \cup later(t)))]

(* _calculateLifetimes: inputs live from step 0 and outputs to the end. *)
CalculateLifetimes(N) ==
    LET life == Occupancy(N)
    IN  [t \in Blocks(N) |->
            IF IsOutput(N, t) THEN Life(life[t].first, Len(N.nodes))
            ELSE IF IsInput(N, t) THEN Life(0, life[t].last)
            ELSE life[t]]

(* TrainingMemoryScheduler: inputs live through the whole schedule. *)
TrainingLifetimes(N) ==
    LET life == CalculateLifetimes(N)
    IN  [t \in Blocks(N) |->
            IF IsInput(N, t) THEN Life(0, Len(N.nodes)) ELSE life[t]]

(* Mutant of DealiasLifetimes: the map is left as it is. *)
KeepAliases(N, life) == life

(* _dealiasLifetimeMap: an alias of a global buffer lives from step 0; an  *)
(* alias of a local one prolongs the buffer at the end of the chain.       *)
DealiasLifetimes(N, life) ==
    [t \in DOMAIN life |->
        LET root == Dealias(N, t)
            ends == {life[u].last : u \in {v \in DOMAIN life : Dealias(N, v) = t}}
        IN  IF root # t /\ IsGlobal(N, root) THEN Life(0, life[t].last)
            ELSE IF root = t /\ ~ IsGlobal(N, t) THEN Life(life[t].first, Max(ends))
            ELSE life[t]]

(* MemoryScheduler.overlap. *)
Overlap(a, b) ==
    \/ b.first <= a.first /\ a.first <= b.last
    \/ a.first <= b.first /\ b.first <= a.last

(* Mutant of Resolved: only aliases of global buffers. *)
ResolvedGlobalOnly(N, life, t) == HasAlias(N, t) /\ IsGlobal(N, Dealias(N, t))

(* annotateSolution gives no address of its own to an alias of a global    *)
(* buffer in its home level, nor to an alias of a buffer in the same map.  *)
Resolved(N, life, t) ==
    HasAlias(N, t) /\ (IsGlobal(N, Dealias(N, t)) \/ AliasOf(N, t) \in DOMAIN life)

(* _buildCostVector: an alias costs nothing next to the buffer it names. *)
CostOf(N, life, t) ==
    IF /\ HasAlias(N, t)
       /\ AliasOf(N, t) \in DOMAIN life
       /\ Overlap(life[t], life[AliasOf(N, t)])
    THEN 0
    ELSE N.size[t]

(* testMemoryMapCorrectness: outputs live to the end of the schedule,      *)
(* inputs from its start, and what a node touches at its step.             *)
MemoryMapCorrect(N, life) ==
    /\ \A t \in Range(N.outputs) : life[t].last = Len(N.nodes)
    /\ \A t \in Range(N.inputs) : life[t].first = 0
    /\ \A i \in Nodes(N) : \A t \in Touches(N.nodes[i]) :
           i - 1 \in life[t].first..life[t].last
=============================================================================
