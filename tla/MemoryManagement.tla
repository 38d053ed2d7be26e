-------------------------- MODULE MemoryManagement --------------------------
(***************************************************************************)
(* The code transformation that surrounds every node with the allocation   *)
(* of its output and transient buffers and the release of the inputs it is *)
(* the last user of (MemoryAllocation.py).  It runs at compile time, node  *)
(* by node in schedule order, and keeps its state in the buffers: the flag *)
(* _live and the size accounting of the context.  What it emits is the     *)
(* program that NetworkRuntime executes.                                   *)
(***************************************************************************)
EXTENDS NetworkGraph

VARIABLES
    nets,         \* the networks that are compiled: [Net -> network]
    generated,    \* per network, how many nodes have been transformed
    live,         \* per network, its local buffers with _live set
    dynamicSize,  \* per network, ctxt._dynamicSize
    maxDynamic,   \* per network, ctxt._maxDynamicSize
    program       \* per network, the instructions emitted so far

generationVars == <<generated, live, dynamicSize, maxDynamic, program>>

Net == {"net", "opt"}

GenerationInit ==
    /\ generated = [w \in Net |-> 0]
    /\ live = [w \in Net |-> {}]
    /\ dynamicSize = [w \in Net |-> 0]
    /\ maxDynamic = [w \in Net |-> 0]
    /\ program = [w \in Net |-> <<>>]

SizeOf(N, bufs) == MapThenSumSet(LAMBDA t : N.size[t], bufs)

(* The local buffers that a node brings to life, and those it ends. *)
Born(N, i) ==
    (IF IsGlobal(N, N.nodes[i].out) THEN <<>> ELSE <<N.nodes[i].out>>)
        \o N.nodes[i].scratch

(* extractDynamicReferences: a buffer that a node reads twice is one       *)
(* reference, the first.                                                   *)
References(ins) == {k \in DOMAIN ins : \A j \in 1..(k - 1) : ins[j] # ins[k]}

(* is_final_input: the last of a buffer's users is this node. *)
Dying(N, i) ==
    LET ins == N.nodes[i].ins
    IN  Picked(ins, {k \in References(ins) : ~ IsGlobal(N, ins[k]) /\ LastUser(N, ins[k]) = i})
            \o N.nodes[i].scratch

(* Mutant of HasLiveAliases: only the buffer's own flag is looked at. *)
OwnFlag(N, t, alive) == t \in alive \/ IsGlobal(N, t)

(* has_live_aliases: some buffer in the same memory is live, or is an *)
(* input or output of the network.                                     *)
HasLiveAliases(N, t, alive) ==
    \E u \in DOMAIN N.size : SameMemory(N, t, u) /\ (u \in alive \/ IsGlobal(N, u))

(* The dying buffers whose memory is released, in the order in which their *)
(* flags are taken down.                                                   *)
Released(N, dying, alive) ==
    Picked(dying, {k \in DOMAIN dying :
                       ~ HasLiveAliases(N, dying[k], alive \ {dying[j] : j \in 1..k})})

Instruction(what, bufs) == [k \in DOMAIN bufs |-> [do |-> what, arg |-> bufs[k]]]

(* Mutant of Peak: the maximum is taken when the node's inputs are gone. *)
LatePeak(before, born, freed) == before + born - freed

(* The size that enters the maximum: outputs and dying inputs together. *)
Peak(before, born, freed) == before + born

(* MemoryManagementGeneration.apply, and MemoryPassthroughGeneration.apply *)
(* for reshapes, which sets the flags and the sizes but emits nothing.     *)
GenerateNode(w) ==
    LET N == nets[w]
        i == generated[w] + 1
        born == Born(N, i)
        dying == Dying(N, i)
        alive == live[w] \cup Range(born)
        passes == N.nodes[i].op = "reshape"
        freed == IF passes THEN dying ELSE Released(N, dying, alive)
        run == <<[do |-> "run", arg |-> i]>>
        grown == SizeOf(N, Range(born))
        peak == Peak(dynamicSize[w], grown, SizeOf(N, Range(freed)))
    IN  /\ i \in Nodes(N)
        /\ generated' = [generated EXCEPT ![w] = i]
        /\ live' = [live EXCEPT ![w] = alive \ Range(dying)]
        /\ dynamicSize' = [dynamicSize EXCEPT ![w] =
               @ + grown - SizeOf(N, Range(freed))]
        /\ maxDynamic' = [maxDynamic EXCEPT ![w] = IF @ > peak THEN @ ELSE peak]
        /\ program' = [program EXCEPT ![w] =
               @ \o (IF passes THEN run
                     ELSE Instruction("alloc", born) \o run
                              \o Instruction("free", freed))]
        /\ UNCHANGED nets

AllGenerated(w) == generated[w] = Len(nets[w].nodes)

(* The assertions of apply at the next node: what is to be allocated is *)
(* not live and what is to be released is.                              *)
GenerationAsserts ==
    \A w \in Net : ~ AllGenerated(w) =>
        LET i == generated[w] + 1
        IN  /\ Range(Born(nets[w], i)) \cap live[w] = {}
            /\ Range(Dying(nets[w], i)) \subseteq
                   live[w] \cup Range(nets[w].nodes[i].scratch)
=============================================================================
