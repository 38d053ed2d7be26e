---------------------------- MODULE NetworkGraph ----------------------------
(***************************************************************************)
(* A network as the memory passes of the compiler see it: nodes in         *)
(* schedule order, the tensors they read and write, and the buffers that   *)
(* stand for the memory of another buffer (NetworkContext, VariableBuffer  *)
(* in DeeployTypes.py and the templates that link aliases).                *)
(*                                                                         *)
(* A network is a record with the fields                                   *)
(*   nodes    the schedule: [op, ins, out, scratch] per node, where ins is *)
(*            the sequence of tensors read, out the tensor written and     *)
(*            scratch the sequence of transient buffers                    *)
(*   inputs   the sequence of the graph's input tensors                    *)
(*   outputs  the sequence of the graph's output tensors                   *)
(*   size     the size of each buffer in words                             *)
(***************************************************************************)
EXTENDS Naturals, Sequences, FiniteSets, FiniteSetsExt, Functions

NoNetwork ==
    [nodes |-> <<>>, inputs |-> <<>>, outputs |-> <<>>, size |-> <<>>, role |-> <<>>, name |-> <<>>]

Nodes(N) == DOMAIN N.nodes

(* ctxt._createIOBindings: the inputs and outputs of the graph are global. *)
IsInput(N, t)  == t \in Range(N.inputs)
IsOutput(N, t) == t \in Range(N.outputs)
IsGlobal(N, t) == IsInput(N, t) \/ IsOutput(N, t)

(* What a node touches besides its transient buffers. *)
Touches(node) == Range(node.ins) \cup {node.out}

(* The elements of s at the positions in keep, in their order. *)
Picked(s, keep) ==
    LET pick[k \in 0..Len(s)] ==
            IF k = 0 THEN <<>>
            ELSE IF k \in keep THEN Append(pick[k - 1], s[k]) ELSE pick[k - 1]
    IN  pick[Len(s)]

(* buffer._users: the nodes that read a tensor, in schedule order. *)
Users(N, t) == {i \in Nodes(N) : t \in Range(N.nodes[i].ins)}

LastUser(N, t) == Max(Users(N, t))

(* Templates that make their output an alias of their first input: the *)
(* reshapes, the in-place gradient accumulator and the optimiser step. *)
AliasingOp == {"reshape", "accumulate", "sgd"}

HasAlias(N, t) ==
    \E i \in Nodes(N) : N.nodes[i].op \in AliasingOp /\ N.nodes[i].out = t

(* The optimiser's template also replaces the allocation of its output. *)
UpdatedInPlace(N, t) ==
    \E i \in Nodes(N) : N.nodes[i].op = "sgd" /\ N.nodes[i].out = t

AliasOf(N, t) ==
    LET i == CHOOSE j \in Nodes(N) :
                 N.nodes[j].op \in AliasingOp /\ N.nodes[j].out = t
    IN  N.nodes[i].ins[1]

(* Mutant of Dealias: only one link of a chain is followed. *)
DealiasOnce(N, t) == IF HasAlias(N, t) THEN AliasOf(N, t) ELSE t

(* dealiasBuffer: follow _alias to the buffer that has none. *)
Dealias(N, t) ==
    LET hop[k \in 0..Len(N.nodes)] ==
            IF k = 0 THEN t ELSE DealiasOnce(N, hop[k - 1])
    IN  hop[Len(N.nodes)]

(* Mutant of SameMemory: aliases are searched one link away only. *)
DirectAlias(N, t, u) ==
    \/ t = u
    \/ HasAlias(N, t) /\ AliasOf(N, t) = u
    \/ HasAlias(N, u) /\ AliasOf(N, u) = t

(* The buffers reached over the doubly linked aliases, as has_live_aliases *)
(* does; every link is one that Dealias follows.                           *)
SameMemory(N, t, u) == Dealias(N, t) = Dealias(N, u)

-----------------------------------------------------------------------------
(* What the front end hands over: the nodes in an order of the graph, every *)
(* tensor written once, every output written and every input read, and an   *)
(* alias of the size of the buffer that it stands for.                      *)
Buffers(N) == DOMAIN N.size

NodeRecords(N) ==
    [op : AliasingOp \cup {"kernel"}, ins : Seq(Buffers(N)), out : Buffers(N),
     scratch : Seq(Buffers(N))]

Produced(N, n) == {N.nodes[i].out : i \in 1..n}

NodeWellFormed(N, i) ==
    LET node == N.nodes[i]
    IN  /\ Range(node.ins) \subseteq Range(N.inputs) \cup Produced(N, i - 1)
        /\ node.out \notin Range(N.inputs) \cup Produced(N, i - 1)
        /\ IsInjective(node.scratch)
        /\ Range(node.scratch) \cap (Range(N.inputs) \cup Produced(N, Len(N.nodes))) = {}
        /\ node.op \in AliasingOp =>
               node.ins # <<>> /\ N.size[node.out] = N.size[node.ins[1]]

WellFormed(N) ==
    /\ N.size \in [Buffers(N) -> Nat \ {0}]
    /\ N.inputs \in Seq(Buffers(N)) /\ IsInjective(N.inputs)
    /\ N.nodes \in Seq(NodeRecords(N))
    /\ N.outputs \in Seq(Buffers(N)) /\ IsInjective(N.outputs)
    /\ Range(N.outputs) \subseteq Produced(N, Len(N.nodes))
    /\ \A t \in Range(N.inputs) : Users(N, t) # {}
    /\ \A i \in Nodes(N) : NodeWellFormed(N, i)
=============================================================================
