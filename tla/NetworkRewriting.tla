-------------------------- MODULE NetworkRewriting --------------------------
(***************************************************************************)
(* The graph of a network as the optimisation passes see it, the two       *)
(* matchers and the two ways a pass changes the graph (replaceInsertNode,  *)
(* deleteNode).  A graph g has a sequence g.nodes of nodes with an id, a   *)
(* type, the tensors they read and write and attributes; a function        *)
(* g.tensors from ids of tensors to their shapes and, for constants, their *)
(* values; and the sequence g.outputs of tensors the network returns.      *)
(***************************************************************************)
EXTENDS Integers, Sequences, FiniteSets, SequencesExt, FiniteSetsExt, TLC

Variable(shape) == [shape |-> shape, values |-> <<>>]
Constant(shape, values) == [shape |-> shape, values |-> values]
IsConstant(g, t) == g.tensors[t].values # <<>>

OpNode(id, op, in, out, attrs) == [id |-> id, op |-> op, in |-> in, out |-> out, attrs |-> attrs]

NodeIn(g, id) == g.nodes[CHOOSE i \in DOMAIN g.nodes : g.nodes[i].id = id]
Present(g, id) == \E i \in DOMAIN g.nodes : g.nodes[i].id = id
WithNode(g, n) == [g EXCEPT !.nodes = [i \in DOMAIN @ |-> IF @[i].id = n.id THEN n ELSE @[i]]]
Appended(g, nodes) == [g EXCEPT !.nodes = @ \o nodes]

NewTensor(g) == Max(DOMAIN g.tensors) + 1
NewNode(g) == IF g.nodes = <<>> THEN 1 ELSE Max({g.nodes[i].id : i \in DOMAIN g.nodes}) + 1
WithTensor(g, t, tensor) == [g EXCEPT !.tensors = (t :> tensor) @@ @]

(* The nodes that read a tensor, once for each input that is this tensor.  *)
Consumers(g, t) ==
    FlattenSeq([i \in DOMAIN g.nodes |->
        [j \in 1..Cardinality({k \in DOMAIN g.nodes[i].in : g.nodes[i].in[k] = t}) |-> g.nodes[i].id]])

Producers(g, t) == {g.nodes[i] : i \in {j \in DOMAIN g.nodes : t \in Range(g.nodes[j].out)}}
Produced(g, t) == Producers(g, t) # {}
Producer(g, t) == CHOOSE n \in Producers(g, t) : TRUE

Redirected(in, old, new) == [i \in DOMAIN in |-> IF in[i] = old THEN new ELSE in[i]]
Everywhere(g, old, new) ==
    [g EXCEPT !.nodes = [i \in DOMAIN @ |-> [@[i] EXCEPT !.in = Redirected(@, old, new)]]]

-----------------------------------------------------------------------------
(* graph.cleanup: nodes that no output depends on go.                      *)
RECURSIVE Needed(_, _)
Needed(g, ts) ==
    LET nodes == UNION {Producers(g, t) : t \in ts}
        before == UNION {Range(n.in) : n \in nodes}
    IN  IF before \subseteq ts THEN {n.id : n \in nodes} ELSE Needed(g, ts \cup before)

Cleanup(g) ==
    LET needed == Needed(g, Range(g.outputs))
    IN  [g EXCEPT !.nodes = SelectSeq(@, LAMBDA n : n.id \in needed)]

(* graph.toposort: by the longest way from the inputs, otherwise in order. *)
RECURSIVE Level(_, _)
Level(g, n) ==
    Max({0} \cup {1 + Level(g, p) : p \in UNION {Producers(g, t) : t \in Range(n.in)}})

Toposort(g) ==
    LET level == [i \in DOMAIN g.nodes |-> Level(g, g.nodes[i])]
        at(l) == [i \in DOMAIN g.nodes |-> IF level[i] = l THEN <<g.nodes[i]>> ELSE <<>>]
    IN  [g EXCEPT !.nodes = FlattenSeq([l \in 1..(Len(g.nodes) + 1) |-> FlattenSeq(at(l - 1))])]

Sorted(g) == Toposort(Cleanup(g))

(* _MemoReach: the nodes on a way from the inputs to the outputs that does *)
(* not lead through another of the inputs.                                 *)
RECURSIVE Reaching(_, _, _, _)
Reaching(g, n, ins, outs) ==
    IF Range(n.out) \cap outs # {} THEN {n.id}
    ELSE LET next == UNION {Range(Consumers(g, t)) : t \in Range(n.out) \ ins}
             reached == UNION {Reaching(g, NodeIn(g, m), ins, outs) : m \in next}
         IN  IF reached = {} THEN {} ELSE reached \cup {n.id}

ReachableNodes(g, ins, outs) ==
    UNION {Reaching(g, NodeIn(g, m), ins, outs) : m \in UNION {Range(Consumers(g, t)) : t \in ins}}

(* The new node takes over the outputs; what lay between loses its own.    *)
ReplaceInsertNode(g, ins, outs, op, attrs) ==
    LET between == ReachableNodes(g, Range(ins), Range(outs))
        cut == [i \in DOMAIN g.nodes |->
                   IF g.nodes[i].id \in between THEN [g.nodes[i] EXCEPT !.out = <<>>] ELSE g.nodes[i]]
    IN  Sorted([g EXCEPT !.nodes = Append(cut, OpNode(NewNode(g), op, ins, outs, attrs))])

(* The readers of the node's output read its input; an output of the       *)
(* network that nobody reads becomes the input itself.                     *)
DeleteNode(g, id) ==
    LET n == NodeIn(g, id)
    IN  IF Consumers(g, n.out[1]) = <<>>
        THEN Cleanup([g EXCEPT !.outputs = Redirected(@, n.out[1], n.in[1])])
        ELSE LET rest == [g EXCEPT !.nodes = SelectSeq(@, LAMBDA m : m.id # id)]
             IN  Cleanup(Everywhere(rest, n.out[1], n.in[1]))

-----------------------------------------------------------------------------
(* A chain of nodes of the given types; only the last may have more than   *)
(* one reader.                                                             *)
RECURSIVE ChainFrom(_, _, _)
ChainFrom(g, id, ops) ==
    LET n == NodeIn(g, id)
        readers == Consumers(g, n.out[1])
    IN  IF n.op \notin Head(ops) \/ Len(n.out) > 1 THEN <<>>
        ELSE IF Len(ops) = 1 THEN <<id>>
        ELSE IF Len(readers) # 1 THEN <<>>
        ELSE LET rest == ChainFrom(g, readers[1], Tail(ops))
             IN  IF rest = <<>> THEN <<>> ELSE <<id>> \o rest

(* An addition whose two inputs come from nodes of the given types, or of  *)
(* any, seen from one of them; `after` is the type of its reader, if that  *)
(* matters.                                                                *)
AdditionFrom(g, id, sources, add, after) ==
    LET suits(n) == sources = {} \/ n.op \in sources
        single(n) == Cardinality({t \in Range(n.out) : Consumers(g, t) # <<>>}) = 1
        read(n) == Consumers(g, CHOOSE t \in Range(n.out) : Consumers(g, t) # <<>>)[1]
        fed(n) == SelectSeq(n.in, LAMBDA t : Produced(g, t))
        from == NodeIn(g, id)
        sum == NodeIn(g, read(from))
        others == {Producer(g, t).id : t \in Range(fed(sum))} \ {id}
        other == CHOOSE m \in others : TRUE
        result == NodeIn(g, read(sum))
    IN  IF /\ suits(from) /\ single(from)
           /\ sum.op = add /\ Len(fed(sum)) = 2 /\ others # {}
           /\ suits(NodeIn(g, other)) /\ single(NodeIn(g, other)) /\ NodeIn(g, other).in # <<>>
           /\ (after # {} => /\ single(sum)
                             /\ result.op \in after /\ Len(fed(result)) = 1)
        THEN <<id, sum.id, other>> \o (IF after = {} THEN <<>> ELSE <<result.id>>)
        ELSE <<>>

(* A pattern may also be all nodes of a type, however many tensors they    *)
(* return.                                                                 *)
MatchFrom(g, id, pattern) ==
    IF pattern.kind = "each" THEN (IF NodeIn(g, id).op = pattern.op THEN <<id>> ELSE <<>>)
    ELSE IF pattern.kind = "chain" THEN ChainFrom(g, id, pattern.ops)
    ELSE AdditionFrom(g, id, pattern.sources, pattern.add, pattern.after)

(* SubgraphMatcher.match: in the order of the graph, without overlap.      *)
Matches(g, pattern) ==
    LET accept(found, n) ==
            LET match == MatchFrom(g, n.id, pattern)
            IN  IF match = <<>> \/ \E m \in Range(found) : Range(m) \cap Range(match) # {}
                THEN found ELSE Append(found, match)
    IN  FoldLeft(accept, <<>>, g.nodes)
=============================================================================
