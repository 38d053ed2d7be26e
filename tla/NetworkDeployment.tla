------------------------- MODULE NetworkDeployment -------------------------
(***************************************************************************)
(* A network on its way through the front end of the deployer: its graph   *)
(* is cleaned up, the passes rewrite it match by match, and a node of what *)
(* comes out is handed to the parsers and deployed as TiledOperator has    *)
(* it.  A deployment may also start with a node of any other network.      *)
(***************************************************************************)
EXTENDS TiledOperator

P == INSTANCE OptimizationPasses
W == INSTANCE NetworkMeaning
L == INSTANCE LayerShapes

CONSTANT Networks

VARIABLES graph,      \* the nodes, the tensors and the outputs of the network
          pass,       \* the number of the pass that runs
          matches,    \* the matches it has still to replace
          exported    \* what the network meant when it was exported

network == <<graph, pass, matches, exported>>
vars == <<nodeVars, network>>

Init ==
    \/ /\ NodeInit
       /\ graph = <<>> /\ pass = 0 /\ matches = <<>> /\ exported = <<>>
    \/ /\ graph \in Networks
       /\ pass = 0 /\ matches = <<>>
       /\ exported = W!MeaningOfNetwork(graph)
       /\ node = <<>> /\ meant = <<>>
       /\ Start("import")

-----------------------------------------------------------------------------
(* frontEnd *)

RemoveIdentityNodes(g) ==
    FoldLeft(LAMBDA h, n : IF n.op = "Identity" THEN P!DeleteNode(h, n.id) ELSE h, g, g.nodes)

(* Mutant of DuplicateConstants: constants stay shared. *)
StillShared(g) == g

(* A constant that several nodes read is copied for each of them.          *)
DuplicateConstants(g) ==
    LET shared == {t \in DOMAIN g.tensors : P!IsConstant(g, t) /\ Len(P!Consumers(g, t)) > 1}
        reads == {<<i, j>> \in (DOMAIN g.nodes) \X (1..Max({Len(n.in) : n \in Range(g.nodes)})) :
                     j \in DOMAIN g.nodes[i].in /\ g.nodes[i].in[j] \in shared}
        order == SetToSeq(reads)
        copy(r) == P!NewTensor(g) + (CHOOSE c \in DOMAIN order : order[c] = r)
        in(i) == [j \in DOMAIN g.nodes[i].in |->
                     IF <<i, j>> \in reads THEN copy(<<i, j>>) ELSE g.nodes[i].in[j]]
    IN  [g EXCEPT !.nodes = [i \in DOMAIN @ |-> [@[i] EXCEPT !.in = in(i)]],
                  !.tensors = [t \in {copy(r) : r \in reads} |->
                                  LET r == order[t - P!NewTensor(g)]
                                  IN  g.tensors[g.nodes[r[1]].in[r[2]]]] @@ @]

(* Nodes of ONNX whose inputs are constants are computed at once.          *)
FoldedOps == {"Transpose", "Reshape", "Add", "Mul", "Concat"}
RECURSIVE FoldConstants(_)
FoldConstants(g) ==
    LET constant(n) == n.op \in FoldedOps /\ \A t \in Range(n.in) : P!IsConstant(g, t)
        found == {i \in DOMAIN g.nodes : constant(g.nodes[i])}
        n == g.nodes[Min(found)]
        value == P!Constant(g.tensors[n.out[1]].shape, W!ValueOf(g, n.out[1]))
    IN  IF found = {} THEN g
        ELSE FoldConstants(P!WithTensor([g EXCEPT !.nodes = SelectSeq(@, LAMBDA m : m.id # n.id)],
                                        n.out[1], value))

Preprocess ==
    /\ phase = "import"
    /\ graph' = P!Sorted(FoldConstants(P!Sorted(DuplicateConstants(RemoveIdentityNodes(graph)))))
    /\ phase' = "optimize"
    /\ UNCHANGED <<pass, matches, exported, node, meant, mapper, parsed, plan, k, ext, home, middle, local>>

-----------------------------------------------------------------------------
(* lower: each pass finds its matches in the graph as it is and replaces   *)
(* one after the other.                                                    *)
Lowering == phase = "optimize" /\ pass < Len(P!Passes)
Lowered == phase = "optimize" /\ pass = Len(P!Passes) /\ matches = <<>>

StartPass ==
    /\ Lowering /\ matches = <<>>
    /\ pass' = pass + 1
    /\ matches' = P!Matches(graph, P!Passes[pass'].pattern)
    /\ UNCHANGED <<graph, exported, nodeVars>>

ReplaceMatch ==
    /\ phase = "optimize" /\ matches # <<>>
    /\ \E replaced \in {P!Replacement(P!Passes[pass].name, graph, Head(matches))} :
          IF P!Crashed(replaced)
          THEN /\ phase' = "refused"
               /\ UNCHANGED <<graph, matches>>
          ELSE /\ graph' = IF Len(matches) = 1 THEN P!Sorted(replaced) ELSE replaced
               /\ matches' = Tail(matches)
               /\ UNCHANGED phase
    /\ UNCHANGED <<pass, exported, node, meant, mapper, parsed, plan, k, ext, home, middle, local>>

(* A node of the graph as the parsers see it; it runs in its home memory.  *)
AsNode(g, n) ==
    [op |-> n.op, attrs |-> n.attrs,
     inputs |-> [i \in DOMAIN n.in |-> g.tensors[n.in[i]].shape],
     outputs |-> [i \in DOMAIN n.out |-> g.tensors[n.out[i]].shape],
     width |-> 1, kind |-> g.kind,
     channels_first |-> "channels_first" \in DOMAIN n.attrs => n.attrs.channels_first,
     tiles |-> {}, path |-> <<>>]

DeployedOps == ElementOps \cup MoveOps \cup PoolOps \cup MatrixOps \cup WindowOps \cup ConvGradOps

(* A layer gives its tensors their shapes; constants grow to them.         *)
Grown(tensor, s) ==
    [shape |-> s,
     values |-> IF tensor.values = <<>> \/ Prod(s) = Prod(tensor.shape) THEN tensor.values
                ELSE [e \in 1..Prod(s) |-> tensor.values[L!Repeated(tensor.shape, s, e - 1) + 1]] \o <<>>]

BroadcastLayer(g, n, shapes) ==
    LET old(t) == g.tensors[t]
        ins == [t \in Range(n.in) |-> Grown(old(t), shapes.in[CHOOSE i \in DOMAIN n.in : n.in[i] = t])]
        outs == [t \in Range(n.out) |-> Grown(old(t), shapes.out[CHOOSE i \in DOMAIN n.out : n.out[i] = t])]
    IN  [g EXCEPT !.tensors = outs @@ ins @@ @]

Fitting(g, n, shapes) ==
    /\ shapes # L!NoShapes
    /\ \A i \in DOMAIN n.in :
          P!IsConstant(g, n.in[i]) => L!Grows(g.tensors[n.in[i]].shape, shapes.in[i])

HandOver ==
    /\ Lowered
    /\ \E i \in DOMAIN graph.nodes :
          LET n == graph.nodes[i]
              shapes == L!ComputeShapes(AsNode(graph, n))
          IN  /\ n.op \in DeployedOps
              /\ IF Fitting(graph, n, shapes)
                 THEN /\ graph' = BroadcastLayer(graph, n, shapes)
                      /\ node' = AsNode(graph', n)
                      /\ meant' = MeaningOf(node')
                      /\ phase' = "parse"
                 ELSE phase' = "refused" /\ UNCHANGED <<graph, node, meant>>
    /\ UNCHANGED <<pass, matches, exported, mapper, parsed, plan, k, ext, home, middle, local>>

Next ==
    \/ Preprocess \/ StartPass \/ ReplaceMatch \/ HandOver
    \/ NodeNext /\ UNCHANGED network

Spec == Init /\ [][Next]_vars

-----------------------------------------------------------------------------
(* After every replacement, even in the middle of a pass, and with the     *)
(* shapes its layers give, the network returns for the same input what it  *)
(* returned when it was exported.                                          *)
PassesKeepMeaning ==
    graph # <<>> /\ phase \in {"import", "optimize", "parse"} => W!MeaningOfNetwork(graph) = exported

(* What is computed is what was exported: through the passes and, when a   *)
(* node is done, to the last byte of each of its outputs.                  *)
DeploymentExact == PassesKeepMeaning /\ OutputsExact
=============================================================================
