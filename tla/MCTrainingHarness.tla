------------------------- MODULE MCTrainingHarness -------------------------
(* Small networks and their deployments, for TrainingHarness. *)
EXTENDS TrainingHarness

Node(op, ins, out) == [op |-> op, ins |-> ins, out |-> out, scratch |-> <<>>]
Kernel(ins, out)   == Node("kernel", ins, out)
Reshape(t, out)    == Node("reshape", <<t>>, out)

(* An inference network from x to y; sizes gives the other sizes than 1. *)
InferenceNet(nodes, sizes) ==
    LET bufs == {"x"} \cup UNION {Touches(nodes[i]) \cup Range(nodes[i].scratch) :
                                      i \in DOMAIN nodes}
    IN  [nodes |-> nodes, inputs |-> <<"x">>, outputs |-> <<"y">>,
         size |-> [t \in bufs |-> IF t \in DOMAIN sizes THEN sizes[t] ELSE 1],
         role |-> [t \in bufs |-> IF t = "x" THEN "data" ELSE "inner"],
         \* a reshape holds what its input holds
         name |-> [t \in bufs |-> IF t \in {"r", "s"} THEN "a" ELSE t]]

(* A residual connection, and the same with a transient buffer. *)
ResidualWith(scratch) == InferenceNet(
    <<Kernel(<<"x">>, "a"), Kernel(<<"a">>, "b"),
      [Kernel(<<"a", "b">>, "c") EXCEPT !.scratch = scratch],
      Kernel(<<"c">>, "y")>>,
    [b |-> 2, tmp |-> 2])
Residual == ResidualWith(<<>>)

(* A node reads a tensor twice, and a view of it once more. *)
ReadTwice == InferenceNet(
    <<Kernel(<<"x">>, "a"), Reshape("a", "r"), Kernel(<<"a", "r", "a">>, "b"),
      Kernel(<<"b", "b">>, "y")>>, <<>>)

(* A reshape whose input is read later, after the reshape's last use. *)
ReshapeThenInput == InferenceNet(
    <<Kernel(<<"x">>, "a"), Reshape("a", "r"), Kernel(<<"r">>, "b"),
      Kernel(<<"b">>, "c"), Kernel(<<"a", "c">>, "y")>>, [c |-> 2])

(* A reshape that outlives its input. *)
ReshapeOutlives == InferenceNet(
    <<Kernel(<<"x">>, "a"), Reshape("a", "r"), Kernel(<<"a">>, "b"),
      Kernel(<<"b">>, "c"), Kernel(<<"r", "c">>, "y")>>, [a |-> 2, r |-> 2])

(* Input and output of a reshape die in the same node. *)
ReshapeBoth == InferenceNet(
    <<Kernel(<<"x">>, "a"), Reshape("a", "r"), Kernel(<<"a", "r">>, "b"),
      Kernel(<<"b">>, "y")>>, <<>>)

(* A chain of reshapes that outlives the tensor it starts from. *)
ReshapeChain == InferenceNet(
    <<Kernel(<<"x">>, "a"), Reshape("a", "r"), Reshape("r", "s"),
      Kernel(<<"a">>, "b"), Kernel(<<"b">>, "c"), Kernel(<<"s", "c">>, "y")>>,
    [c |-> 2])

(* A reshape of the network's input. *)
ReshapeInput ==
    LET N == InferenceNet(
            <<Reshape("x", "r"), Kernel(<<"r">>, "b"), Kernel(<<"r", "b">>, "c"),
              Kernel(<<"c">>, "y")>>, <<>>)
    IN  [N EXCEPT !.name["r"] = "x", !.role["r"] = "data"]

(* Two weights: forward, loss, backward and the accumulation of both *)
(* gradients; the first weight is last read at the first node.       *)
TrainingNet(bias) ==
    LET nodes == <<Kernel(<<"x", "w1">>, "h"), Kernel(<<"h", "w2">>, "p"),
                   Kernel(<<"p", "x">>, "loss"), Kernel(<<"p", "h">>, "d2"),
                   Node("accumulate", <<"g2", "d2", "rst">>, "o2"),
                   Kernel(<<"p", "w2">>, "e"), Kernel(<<"x", "e">>, "d1"),
                   Node("accumulate", <<"g1", "d1", "rst">>, "o1")>>
        bufs == UNION {Touches(nodes[i]) : i \in DOMAIN nodes}
    IN  [nodes |-> nodes,
         inputs |-> <<"x", "w1", "w2", "g1", "g2", "rst">>,
         outputs |-> <<"loss", "o1", "o2">>,
         size |-> [t \in bufs |-> IF t = "w2" THEN bias ELSE 1],
         role |-> [t \in bufs |-> IF t = "x" THEN "data"
                                  ELSE IF t \in {"w1", "w2"} THEN "weight"
                                  ELSE IF t \in {"g1", "g2"} THEN "grad"
                                  ELSE IF t = "rst" THEN "reset" ELSE "inner"],
         name |-> [t \in bufs |-> t]]

Optimizer ==
    LET bufs == {"v1", "a1", "v2", "a2", "u1", "u2"}
    IN  [nodes |-> <<Node("sgd", <<"v1", "a1">>, "u1"),
                     Node("sgd", <<"v2", "a2">>, "u2")>>,
         inputs |-> <<"v1", "a1", "v2", "a2">>,
         outputs |-> <<"u1", "u2">>,
         size |-> [t \in bufs |-> 1],
         role |-> [t \in bufs |-> IF t \in {"v1", "v2"} THEN "weight"
                                  ELSE IF t \in {"a1", "a2"} THEN "grad"
                                  ELSE "updated"],
         name |-> [t \in bufs |-> IF t \in {"v1", "u1"} THEN "w1"
                                  ELSE IF t \in {"v2", "u2"} THEN "w2"
                                  ELSE IF t = "a1" THEN "g1" ELSE "g2"]]

(* All orders of a short list; of a long one those that bring two blocks *)
(* of one network to the front.                                          *)
FirstTwo(list) == {p \in (DOMAIN list) \X (DOMAIN list) :
                      p[1] # p[2] /\ list[p[1]][1] = list[p[2]][1]}

MCOrders(list) ==
    IF Len(list) <= 6
    THEN {[k \in DOMAIN list |-> list[p[k]]] : p \in Permutations(DOMAIN list)}
    ELSE {<<list[p[1]], list[p[2]]>> \o
              SelectSeq(list, LAMBDA b : b \notin {list[p[1]], list[p[2]]}) :
          p \in FirstTwo(list)}

Deploy(kind, strategy0, net, opt, shared) ==
    [kind |-> kind, strategy |-> strategy0, shared |-> shared,
     nets |-> [w \in Net |-> IF w = "net" THEN net ELSE opt]]

AllShared == {"w1", "w2", "g1", "g2"}

MCDeployments ==
    {Deploy("inference", how, net, NoNetwork, {}) :
        how \in {"arena", "heap"},
        net \in {Residual, ReadTwice, ReshapeThenInput, ReshapeOutlives, ReshapeBoth,
                 ReshapeChain, ReshapeInput}}
    \cup {Deploy("inference", "heap", ResidualWith(<<"tmp">>), NoNetwork, {})}
    \cup {Deploy("training", how, TrainingNet(1), Optimizer, shared) :
        how \in {"arena", "heap"}, shared \in {AllShared, {"g1", "w2"}}}
    \* a broadcast bias is larger in the training network than in the optimiser
    \cup {Deploy("training", how, TrainingNet(2), Optimizer, {}) :
        how \in {"arena", "heap"}}
=============================================================================
