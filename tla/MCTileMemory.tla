---------------------------- MODULE MCTileMemory ----------------------------
(* Small networks and memories, for TileMemory. *)
EXTENDS TileMemory

WithScratch(op, ins, out, scratch) == [op |-> op, ins |-> ins, out |-> out, scratch |-> scratch]
Node(op, ins, out) == WithScratch(op, ins, out, <<>>)

(* sizes gives the buffers and their elements. *)
Network(nodes, inputs, outputs, sizes) ==
    [nodes |-> nodes, inputs |-> inputs, outputs |-> outputs, size |-> sizes]

(* Three levels in a row; constants in the home level, of which the first  *)
(* node reads "c" if there is one.                                         *)
Problem(net, home, tiler, allocator, capacity) ==
    [net |-> net, home |-> home, tiler |-> tiler, allocator |-> allocator,
     constants |-> [i \in DOMAIN net.nodes |-> {"c"} \cap (IF i = 1 THEN DOMAIN net.size ELSE {})],
     width |-> [t \in DOMAIN net.size |->
                    IF t \in {"a", "r"} THEN 4 ELSE IF t \in {"c", "y"} THEN 2 ELSE 1],
     neighbours |-> [L1 |-> {"L2"}, L2 |-> {"L1", "L3"}, L3 |-> {"L2"}],
     capacity |-> [l \in {"L1", "L2", "L3"} |-> IF l = "L1" THEN capacity ELSE 64]]

(* A constant, a reshape of an inner tensor and a transient buffer. *)
Inference == Network(
    <<Node("kernel", <<"x">>, "a"), Node("reshape", <<"a">>, "r"),
      WithScratch("kernel", <<"r">>, "y", <<"tmp">>)>>,
    <<"x">>, <<"y">>, [x |-> 3, a |-> 2, r |-> 2, y |-> 3, c |-> 3, tmp |-> 5])

(* The gradient is added to an input in place. *)
Training == Network(
    <<Node("kernel", <<"x">>, "a"), Node("accumulate", <<"g", "a">>, "o")>>,
    <<"x", "g">>, <<"o">>, [x |-> 3, a |-> 2, g |-> 2, o |-> 2])

(* The update of a weight in place. *)
Update == Network(<<Node("sgd", <<"w", "g">>, "u")>>, <<"w", "g">>, <<"u">>,
                  [w |-> 3, g |-> 3, u |-> 3])

MCProblems ==
    {Problem(Inference, "L2", tiler, allocator, 40) :
        tiler \in {"DBTiler", "SBTiler"}, allocator \in {"Tetris", "MiniMalloc"}}
    \cup {Problem(Training, "L2", "TrainingSBTiler", allocator, 20) :
              allocator \in {"Tetris", "MiniMalloc"}}
    \cup {Problem(Update, "L3", tiler, "Tetris", 24) : tiler \in {"DBOnlyL3Tiler", "Tiler"}}
    \cup {Problem(Update, "L3", "DBOnlyL3Tiler", "MiniMalloc", 16)}

(* A reshape of the network's input, which the next node reads. *)
ViewOfInput == Network(<<Node("reshape", <<"x">>, "r"), Node("kernel", <<"r">>, "y")>>,
                       <<"x">>, <<"y">>, [x |-> 3, r |-> 3, y |-> 3])

MCViewProblems ==
    {Problem(ViewOfInput, "L2", "SBTiler", allocator, 40) : allocator \in {"Tetris", "MiniMalloc"}}

(* Tiles of at most n elements. *)
MCTilings(P) ==
    {[i \in Nodes(P.net) |-> [t \in TiledTensors(P, i) |-> Min({n, P.net.size[t]})]] : n \in {1, 3}}
=============================================================================
