----------------------------- MODULE TileMemory -----------------------------
(***************************************************************************)
(* The tiler (TilerExtension.py with MemoryScheduler.py, TilerModel.py,    *)
(* MemoryConstraintFlows.py and MemoryLevels.py): it chooses the size of   *)
(* the tiles of every node, how many copies of a tile each memory level    *)
(* on the way from a tensor's home to L1 holds, and where in the arena of  *)
(* that level they lie.  Every node has an arena of its own in each level  *)
(* on the way; the tensors themselves share one arena in their home level. *)
(* All arenas of a level start at the same address: one node runs at a     *)
(* time.                                                                   *)
(*                                                                         *)
(* The constraint solver is not modelled, only what it may return: any     *)
(* admissible tiles, any order of the blocks of an arena in which it fits  *)
(* its level.                                                              *)
(*                                                                         *)
(* A problem is a record with the fields                                   *)
(*   net         the network, sizes in elements; its buffers contain the   *)
(*               constants, which no node writes                           *)
(*   constants   for each node the set of constants that it reads          *)
(*   width       the bytes of an element of each buffer                    *)
(*   home        the memory level of all tensors and constants             *)
(*   neighbours  for each memory level the levels next to it               *)
(*   capacity    the bytes of each memory level                            *)
(*   tiler       the class that decides on the copies                      *)
(*   allocator   "Tetris" (TetrisCo-Opt, TetrisRandom) or "MiniMalloc"     *)
(***************************************************************************)
EXTENDS TensorLifetimes, BlockPlacement

CONSTANTS
    Problems,    \* the networks and the memories they are tiled for
    Tilings(_)   \* bound: the tile sizes of a problem that are tried

Tilers == {"Tiler", "SBTiler", "DBTiler", "DBOnlyL3Tiler", "TrainingSBTiler"}

-----------------------------------------------------------------------------
(* The memory hierarchy. *)

TargetMemoryLevel == "L1"

Levels(P) == DOMAIN P.neighbours

(* MemoryLevel.__init__ and MemoryHierarchy._check. *)
HierarchyChecked(P) ==
    /\ P.capacity \in [Levels(P) -> Nat]
    /\ \A l \in Levels(P) : l \notin P.neighbours[l] /\ P.neighbours[l] \subseteq Levels(P)

(* bfs: a shortest way from one level to another. *)
Bfs(P, start, target) ==
    LET ways[n \in 0..Cardinality(Levels(P))] ==
            IF n = 0 THEN {<<start>>}
            ELSE UNION {{Append(way, l) : l \in P.neighbours[Last(way)] \ Range(way)} :
                            way \in ways[n - 1]}
        arriving == {way \in UNION Range(ways) : Last(way) = target}
    IN  CHOOSE way \in arriving : \A other \in arriving : Len(way) <= Len(other)

RequiredHops(P) == Range(Tail(Bfs(P, P.home, TargetMemoryLevel)))

-----------------------------------------------------------------------------
(* What is tiled. *)

(* The tensors with a tile in a node: those with a constraint in their home *)
(* level and one in the target level.                                       *)
TiledTensors(P, i) == Touches(P.net.nodes[i]) \cup P.constants[i]

Transients(P, i) == Range(P.net.nodes[i].scratch)

(* multiBufferStrategy of the five classes, for tensors; a transient buffer *)
(* has one copy.                                                            *)
MultiBufferStrategy(P, hop) ==
    IF \/ P.tiler \in {"SBTiler", "TrainingSBTiler"}
       \/ P.tiler = "DBOnlyL3Tiler" /\ hop = TargetMemoryLevel
    THEN 1 ELSE 2

(* A tile of at least one element for each tensor of each node, and the     *)
(* tile of an in-place operator's input for its output.                     *)
Admissible(P, tiling) ==
    /\ DOMAIN tiling = Nodes(P.net)
    /\ \A i \in Nodes(P.net) :
           LET node == P.net.nodes[i]
           IN  /\ DOMAIN tiling[i] = TiledTensors(P, i)
               /\ \A t \in TiledTensors(P, i) : tiling[i][t] \in 1..P.net.size[t]
               /\ node.op \in {"accumulate", "sgd"} =>
                      tiling[i][node.out] = tiling[i][node.ins[1]]

(* TilerDeployerWrapper.tile and the annotation passes: one home level.     *)
Tileable(P) ==
    LET N == P.net
        constants == UNION Range(P.constants)
    IN  /\ WellFormed(N)
        /\ DOMAIN P.constants = Nodes(N)
        /\ constants \subseteq Buffers(N)
        /\ P.width \in [Buffers(N) -> Nat \ {0}]
        /\ constants \cap (Range(N.inputs) \cup Produced(N, Len(N.nodes))) = {}
        /\ \A i \in Nodes(N) : Transients(P, i) \cap UNION {TiledTensors(P, j) : j \in Nodes(N)} = {}
        /\ HierarchyChecked(P)
        /\ TargetMemoryLevel \in Levels(P)
        /\ P.home \in Levels(P) \ {TargetMemoryLevel}
        /\ RequiredHops(P) \subseteq Levels(P) \ {P.home}
        /\ P.tiler \in Tilers
        /\ P.allocator \in {"Tetris", "MiniMalloc"}

ASSUME ProblemsAssumption == \A P \in Problems : Tileable(P)
ASSUME TilingsAssumption == \A P \in Problems : \A tiling \in Tilings(P) : Admissible(P, tiling)

-----------------------------------------------------------------------------
(* The blocks: <<i, level, t>> for a tile of t in node i, and <<0, home, t>> *)
(* for t itself.                                                             *)

byteAlignment == 4
Aligned(bytes) == ((bytes + byteAlignment - 1) \div byteAlignment) * byteAlignment

BlockIds(P) ==
    {<<0, P.home, t>> : t \in Blocks(P.net)}
    \cup (UNION {{<<i, level, t>> : level \in RequiredHops(P), t \in TiledTensors(P, i)} :
                     i \in Nodes(P.net)})
    \cup (UNION {{<<i, TargetMemoryLevel, t>> : t \in Transients(P, i)} : i \in Nodes(P.net)})

IsHome(b) == b[1] = 0
IsTransient(P, b) == b[1] # 0 /\ b[3] \in Transients(P, b[1])

(* The copies of what a block holds, and the bytes of one copy. *)
Coefficient(P, b) ==
    IF IsHome(b) \/ IsTransient(P, b) THEN 1 ELSE MultiBufferStrategy(P, b[2])

CopyBytes(P, tiling, b) ==
    IF IsTransient(P, b) THEN P.net.size[b[3]]
    ELSE IF IsHome(b) THEN P.net.size[b[3]] * P.width[b[3]]
    ELSE tiling[b[1]][b[3]] * P.width[b[3]]

(* Mutant of WordCost: each copy is rounded down to words. *)
RoundedDown(P, tiling, b) ==
    (CopyBytes(P, tiling, b) \div byteAlignment) * byteAlignment * Coefficient(P, b)

(* Mutant of WordCost: the copies are rounded together. *)
RoundedTogether(P, tiling, b) == Aligned(CopyBytes(P, tiling, b) * Coefficient(P, b))

(* _buildCostVector rounds each copy to words, minimalloc all of them.      *)
WordCost(P, tiling, b) ==
    IF P.allocator = "Tetris"
    THEN Aligned(CopyBytes(P, tiling, b)) * Coefficient(P, b)
    ELSE Aligned(CopyBytes(P, tiling, b) * Coefficient(P, b))

(* The tensors in the same list of blocks. *)
ListOf(P, b) ==
    IF IsHome(b) THEN Blocks(P.net) ELSE TiledTensors(P, b[1]) \cup Transients(P, b[1])

(* Mutant of StepOf: the step after the last one counts as well. *)
OneStepMore(N, b) == Life(b[1] - 1, b[1] + 1)

(* A node has one step; an output of the network is kept to the next one.  *)
StepOf(N, b) ==
    Life(b[1] - 1, IF IsOutput(N, b[3]) THEN b[1] ELSE b[1] - 1)

(* The lifetimes in the home level, by the scheduler of the tiler's class.  *)
HomeLifetimes(P) ==
    DealiasLifetimes(P.net, IF P.tiler = "TrainingSBTiler" THEN TrainingLifetimes(P.net)
                            ELSE CalculateLifetimes(P.net))

(* The block of a tile: an in-place output costs nothing and takes the     *)
(* address of its input, if that has a tile in the same node.              *)
InnerBlock(P, tiling, b) ==
    LET life == StepOf(P.net, b)
        alias == HasAlias(P.net, b[3]) /\ AliasOf(P.net, b[3]) \in ListOf(P, b)
    IN  [arena |-> <<b[1], b[2]>>, first |-> life.first, last |-> life.last,
         cost |-> IF alias THEN 0 ELSE WordCost(P, tiling, b), resolved |-> alias]

HomeBlock(P, tiling, lives, b) ==
    [arena |-> <<0, P.home>>, first |-> lives[b[3]].first, last |-> lives[b[3]].last,
     cost |-> IF CostOf(P.net, lives, b[3]) = 0 THEN 0 ELSE WordCost(P, tiling, b),
     resolved |-> Resolved(P.net, lives, b[3])]

-----------------------------------------------------------------------------
VARIABLES
    problem,    \* the one of Problems that is solved
    tile,       \* the elements of the tile of each tensor, by node
    closed,     \* the arenas that are placed
    stage,      \* "place", "done" or "refused"
    arenaSize   \* the size of the arena of each level

tileVars == <<problem, tile, closed, stage, arenaSize, placementVars>>

(* The constants lie in the home level, before its arena. *)
ConstantBytes(P, level) ==
    IF level = P.home
    THEN MapThenSumSet(LAMBDA t : P.net.size[t] * P.width[t], UNION Range(P.constants))
    ELSE 0

(* getConstantTensorOffset: what the constants leave of a level. *)
Room(level) == problem.capacity[level] - ConstantBytes(problem, level)

(* constraintTileBuffersWithOverlappingLifetime, without which MiniMalloc   *)
(* is not tried: the tiles of a node fit their level when they are not      *)
(* rounded.  The table is keyed by the tensor: of all hops it keeps L1.     *)
TileSumFits ==
    \A i \in Nodes(problem.net) :
        LET bytes(t) == CopyBytes(problem, tile, <<i, TargetMemoryLevel, t>>)
                            * Coefficient(problem, <<i, TargetMemoryLevel, t>>)
        IN  MapThenSumSet(bytes, TiledTensors(problem, i) \cup Transients(problem, i))
            <= Room(TargetMemoryLevel)

TileInit ==
    /\ problem \in Problems
    /\ tile \in Tilings(problem)
    /\ problem.allocator = "MiniMalloc" => TileSumFits
    /\ \E lives \in {HomeLifetimes(problem)} :
           block = [b \in BlockIds(problem) |->
                       IF IsHome(b) THEN HomeBlock(problem, tile, lives, b)
                       ELSE InnerBlock(problem, tile, b)]
    /\ PlacementInit
    /\ closed = {}
    /\ stage = "place"
    /\ arenaSize = [level \in Levels(problem) |-> 0]

(* The arenas are independent: they are taken one after the other. *)
CurrentArena == CHOOSE a \in Arena : a \notin closed

InCurrent == {b \in Block : block[b].arena = CurrentArena}

Placing(b) ==
    /\ stage = "place" /\ closed # Arena
    /\ b \in InCurrent \ placed
    /\ UNCHANGED <<problem, tile, closed, stage, arenaSize>>

(* annotateSolution takes the blocks in the order of the permutation. *)
PlaceTile(b) ==
    /\ problem.allocator = "Tetris"
    /\ Placing(b)
    /\ PlaceBlock(b)

(* MiniMalloc puts a block on the ground or on another one, where no block  *)
(* of the same steps is in the way; a block that shares the memory of       *)
(* another one is not handed to it.                                         *)
Grounds(b) == {0} \cup {addrSpace[c].hi : c \in Obstacles(b)}

FreeAt(b, lo) ==
    /\ lo + block[b].cost <= Room(block[b].arena[2])
    /\ \A c \in Obstacles(b) : addrSpace[c].hi <= lo \/ lo + block[b].cost <= addrSpace[c].lo

AllocateTile(b) ==
    /\ problem.allocator = "MiniMalloc"
    /\ Placing(b)
    /\ IF block[b].resolved
       THEN UNCHANGED <<height, addrSpace>>
       ELSE \E lo \in Grounds(b) :
                /\ FreeAt(b, lo)
                /\ height' = [height EXCEPT ![b] = lo + block[b].cost]
                /\ addrSpace' = [addrSpace EXCEPT ![b] = [lo |-> lo, hi |-> lo + block[b].cost]]
    /\ placed' = placed \cup {b}
    /\ UNCHANGED block

(* _scheduleMemoryConstraints: the cost of the arena beside the constants. *)
FitsLevel(level, cost) == cost + ConstantBytes(problem, level) < problem.capacity[level]

ArenaFits ==
    problem.allocator = "Tetris" =>
        \A b \in InCurrent : FitsLevel(block[b].arena[2], height[b])

CloseArena ==
    /\ stage = "place" /\ closed # Arena
    /\ InCurrent \subseteq placed
    /\ ArenaFits
    /\ closed' = closed \cup {CurrentArena}
    /\ UNCHANGED <<problem, tile, stage, arenaSize, placementVars>>

(* No solution: the arena does not fit, or MiniMalloc finds no address.     *)
Refuse ==
    /\ stage = "place" /\ closed # Arena
    /\ \/ InCurrent \subseteq placed /\ ~ ArenaFits
       \/ /\ problem.allocator = "MiniMalloc"
          /\ \E b \in InCurrent \ placed :
                 ~ block[b].resolved /\ \A lo \in Grounds(b) : ~ FreeAt(b, lo)
    /\ stage' = "refused"
    /\ UNCHANGED <<problem, tile, closed, arenaSize, placementVars>>

(* Mutant of Uncounted: any view. *)
AnyView(b) == HasAlias(problem.net, b[3])

(* _convertCtxtToStaticSchedule leaves out the views of a global buffer and *)
(* of a buffer of the same list.                                            *)
Uncounted(b) ==
    /\ HasAlias(problem.net, b[3])
    /\ LET source == AliasOf(problem.net, b[3])
       IN  IsGlobal(problem.net, source) \/ source \in ListOf(problem, b)

Convert ==
    /\ stage = "place" /\ closed = Arena
    /\ \E sizes \in [Levels(problem) -> {0} \cup {addrSpace[b].hi : b \in Block}] :
           /\ \A level \in Levels(problem) :
                  Greatest(sizes[level],
                           {0} \cup {addrSpace[b].hi :
                               b \in {c \in Block : c[2] = level /\ ~ Uncounted(c)}})
           /\ arenaSize' = sizes
    /\ stage' = "done"
    /\ UNCHANGED <<problem, tile, closed, placementVars>>

TileNext ==
    \/ \E b \in Block : PlaceTile(b) \/ AllocateTile(b)
    \/ CloseArena
    \/ Refuse
    \/ Convert

TileSpec == TileInit /\ [][TileNext]_tileVars

-----------------------------------------------------------------------------
(* The blocks as the generated code uses them. *)

(* getBaseAddr, _hoistMultibufferReferences *)
BufferSize(b) == (addrSpace[b].hi - addrSpace[b].lo) \div Coefficient(problem, b)

Copies(b) == 0..(Coefficient(problem, b) - 1)
CopyStart(b, k) == addrSpace[b].lo + k * BufferSize(b)
CopyEnd(b, k) == CopyStart(b, k) + CopyBytes(problem, tile, b)

-----------------------------------------------------------------------------
TileTypeOK ==
    /\ problem \in Problems
    /\ tile \in Tilings(problem)
    /\ block \in [BlockIds(problem) ->
                     [arena : {<<i, level>> : i \in 0..Len(problem.net.nodes),
                                              level \in Levels(problem)},
                      first : 0..Len(problem.net.nodes), last : 0..Len(problem.net.nodes),
                      cost : Nat, resolved : BOOLEAN]]
    /\ placed \subseteq Block
    /\ height \in [Block -> Nat]
    /\ addrSpace \in [Block -> [lo : Nat, hi : Nat]]
    /\ closed \subseteq Arena
    /\ stage \in {"place", "done", "refused"}
    /\ arenaSize \in [Levels(problem) -> Nat]

(* A kernel and a transfer write the copy of a tile they were given and    *)
(* nothing else: the copies of all tiles of a node, and the tensors in     *)
(* their home level that are alive together, are disjoint, each as long as *)
(* its tile (getBaseAddr splits the block of the scheduler again, whose    *)
(* length comes from another place for each allocator).                    *)
TilesApart ==
    \A a, b \in Block : \A j \in Copies(a), k \in Copies(b) :
        /\ Located(a) /\ Located(b)
        /\ IF a = b THEN j # k ELSE Interferes(a, b)
        => CopyEnd(a, j) <= CopyStart(b, k) \/ CopyEnd(b, k) <= CopyStart(a, j)

(* The transfers and kernels use word accesses: every copy starts on a     *)
(* word.  MiniMalloc does not promise it for two copies.                   *)
WordAligned ==
    \A b \in Block : \A k \in Copies(b) :
        Located(b) /\ (problem.allocator = "Tetris" \/ Coefficient(problem, b) = 1)
        => CopyStart(b, k) % byteAlignment = 0

(* The arena that is allocated for a level is as large as the addresses    *)
(* that were given out in it.                                              *)
ArenaCovers ==
    stage = "done" =>
        \A b \in Block : Located(b) => addrSpace[b].hi <= arenaSize[b[2]]

(* What is allocated fits: the arena of a level holds every block that was *)
(* given an address there, and fits the level beside the constants.        *)
ArenaSound ==
    /\ ArenaCovers
    /\ stage = "done" =>
           \A level \in Levels(problem) : arenaSize[level] <= Room(level)
=============================================================================
