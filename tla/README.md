# TLA+ specifications of Deeploy

Deeploy compiles an ONNX graph into C code for microcontrollers and small
accelerator clusters. These specifications model both halves of it:

- the **generated program**, which is concurrent: while a kernel works on one tile
  of a tensor, a DMA engine loads the next tile and stores the previous result, and
  on some targets several cores run the same code and meet only at barriers;
- the **compiler**, a sequential Python program of many passes whose results must fit
  together: rewrites of the graph, a backtracking search for kernels, tiles chosen by
  a constraint solver and cut out of tensors by geometry, memory planned from
  lifetimes, and allocation code emitted from the same lifetimes by other code.

They are written from the Python classes, the code templates and the C sources, and
check and prove what those parts must guarantee.

All source paths below are relative to `src/`. `PROJECT.json` maps each
definition to the lines it stands for; comments in the modules name the
statements, with the numbers the generators use in their own comments.

- [Inventory](#inventory)
- [Plan](#plan)
- [What is modelled](#what-is-modelled)
- [Runs](#runs)
- [Disagreements with the source's own claims](#disagreements-with-the-sources-own-claims)
- [What the instances leave out because the code is wrong there](#what-the-instances-leave-out-because-the-code-is-wrong-there)
- [Fairness](#fairness)
- [Proofs](#proofs)
- [Abstractions](#abstractions)
- [Not modelled](#not-modelled)
- [Running it](#running-it)

## Inventory

### Components of the generated program

| component | where | state | operations |
|---|---|---|---|
| Asynchronous DMA and futures | `Deeploy/TilingExtension/AsyncDma.py`, `Targets/*/DMA` | the channel each future names, the channels in use, transfers in flight, what is in the local buffers and in external memory | allocate a future, issue a transfer, wait on a future, a transfer completes |
| Tile loop, shared part | `TilingExtension/CodeTransformationPasses/TilingCodeGeneration.py`, `TilingHoistingMixIn.py` | the tile index `*tileIdxPtr`, `TILING_I`, the moving references into external memory, the current local references | enter and leave the closure, move a reference, choose a buffer |
| Double buffering | `DoubleBufferingTilingCodeGeneration.py` | the buffer the next tile is loaded into | load the first tile, wait for inputs, prefetch, kernel, wait for the previous output, store, drain |
| Single buffering | `SingleBufferingTilingCodeGeneration.py` | none of its own | load, wait, kernel, store, wait |
| Weight-gradient accumulation | `Targets/PULPOpen/Templates/FloatConvGradTemplate.py`, `TileConstraints/ConvGradConstraint.py` | the accumulator in the output buffer | reset or keep the partial sum |
| MCHAN driver and commands | `TargetLibraries/PULPOpen/inc/mchan_v7.h`, `Targets/PULPOpen/DMA/MchanDma.py`, `Targets/GAP9/DMA/MchanDma.py` | command queue, channel status, the buffered event | build and push a command, split a long transfer, poll, sleep, wake |
| L3 driver loop | `Targets/PULPOpen/CodeTransformationPasses/PULPL3Tiling.py` | L2 tiles | move an L2 tile, call the L1 closure |
| Snitch cluster execution | `Targets/Snitch/CodeTransformationPasses/`, `Targets/Snitch/DMA/SnitchDma.py`, `DeeployTest/Platforms/Snitch/main.c` | the position of every core, the barrier | core filter, barrier, data-movement statements, kernel shares |
| Kernels | `Targets/*/Templates`, `TargetLibraries/` | none across calls, except accumulators | read and write elements, each core its chunk |
| Network program | `RunNetwork`, `RunTrainingNetwork` as emitted, `DeeployTest/Platforms/Siracusa/src/deeploytraintest.c`, `deeploytest.c` | arenas or heap, the pointers of all buffers, gradient accumulators, the lazy-reset flag, weights | allocate, free, run a node, load a mini-batch, store the loss, optimiser step |

The parts interact through calls and shared memory. The tile loop calls the DMA
through a future: `alloc` names a channel, `transfer` pushes commands on it,
`wait` blocks until it has drained and gives it back. The kernel and the DMA
share the local buffers without a lock: only the order of the loop's statements
keeps them apart. An L3 loop calls the L1 closure once per tile; they share
`*tileIdxPtr` and the L2 buffers. On Snitch the data-movement core and the
compute cores share the local buffers and a hardware barrier that merely counts
arrivals. The nodes of a network share one arena (or heap) whose layout no node
checks, and the two networks of a training deployment share weights and gradients
by pointers patched together by the test generator.

What is hard here: transfers finish in any order; one wait covers several
tensors; statements that belong together (take a channel, give it back; prefetch
a tile, wait for it) are emitted far apart and under different conditions; the
meaning of a counter depends on which memory levels a node uses; a field of a
command word is full at one exact size; cores follow different paths through the
same code and must meet at the same barriers; memory that one pass declares dead is
reused by code another pass emits.

### Components of the compiler

| component | where | state | operations | what makes it correct |
|---|---|---|---|---|
| Graph passes | `Targets/Generic/TopologyOptimizationPasses`, `Targets/PULPOpen/TopologyOptimizationPasses`, `CommonExtensions/OptimizationPasses` | the graph, the matches still to be replaced | clean up, match, replace, delete | the network computes what it did |
| Parsing, typing and binding | `Deeploy/DeeployTypes.py` (`NetworkContainer.parse`), `Targets/*/Parsers.py`, `Layers.py` | the context and its copies, the discarded mappers and binders | try a mapper, try a binding, backtrack | the search finds the preferred consistent mapping, and leaves nothing of what it tried behind |
| Tiler, tile constraints | `TilingExtension/TilerExtension.py`, `Targets/*/TileConstraints` | the constraint model | add constraints, pick a solution, serialise it into cubes | the cubes of a solution are the ones the kernel needs, and what is told to the kernel is true of each |
| Tile geometry | `TilingExtension/TilingCodegen.py`, `AsyncDma.py` | none | cut, minimise, offsets, strides | tiles cover a tensor exactly once; offsets lead from tile to tile |
| Memory scheduler | `TilingExtension/MemoryScheduler.py`, `MemoryConstraintFlows.py`, `DeeployTest/testUtils/tilingUtils.py` | lifetimes, interference, the cost vector | compute lifetimes, resolve aliases, place blocks | what is alive is not overwritten |
| Memory management code | `CommonExtensions/CodeTransformationPasses/MemoryAllocation.py` | the `_live` flags, the size accounting | emit allocations and releases around a node | buffers are allocated before, and freed after, every use, also through aliases |
| Training generator | `DeeployTest/testUtils/codeGenerateTraining.py` | the buffers shared by the two networks | patch the optimiser's buffers | an update reaches the weights the training network reads |
| Memory of the tiles | `TilingExtension/TilerExtension.py`, `MemoryScheduler.py`, `TileConstraint.py`, `MemoryLevelExtension` | the arenas of all levels | find the levels on the way, count the copies, round to words, place, or hand to MiniMalloc, size the arenas | the copies a loop alternates between are disjoint, on words, and inside what is allocated |
| Engine colouring, futures of engines, data types, test harness | see `PROJECT.json` | | static annotations and drivers without hard behaviour | |

The parts hand each other data structures with implicit contracts: a pass relies on
what earlier passes leave, a parser on the attributes a pass writes, a tile constraint
on the numbers a parser writes and the kernel on both; the memory planner and the
allocation code each derive the lifetime of a buffer on their own.

`PROJECT.json` lists every component with its status, and every hazard with the
line where it bites and the properties that cover it.

## Plan

The order is by how much depends on a part and how hard it is to test. Steps 1 to 10
are done.

1. `AsyncDma`, `TilingLoop`, `DoubleBuffering`: the core. Abstract specification
   `TileStream`: each output receives its tiles in order, once, in place.
2. `SingleBuffering`, sharing the first two and implementing the same
   `TileStream`; weight gradients and the L3 driver as parameters of both.
3. The proofs about both loops: types, no stale input, no race, channels accounted
   for, complete outputs, and the safety part of the refinement.
4. `MchanTransfer` and `MchanProofs`: what a transfer and a wait of `AsyncDma` are
   on the PULP targets.
5. `SnitchCluster` and its proofs: `DoubleBuffering` composed with compute cores and
   barriers.
6. Memory: lifetimes (`TensorLifetimes`), the plan (`BlockPlacement` and its proof),
   the emitted code (`MemoryManagement`), executed (`NetworkRuntime`) in the training
   loop with its accumulation and its optimiser (`TrainingHarness`); the proofs about all of it.
7. The mapping search (`MappingSearch`) against a reference definition of a
   consistent mapping.
8. Tile geometry, parsers, tile constraints and kernels of the operators, executed
   node by node (`TiledOperator`) against what the operators mean (`OperatorMeaning`).
9. The graph passes (`OptimizationPasses`) in front of step 8, against what a network
   means (`NetworkMeaning`); `OperatorPromise` is the abstract specification of both.
10. The memory of the tiles (`TileMemory`): what step 6 does for tensors in their home level,
    for their tiles in the levels below.
11. Left: single buffering and several nodes in a row on Snitch; the L3 loop
    composed with the L1 loop as two instances; the blocking adapter; repeated
    execution of a tiled node (static flags in kernels); barriers inside PULP kernels;
    tiling of several nodes at once, and tensors with different home levels; the passes
    and operators of the other targets.

Theorems still worth proving: that the cubes of `computeTileHyperRectangles` cover a tensor
(on the way of `NaturalLemmas!Recursion`, below); `InputsIntact` and `ResultsExact` of
deployments on a heap, from `HeapInv` and what `RunContent` says of an arena.

## What is modelled

```
AsyncDma            futures, channels, transfers, memories
  TilingLoop        closure, tile index, references, kernel
    DoubleBuffering     ----- implements TileStream
      SnitchCluster         DM core + compute cores + barriers
      DoubleBufferingProofs   both
    SingleBuffering     ----- implements TileStream
      SingleBufferingProofs
MchanTransfer       one batch of AsyncDma's transfers, as MCHAN commands
  MchanProofs

NetworkGraph        schedule, users, aliases
  TensorLifetimes   liveness, lifetimes, memory blocks
  MemoryManagement  allocation code, emitted
    NetworkRuntime  ... and executed
BlockPlacement      addresses for the blocks
    TrainingHarness = TensorLifetimes + BlockPlacement + NetworkRuntime + the C harness
      DeploymentProofs        the plan, the program and the tiles
        TrainingHarnessProofs     the run in arenas
          HeapProofs                the run on a heap
    TileMemory      = TensorLifetimes + BlockPlacement, for the levels of the tiles

MappingSearch       NetworkContainer.parse
  MappingSearchProofs

NaturalLemmas       least and greatest elements, induction and recursion on naturals,
                    finite sums, for the proofs of the compiler

TileGeometry, NodeParsers
  ElementOperators  what constraints and kernels share; elements and rows
    MoveOperators ChannelOperators MatrixOperators
    WindowOperators ConvGradOperators
      OperatorLibrary   mappers per operator
        TiledOperator   one node, from the parser to its last byte;
                        compared with OperatorMeaning
          NetworkDeployment   ----- implements OperatorPromise
            NetworkRewriting, OptimizationPasses, LayerShapes;
            compared with NetworkMeaning
```


### AsyncDma

Tensors are numbered in the order of a node's load schedules, inputs first. The
data are tile numbers: an input buffer holds the number of the rectangle loaded
into it, an output buffer and an external rectangle the set of tiles whose results
are there. `Junk` is a tile that does not exist.

`FutureOf(t)` is `getFuture`: with `"Direction"` (MCHAN) all loads share a future
and all stores share another; with `"PerTensor"` (Snitch, L3) each tensor has its
own. `AllocFor` is the allocation the code emits for the first tensor that uses a
future; it blocks while no channel is free. `Issue` starts a transfer; from then on
the destination of a load is `Junk`. `WaitFuture` blocks while a transfer is
counted on the future's channel, then frees the channel; a future that was never
allocated (-1) is skipped. `CompleteTransfer` picks any transfer in flight: the
order of completion is not assumed. A store reads its buffer when it completes, so
a kernel that overwrites the buffer too early corrupts the result.

### TilingLoop

`numTiles` is the array hoisted by `_hoistTileNumAndIdxPtr`: `{0, total}` for a node
that is called once, `{0, 1, ..., total}` when an L3 tensor makes an outer driver
call the closure once per tile. `L3Tensor` is the set of tensors with a constraint
in L3; an L3 tensor's L2 buffer holds just the tile of this call, so its rectangle
is chosen by `tileIdx`. `extRef` models the references advanced by relative offsets:
it counts updates, and no update is emitted when no offset changes (`t \notin
Tiled`). `RunKernel` produces tile `i`'s result if every current input buffer holds
tile `i`, and `Junk` otherwise. With `Accumulates`, the kernel is a weight gradient:
it is reset when `*tileIdxPtr == 0` and adds to its output otherwise.

### DoubleBuffering and SingleBuffering

One action per statement group of `_tilingLoop`, per tensor where the code loops
over tensors. `Next` is the union of the core's statements (`CoreStep`), the
completion of a transfer (`DmaRuns`) and stuttering at the end.

| action (double) | statement | action (single) | statement |
|---|---|---|---|
| `Enter` | 1 | `Enter` | 1 |
| `LoadFirstTile` | 2, 3 | `OpenTile` | 2, loop test |
| `OpenTile` | 4, 4.1 | `Load` | 2.1, start |
| `WaitInput` | 4.2.1 | `WaitInputs` | 2.1, wait |
| `LoadNext` | 4.2.2 to 4.2.5 | `Kernel` | 2.2 |
| `Kernel` | 4.3 | `Store` | 2.3, start |
| `WaitOutput` | 4.4.1 | `WaitOutputs` | 2.3, wait |
| `Store` | 4.4.2, 4.4.3 | `LeaveLoop` | loop end, `*tileIdxPtr += 1` |
| `LeaveLoop` | loop end, `*tileIdxPtr += 1` | | |
| `Drain` | 5 | | |

### TileStream

The abstract specification. `Deliver(o, n)` puts the result of tile `n` of output
`o` in its place and is possible only when exactly the tiles before `n` have been
delivered. Tiles that share a place accumulate. Both loops implement it with
`result <- external`; its fairness makes the refinement include that all tiles
arrive.

### MchanTransfer

How a batch of transfers becomes commands. `LenLimit` stands for 2^17, the limit of
the length field. `cmd` packs flags and length by `flags * LenLimit + len`, as
`(mchanFlags << 17) + mchanTransferSize` does, and the hardware side reads the word
by division, so a length that does not fit carries into the flags. `Accepted` is the
assertion at generation time, different on the two targets; `ChunkSize` the split of
long one-dimensional transfers on PULPOpen. `Poll` and `Wake` are
`mchan_channel_wait`: read the status, sleep on the event line all channels share,
read again. Each completed command raises the event if its flag says so.

### SnitchCluster

`EXTENDS DoubleBuffering`: the variables of the loop are those of the data-movement
core. Every core runs the same loop with its own `TILING_I`; futures and transfers
are inside `if (snrt_is_dm_core())`, the kernel inside `if
(snrt_is_compute_core())`, and only the kernel's closure has barriers on both sides.
`Arrive` counts arrivals; the last core releases all, from wherever each of them is,
so a mismatch of barriers is possible in the model. Each compute core writes its
share of the output at its own time; an output buffer is complete when all shares
are of the current tile. `main.c` has one more barrier after `RunNetwork`.

### NetworkGraph, TensorLifetimes, BlockPlacement

A network is its schedule: per node the tensors read (one may be read at several of its inputs),
the tensor written and the transient buffers; `AliasOf` says which buffer stands for which, as the templates link them. `LiveAfter` is the liveness flow
of `MemoryConstraintFlows.py`; `TensorLifetimes` turns it into first and last steps, with
the training variant of `tilingUtils.py` (inputs live throughout) and the extension of a
lifetime by the uses of an alias. `BlockPlacement` takes the blocks one
by one in any order (`PlaceBlock`): a block starts above what was placed before it and lives
at the same time, and ends where the cost vector `H` of `_generateCost` says.

### MemoryManagement, NetworkRuntime, TrainingHarness

`GenerateNode` is one call of `MemoryManagementGeneration.apply`: which buffers the node
allocates before and releases after, through aliases, with the `_live` flags and the
accounting of the dynamic size. A tensor that a node reads twice has one reference at each input
and is released once (`References`). It emits instructions; `NetworkRuntime` executes them, with
pointers into the arena `BlockPlacement` laid out or into a heap. A cell of memory holds a
tensor and the mini-batches it was computed from, so a lost, repeated or overwritten
contribution shows. `TrainingHarness` is `deeploytraintest.c` and the part of
`codeGenerateTraining.py` that patches the optimiser's buffers:

| action | code |
|---|---|
| `Generate`, `Place` | the compiler, node by node and block by block |
| `InitNet`, `InitOpt` | `InitTrainingNetwork`, `InitOptimizerNetwork` |
| `ZeroGrads`, `InitWeights` | gradient accumulators zeroed, initial weights copied in |
| `LoadData`, `RunNet`, `StoreLoss` | one mini-batch with its lazy-reset flag |
| `CopyIn`, `RunOpt`, `CopyOut` | the optimiser step, with copies where buffers are not shared |
| `Done` | the end of the last update |

`InputsIntact` says that every instruction reads what it should read, `ResultsExact` that
at the end the weights contain every mini-batch once, `HeapSound` that nothing is freed
twice, leaked or used after release, `PlanSound` that blocks alive together do not overlap
and an alias lies where its source lies. In full, `HeapSound` asks four things: the asserts of the
generator hold; what a run holds beside the inputs and outputs is at most `maxDynamic`, the size that the
generator reports; only what is held is freed; a run that ends has given back all it took.

### TileMemory

`TrainingHarness` plans the level in which the tensors are at home; this module plans the
levels between it and the kernels. `RequiredHops` is the way that `MemoryHierarchy.bfs` finds to
L1, `TiledTensors` what gets a tile in a node, `MultiBufferStrategy` how many copies of it each of
the five tiler classes keeps in a level, `WordCost` the bytes of a block: each copy is rounded to words by
`_buildCostVector`, all copies together by `minimalloc`. A block is a tile in one level of one
node, or a tensor in its home level; each node has an arena of its own per level.

| action | code |
|---|---|
| `PlaceTile` | `annotateSolution`, for the next block of the order the solver or the shuffle chose (`PlaceBlock`) |
| `AllocateTile` | MiniMalloc puts a block on the ground or on another block |
| `CloseArena` | `_scheduleMemoryConstraints`: the arena fits beside the constants |
| `Refuse` | no solution: an arena does not fit, or MiniMalloc fails |
| `Convert` | `annotateMemoryLevel` and `_convertCtxtToStaticSchedule`: the size of each level's arena |

`CopyStart` is the address the generated code takes: `getBaseAddr` and
`_hoistMultibufferReferences` split the block again, without knowing how it was rounded.
`TilesApart` says that all copies of all tiles of a node are disjoint and as long as the tile,
`WordAligned` that they start on words, `ArenaSound` that what is allocated holds every
address that was given out and fits its level.

### MappingSearch

`NetworkContainer.parse` with its loop turned into actions: `EnterLayer` copies the context;
`SkipMapper`, `RejectNode` and `AcceptNode` go through the layer's mappers; `SkipBinding`,
`RejectBinding` and `ElectBinding` through the bindings of the accepted one; `GiveUp` and
`Backtrack` follow when none is left. `ctxt` is one variable and the
deep copies are kept apart, because `NetworkContext.copy` is shallow: what a
failing mapper registered stays behind. `CheckedTypes` is what the loop of
`typeCheckNodeInputs` has assigned when it ends, also for a rule that is refused: `Seen(k)`
is the type the walk meets at input `k`. `ContextIsReplay` compares the context at each
layer with `Replay`, the one that the elected rules alone determine; `SearchExact`
compares the answer with a declarative definition of the preferred consistent mapping,
and a failure with the absence of any.

The networks are subject to three assumptions. `WellFormed` is what the frontend hands over:
layers in an order of the graph, every tensor written once, rules with a type for
each input. `RegistersOnce` excludes the lists of mappers that end in the `KeyError` below.
`WidensLast` excludes the types that a refused rule leaves behind: a graph input or output is
taken by a rule at its exact type, or is read last, by a rule that `checkOutputType` does not
refuse. Without the last two `ContextIsReplay` is false of the code.

### TileGeometry, NodeParsers, operators, OperatorLibrary, TiledOperator

`TileGeometry` is `computeTileHyperRectangles`, `minimizeRectangle`, padding, strides,
offsets and the transfers cut out of them. `NodeParsers` says which nodes each parser takes
and the numbers it writes. For each operator family a module has the tiles its constraint
admits (`...Tiles`), the cubes and replaced numbers it serialises them to (`...Serialize`)
and its kernel: the set of elements written, the elements each is made of, and the core that
writes it. `OperatorLibrary` lists for every operator its mappers in the platform's order.

`TiledOperator` executes one node:

| action | code |
|---|---|
| `Parse` | the first mapper whose parser accepts; refused if none |
| `Tile` | a solution of the constraints for the given tiles, and the serialised schedule |
| `Fetch`, `Load` | the transfers of one step from L3 to L2 and from L2 to L1 |
| `Compute` | the kernel on the tile, or in the home memory when nothing is tiled |
| `Store`, `WriteBack` | the transfers back |
| `Finished` | the closure returns |

Every byte of home, middle and local memory holds an element's value and the number of the
byte, so a wrong offset, stride or size shows. `DeploymentExact` compares the outputs with
`OperatorMeaning`, which knows neither tiles nor cores; `TilesFit` demands that transfers
and kernel accesses stay inside their buffers and no element is written twice with
different values.

### NetworkRewriting, OptimizationPasses, LayerShapes, NetworkMeaning, NetworkDeployment

`NetworkRewriting` has the graph, the two matchers, `replaceInsertNode` and `deleteNode`.
`OptimizationPasses` has the 32 passes in the order in which the PULP optimizer and deployer
run them, each as a pattern and a replacement. `NetworkDeployment` runs them
(`Preprocess`, `StartPass`, `ReplaceMatch`): matches are computed once when a pass starts
and replaced one after the other, as in the code, so that one replacement can spoil the next
match. After each step the network must still mean what it meant when it was exported, in
integers with the operators' own rounding and clipping (`NetworkMeaning`). `HandOver` gives
any node of the lowered network to `TiledOperator`, with the shapes `LayerShapes` computes,
so that what the passes write is what the parsers read.

`OperatorPromise` is the abstract specification of all of this: bytes become right and are
never spoilt again, a node finishes only when all are right, and a refusal happens only
before anything runs.

## Runs

| run | what it asks | bounds |
|---|---|---|
| `db_direction` | The double-buffered loop with MCHAN futures and only as many channels as directions: no stale input, no race, channels accounted for, complete results, termination, and implements `TileStream`. | 2 inputs (one untiled), 1 output, 4 tiles, 2 channels |
| `db_under_l3` | The loop called once per tile (expected violation, below). | 1 + 1 tensors, 3 tiles |
| `convgradw_l3` | The single-buffered loop, with an accumulating gradient and called once per tile: the kernel is alone, all partial sums are kept, termination, implements `TileStream`. | 2 + 1 tensors, 4 tiles, 1 shared rectangle, 2 channels |
| `convgradw_l2` | The same without L3 (expected violation, below). | 3 tiles |
| `mchan` | Commands decode as meant, a returned wait means the bytes moved, no event is slept through. | 2 transfers of 1 to 8 bytes, all directions and ranks, length field of 2 bits |
| `mchan_gap9` | The assertion on GAP9 (expected violation, below). | as `mchan` |
| `snitch` | Compute cores see loaded tiles, no race, no barrier mismatch, results visible after the last barrier, all cores return, implements `TileStream`. | 1 DM core, 2 compute cores, 3 tiles |
| `network_memory` | No tensor is overwritten, freed or misplaced while it is needed, and every mini-batch reaches every weight once. | six inference networks of at most six nodes, a training network with two weights and its optimiser, shared, partly shared and copied buffers; 2 accumulation steps, 2 updates, 3 data sets; memory of 20 words |
| `tile_memory` | Copies of tiles are disjoint, long enough and on words; arenas hold what is in them and fit. | networks of one to three nodes with a constant, a view, a transient buffer, updates in place; tiles of 1 or 3 elements of 1, 2 or 4 bytes; two or three levels; 16 to 40 bytes of L1, so that some are refused |
| `tile_memory_views` | A tile of a view of a network input (expected violation, below). | 2 nodes |
| `mapping_search` | The search leaves nothing behind, ends, and finds the preferred mapping. | 3 layers, chains and a layer that reads a constant or the graph's input; lists of one or two bindings of 3 to 4 kinds per layer; up to 3 mappers in a list, refused, unfit or accepted |
| `tiled_operators` | No pass changes what a network returns; every operator, untiled and tiled over one and two levels, computes every element from the right elements; implements `OperatorPromise`. | 313 nodes and networks, tiles that do not divide the tensors, 2 cores, elements of 1 or 2 bytes |

Why these bounds are enough. The loop treats the first tile, a middle tile and the
last tile differently and alternates between two buffers; with three tiles each
case occurs and both buffers are reused, with four a middle tile follows a middle
tile. The `"PerTensor"` strategy runs in `snitch`, and single buffering without an L3 driver is
left to the proofs, which hold of both. Two tensors of a direction are the least that can share a future, and one
untiled input exercises the missing reference update. Two channels are exactly what
the `"Direction"` strategy needs at a time, so one that leaked would deadlock. In
`mchan` the length field counts to 3, so that sizes 1 to 8 lie on both sides of one
and of two limits, on the limits themselves, and need one, two or three commands;
two transfers are the least that share the event line. On Snitch two compute cores
are the least that can disagree with each other while agreeing with the DM core. There
`AllReturn` depends on the barriers alone: no allocation blocks, with the four handles of the run
or with two.

In `network_memory` two accumulation steps and two updates are the least in which a reset
that is missing, late or repeated changes a sum, and three data sets with four mini-batches
wrap around. The inference networks are the shapes of alias that the code distinguishes: a
residual, a reshape before and after other uses, a chain of reshapes, a reshape of the
network's input. Up to six blocks are placed in all orders; for larger networks any two
blocks of one network come first, so every pair meets in both orders. In `mapping_search`
three layers let a failure at the third discard choices at the second and return to the
first. In `tiled_operators` a tensor has at most three tiles in a dimension, of which the
last is smaller, and both levels cut differently; two cores with odd sizes give uneven
chunks; the budgets 12 and 80 stand for 24 KB and 32 KB so that both sides of each
decision of `ConvGradConstraint.py` are reached. The networks contain every pattern at
least once, most of them twice in a row or with a shared tensor, so that one replacement
touches the match of the next. What does not depend on the bounds is proved (below).

Every property of a passing run is also shown to depend on the code: `PROJECT.json`
names, for each, a plausible error (a wait that is dropped, a channel that is not
freed, a loop test off by one, a chunk one byte too long, a missing barrier, an alias that
does not extend a lifetime, a context that is restored too late, a last tile of full size)
under which the same run fails.

## Disagreements with the source's own claims

Four have a run of their own:

1. **Double buffering under an L3 driver** (`db_under_l3`). With the per-tile
   layout, the second call starts at `TILING_I = 1`. Its set-up code loads the first
   tile into the buffer the local reference was allocated with, buffer 0
   (`DoubleBufferingTilingCodeGeneration.py:145`), while the loop selects buffer
   `TILING_I % 2`. The kernel of every odd call reads a buffer that nothing loaded in
   this call. `TilingHoistingMixIn.py:94` presents the per-tile layout as what makes
   "one inner-call processes one tile".
2. **Weight gradients in L2** (`convgradw_l2`). The reset guard tests `*tileIdxPtr ==
   0` and its comment (`FloatConvGradTemplate.py:204`) promises "memset once at first
   tile". `*tileIdxPtr` counts calls; with all tensors in L2 one call walks all tiles,
   so each tile resets the sum of the earlier ones. `convgradw_l3` shows that under an
   L3 driver the guard is right.
3. **The size assertion on GAP9** (`mchan_gap9`). `ceil(log2(size)) <= 17`
   (`Targets/GAP9/DMA/MchanDma.py:79`) accepts 2^17, which needs 18 bits; the message
   beside it says "not representable with 17 bits". The command then has one added to
   its flags: the direction bit flips. The PULPOpen driver bounds the size by 2^17 - 1
   and splits what is longer.

4. **The arena and the tiles of views** (`tile_memory_views`). The size of an arena is the highest
   end of its blocks, except those of views of a global buffer or of a buffer in the same list
   (`TilerExtension.py:299`), because "alias buffers have zero cost" and "their addrSpace is
   None" (298). A node that reads a reshape of a network input has a tile of the reshape in L1 and
   none of the input: that tile has a cost and an address of its own
   (`MemoryScheduler.py:371`, 654) and may end above the arena.

More were met while modelling. Those marked (m) were seen as a violation when the instance
was let into the model; the others were read in the source and kept out of the instances.

Memory and training:

- A chain of reshapes that starts at the input of an inference network: the lifetime of the input
  is not extended to the uses of the second alias, against the comment at
  `MemoryScheduler.py:303`. A single reshape of it that is a network output does not
  extend it to the end of the schedule either; the proof of `RootLifetimes` needs both to
  be excluded.
- `deeploytraintest.c:184` leaves the loop body with `continue` for a shared buffer before it
  reaches the fill of a broadcast bias, which then keeps its old copies.
- With more than one memory level in a node, the blocks of the outer and of the inner
  constraint in the same level are both placed from address 0.
- (m) MiniMalloc rounds the copies of a tile together (`TilerExtension.py:442`) and
  `getBaseAddr` halves the block: with two copies the second may start between two words, against
  the comment at 436-441 ("PULP word loads/stores expect 4-byte alignment").
  `testTilingSolutionCorrectness` asserts that a copy is a multiple of 4 bytes, but `tile`
  calls it before `annotateMemoryLevel`, when no constraint has an address yet: it is vacuous.
  `WordAligned` is stated without this case.
- With MiniMalloc a block that is an alias of a tensor in the same list takes the addresses of the root of its
  chain, or (0, 0) if the root is not in the list (`TilerExtension.py:482`). The sum that admits a
  tiling before MiniMalloc is called (`MemoryScheduler.py:518`) is keyed by the tensor
  and forgets all hops but the last.
- `_dynamicSize` counts an alias like a buffer of its own.
- In an untiled deployment `DeeployNetwork_outputs[]` records the address of an output when the network is
  initialised (`DeeployTypes.py:3023`). A reshape that produces a network output moves the
  pointer of the output to its source (`ReshapeTemplate.py`), so the harness reads a block that nothing
  wrote, and that block and the source's are never given back. The kernel tests `Kernels/FP32/Reshape/Regular` and
  `Squeeze` have this shape and are in no list of the Generic platform. `ReturnsAll` excludes it.
- Locals that nobody reads are never freed; the passes remove such nodes (`graph.cleanup()`,
  `testMVPTraining.py:48`, `PassClasses.py:248`), so a deployment that skips them leaks once per run.

Search:

- (m) Where a list has a mapper that is accepted and does not fit, then one that refuses, then
  one that accepts, `ioParse = not ret` lets the third re-register the graph's inputs:
  `KeyError`.
- After the first mapper that accepts fails in its bindings, the layer's other mappers are
  never tried, though the docstring (`DeeployTypes.py:2616-2633`) describes a search over
  all. `SearchExact` is therefore stated for the first accepted mapper.
- `typeCheckNodeInputs` (`DeeployTypes.py:1322`) writes the type of a graph input during
  a check that may still fail; the type stays, and later rules are compared with it.
- `PULPDWConvGradX2DParser.parseNode` returns without testing `group > 1`; the general
  parsers of the gradients compute `ret` on the number of inputs and return something
  else; `PULPPWConvGradX2DParser` and the one for dW do not test `group`.

Passes:

- iGELU and iHardswish with `RequantShift` (`Targets/Generic/.../Passes.py:134, 174`)
  divide the offset by the factor; the kernels (`RQiHardswish.c`, `RQGELU_s8.c:31`)
  compute `y * mul + add`, so the offset is lost by that factor unless one of them is
  trivial. The same holds of integer division (line 85).
- `_merge_transposes_fun` (613-645) deletes both transposes when the outer shapes agree,
  even if the composed permutation is not the identity.
- (m) `_split_transposes_fun` (681) replaces all outputs of the node that feeds it; the second
  transposition with the same source leaves a tensor nobody produces.
- (m) `AddLayer` and `MulLayer.computeShapes` (`Layers.py:182`) give the first of two operands of
  equal rank the shape of the second, so a broadcast along a dimension sizes buffers
  too small.
- (m) `_merge_ihardswish_rq_fun` returns `None` when it refuses, and the PULP merge of Gemm and
  `RequantShift` does not refuse a bias that is no constant: both end the deployment.
- `_skip_emptyconcat_fun` (272): a `Concat` that is a network output loses its producer,
  and of three inputs one is lost.
- `QuantParser` (`Parsers.py:2843-2850`) computes its limits from the width and ignores those the
  pass took from `Clip`; ONNX rounds half to even, the template away from zero.
- PULP `_merge_gemm_rq_fun` (210) adds a rounding term even where nothing is shifted; the
  version for convolutions (174) tests for it.
- `NonBranchingMatcher` does not see that a tensor inside a match is a network output;
  `BranchingMatcher` follows the first reader only; removing a `RequantShift` that does nothing
  ignores its clipping; a convolution with an empty bias and a `RequantShift` gets five inputs
  because the pass that removes the bias comes later.

Operators:

- (m) `ConvGrad.c`'s im2col variant for stride 1 takes `offset_grad_in/out` and does not use
  them: wrong when dX is tiled in the image.
- (m) `ConvGradConstraint.py`: `CinSliceStrategy.matches_solution` (688) also takes solutions tiled in
  Cout, and the depthwise branch passes `inputCSize = Cin_full` (967) for a slice; both leave
  the tile. The docstring (996) says dW "is NOT tiled". A gradient with one output channel is
  taken by the depthwise mapper, a grouped 1x1 one by the pointwise mapper.
- (m) The pointwise weight-gradient template advances its pointers after the loop over the
  batch. It uses image 0 for all.
- (m) `MSELossGradTileConstraint` replaces `num_elements` by the tile's size
  (`MSELossTileConstraint.py:139`), which the template uses as N in 2/N, against its docstring
  (113).
- (m) `SoftmaxCrossEntropyTileConstraint.py:23` says the batch is pinned; it is not, and each
  tile overwrites the loss. `LayernormTileConstraint.py:212` claims the same.
- (m) `RequantShiftTileConstraint.py:91` leaves the batch out of the size. The parser takes
  `shape[1]` for the channels in either layout.
- (m) Integer `ReduceMean` unrolls the whole tensor's shape for a tile;
  `ReduceSumTileConstraint` looks for `axis` where the parser wrote `axes`; a tiled `Slice`
  (the issue the source names, #134) uses the tile's addresses as the tensor's.
- (m) `MIN(start + chunk, size + 1)` in `MulTemplate.py:19`, `RQiHardswish.c`,
  `iRMSnorm.c`, `MatrixVectorTemplate.py:35` and `TallGEMMTemplate.py:35`: a core without work
  may write one element past the end; the odd share of `UniformRequantShift.c` does so too.
- (m) `Conv2DTileConstraint` and the one for dX do not replace `batch`. Under L3 the second hop clamps
  an input cube relative to offset 0. `DWConvolution_fp32.c` never computes some channels
  when the multiplier is 3 or more. The integer variants load more rows than the solver's
  tile has, and pass no absolute offsets, so that the padding is wrong when the image is
  tiled under L3.
- Matrix products: an odd last neuron in `gemv.c` uses the factors of neuron 0; `gemv.c:133`
  has a barrier that only cores with work reach; the batch dimensions of A and B have no
  constraint when they are broadcast or belong to Gemm; `NSize` ignores `transA`; the integer
  templates ignore both transpositions, the float kernel alpha and beta.
- Pooling: the bounds checks of `AvgPool.c:39-44` are comments; float max pooling passes the height
  as the width; `ceil_mode` is ignored.
- `FloatLayernormTemplate.py:47`: the flag that zeroes the gradient is static, so a
  second mini-batch adds to the first; all cores test it while core 0 accumulates.
- `computeTileHyperRectangles` says row-major and counts the first dimension fastest;
  "Currently support a single minimal outer shape" (`TilingCodeGeneration.py:198`) can
  be reached by weight gradients; `Softmax` parsers accept an axis no kernel uses; running
  statistics of batch normalisation are never written.

## What the instances leave out because the code is wrong there

A property is checked where the code keeps it. The instances exclude: in `tile_memory` a view of a
network input that is read without it; in the others a reshape chain on a network
input, a reshape of a network input as output, on a heap any reshape as output, and a broadcast bias in shared buffers; the list of mappers that ends in `KeyError`; an
offset together with a factor in the iGELU and iHardswish merges; two transpositions whose
shapes cancel and whose permutations do not; tensors inside a pattern that are network
outputs; an `Add` in a pattern with several readers; an empty `Concat` as output or with three
inputs; several transpositions of one tensor with other readers; `Conv` with a bias
before `RequantShift`; sums of equal rank and different shape; batched Gemm and broadcast
products with tiles; matrix-vector and tall products with an uneven chunk; a tiled batch of a
convolution or of its gradients, and a batch above 1 for the pointwise weight gradient; integer
convolutions tiled in the image under L3; dX tiled in the image at stride 1; dW tiled in
Cout over budget, and in C for depthwise; average pooling with padding; float max
pooling with a window that is not square; tiled integer `ReduceMean`, partial `ReduceSum`
and `Slice`; a tiled loss.

Instances that the code refuses are kept when a refusal is what it should do, and the run shows that
nothing runs after it: `RequantShift` without its attributes, a requantised sum with the
wrong ones, `Squeeze` without axes, an integer product of ranks 2 and 3, dX with an empty
halo, iHardswish with factors per channel, Gemm with a variable bias.

## Fairness

Each loop has weak fairness of `CoreStep` and of the DMA. A core executes its next
statement unless it is blocked: nothing preempts it for good in these bare-metal
programs, and its program is sequential, so at most one of its actions is enabled.
A DMA finishes every transfer it was given, in some order; weak fairness of "some
transfer completes" is enough because no transfer is issued while the core waits.
On Snitch each core has its own fairness, since no core can hold another back except
through the barrier, which is modelled. `MappingSearch` has weak fairness of `Next`: it
is one sequential program. `network_memory`, `tile_memory` and `tiled_operators` check safety only
and state no fairness. No strong fairness is used anywhere.

## Proofs

`tlapm` checks all of the following for every value of the constants allowed by
`DmaAssumption`, `LoopAssumption`, `TwoBuffers`, `OneBuffer`, `ClusterAssumption`,
`MchanAssumption`, `DeploymentsAssumption`, `BoundsAssumption`, `NetworksAssumption`,
`WideningAssumption`, `ProblemsAssumption` and `TilingsAssumption`.

| theorem | states | assumes |
|---|---|---|
| `DoubleBufferingProofs!TypeCorrect` | `Spec => []TypeOK` | `L3Tensor = {}` |
| `DoubleBufferingProofs!InputsArrive` | `Spec => []KernelInputsCurrent` | `L3Tensor = {}` |
| `DoubleBufferingProofs!BuffersApart` | `Spec => []NoBufferRace` | `L3Tensor = {}` |
| `DoubleBufferingProofs!ChannelsKept` | `Spec => []ChannelsAccounted` | `L3Tensor = {}` |
| `DoubleBufferingProofs!ResultsComplete` | `Spec => []OutputsComplete` | `OrdinaryNode` |
| `DoubleBufferingProofs!ImplementsStream` | `Spec => Stream!Init /\ [][Stream!Next]_external` | `OrdinaryNode` |
| `SingleBufferingProofs!TypesKept` | `Spec => []TypeOK` | `UniformLevels` |
| `SingleBufferingProofs!KernelAlone` | `Spec => []KernelIsAlone` | `UniformLevels` |
| `SingleBufferingProofs!ChannelsKept` | `Spec => []ChannelsAccounted` | `UniformLevels` |
| `SingleBufferingProofs!ResultsComplete` | `Spec => []OutputsComplete` | `Delivering` |
| `SingleBufferingProofs!ImplementsStream` | `Spec => Stream!Init /\ [][Stream!Next]_external` | `Delivering` |
| `DoubleBufferingProofs!ClusterTypes` | `ClusterSpec => []ClusterTypeOK` | |
| `DoubleBufferingProofs!InputsSeen` | `ClusterSpec => []ComputeSeesInputs` | |
| `DoubleBufferingProofs!ClusterApart` | `ClusterSpec => []NoClusterRace` | |
| `DoubleBufferingProofs!BarriersMatch` | `ClusterSpec => []SameBarrier` | |
| `DoubleBufferingProofs!ResultsSeen` | `ClusterSpec => []ResultsVisible` | `Computing` |
| `DoubleBufferingProofs!ClusterImplementsStream` | the refinement, for the cluster | `Computing` |
| `MchanProofs!TypeCorrect` | `Spec => []TypeOK` | `Target = "PULPOpen"` |
| `MchanProofs!NoCarry` | `Spec => []FlagsSurvive` | `Target = "PULPOpen"` |
| `MchanProofs!WaitIsEnough` | `Spec => []WaitedIsMoved` | `Target = "PULPOpen"` |
| `DeploymentProofs!PlacementSound` | `PlacementSpec => []PlanSound` | |
| `DeploymentProofs!DeploymentPlanSound` | `Spec => []PlanSound` | |
| `DeploymentProofs!GenerationChecked` | `Spec => []GenerationAsserts` | |
| `DeploymentProofs!TilesTyped` | `TileSpec => []TileTypeOK` | |
| `DeploymentProofs!TilesKeepApart` | `TileSpec => []TilesApart` | |
| `DeploymentProofs!TilesOnWords` | `TileSpec => []WordAligned` | |
| `DeploymentProofs!ArenaCoversTiles` | `TileSpec => []ArenaCovers` | `ViewsBesideSource` |
| `DeploymentProofs!ArenasSound` | `TileSpec => []ArenaSound` | `ViewsBesideSource`, `ConstantsFit` |
| `TrainingHarnessProofs!ArenaTyped` | `Spec => [](InArena => TypeOK)` | |
| `TrainingHarnessProofs!ArenaInputsIntact` | `Spec => [](InArena => InputsIntact)` | |
| `TrainingHarnessProofs!ArenaResultsExact` | `Spec => [](InArena => ResultsExact)` | |
| `HeapProofs!HeapRuns` | `Spec /\ []HeapFits => []HeapSound` | |
| `MappingSearchProofs!SearchInvariance` | `Spec => []Inv` | |
| `MappingSearchProofs!ContextReplayed` | `Spec => []ContextIsReplay` | |
| `MappingSearchProofs!SearchIsExact` | `Spec => []SearchExact` | |

`L3Tensor = {}` is needed: with an L3 tensor `KernelInputsCurrent` is false
(`db_under_l3`). `OrdinaryNode` adds that every output is tiled and the kernel
overwrites its output. `UniformLevels` is `L3Tensor = {}` or every tiled tensor in L3.
`Delivering` adds: an accumulating kernel has an outer driver (without one
`OutputsComplete` is false, `convgradw_l2`), any other has all outputs tiled. `Computing` is
`OrdinaryNode` with at least one compute core; the other theorems about the cluster
need only `ClusterAssumption`, which leaves L3 and accumulation out. `Target = "PULPOpen"`
excludes the GAP9 assertion (`mchan_gap9`). `ViewsBesideSource` says that no node has a tile of a
view of a global buffer without one of the buffer; without it `ArenaCovers` is false
(`tile_memory_views`). `ConstantsFit`: the constants fit their level. `HeapFits`: the heap, of any
size, never runs out; the code does not test the result of an allocation, and a run of the model may take
more than `Top` words, where `network_memory` checks that it does not (`TypeOK`).

**The double-buffered loop.** `KernelInputsCurrent` is far from inductive: it speaks of
one program point, and whether a buffer is current depends on which transfer was
waited for several statements earlier, through a future that may belong to another
tensor. `IInv` says for each tensor and each program point which transfer of it may be
in flight. `Only(t, j)`: transfers of `t` in flight move tile `j`, between its
rectangle and buffer `j % 2`, and are counted on the channel of `t`'s future.
`Fetching(t, j)`: and if there is none, tile `j` has arrived. `Advanced(t)`: the
current tile is here and the next one is coming. While the code walks over the tensors,
those before the current one are `Advanced`, those after it are `Ready` if the future
they share has been waited on already, and `Fetching` otherwise; this is where the one
wait per future is justified. `Storing(o)` is the same for outputs. `ReferenceInv` ties
the moving references to the tile numbers, `AllocInv` says that a tensor that allocates
no future issues its transfer on the channel allocated for the tensor before it. Four
lemmas (`IssueEffect`, `WaitEffect`, `CompleteEffect`, `SameTransfers`) say what a DMA
operation does to these predicates; one lemma per action shows that `IInv` is
preserved. `BuffersApart` follows because consecutive tiles use different buffers.

**The channels.** `ChannelInv` adds for each program point which futures hold a channel
(`InputHeld`, `OutputHeld`): each held future has a channel of its own, every channel in use
is held, and the futures of outputs that were never stored have none. This is what
excludes a channel that is taken twice or given back twice when several tensors share a future.

**The results.** `RInv` adds to `IInv` where the results are. `Sent(o)` is the number of
tiles of output `o` whose store has been issued. `Streamed(o, n)`: the first `n` results
are in their rectangles, except that the last may still be in its buffer while its
transfer is in flight, and later rectangles are empty. `Computed(o)`: a result that was
computed and not stored is in the current buffer. The kernel preserves `Streamed` because
it writes the other buffer; a completing store (`CompletedOutput`) is that of the last
tile sent and carries just that tile. `OutputsComplete` follows from the state after
`Drain`; the refinement follows because a completing store is a `Deliver` step and no other
step changes the external memory.

**The single-buffered loop.** `IInv` has the same parts, with one buffer and with the futures a
program point holds; since all stores are waited for before the next load, it is simpler and
also covers several calls under an L3 driver. `RInv` states for each output what has been
computed (`Done`), sent and delivered; with accumulation a rectangle holds the tiles up to the last one
(`Upto`): the reset at the first call discards what was there, later calls add.

**The cluster.** `CInv` adds to the data-movement core's `IInv` the lockstep: each compute core is
at the tile that core has passed, and which barriers they may be at follows from where it
is (`LockInv`). The step that needs it is `Release`: the last core to arrive moves all, from
wherever each of them is. The theorems then follow from those of the loop, because a
compute core is in its kernel only while the data-movement core is between the two
barriers. `CRInv` adds that the shares written so far make up the output buffer (`ShareInv`).

**MCHAN.** The lemmas `DivMod` and `Decoded` say that division undoes the packing of a
command whose length fits, and `SplitUnique` that a quotient and remainder are unique.
The invariant says that every byte of a transfer below the pushed offset has been moved or
belongs to a command in the queue, that nothing else has been moved, and that jobs already
waited for have no command in the queue.

**The memory plan.** `PlacementSound` holds for any blocks, lifetimes and costs, and for any order:
the solver and the shuffle decide only how good a plan is. `EndsAgree` ties the two vectors the
code keeps; an alias takes no address, so it must not count as an obstacle and must count in
the height. `DeploymentPlanSound` puts the lifetimes of any network in front of it (`PlanInv`:
the blocks are those of `BlockTable`, and `PlacementInv`). That a plan without collisions
is of use is a matter of the lifetimes. A tensor is `InUse` at a node that writes it, or if it has been written or loaded
before and is read there or later or is an output. `RootLifetimes`
shows that the block at the end of the chain is alive at every node at which any view of it is in use,
though the code prolongs it in two passes, of which the first looks one link far and the
second treats global buffers differently; `HomesApart` that two tensors in use at one node
whose roots differ have no cell in common.

**The program.** `GenInv` says what the allocation pass has done when it comes to a node: the buffers
`Alive` there are live, and the program so far runs the nodes in order, each behind the
allocation of what it writes (`RunsInOrder`). `GenerationChecked` follows, and the run needs
the rest.

**The memory of the tiles.** `TileInv` adds three facts to the plan. `OnWords`: every end is on a word.
`ExactFit`: the room of a tile is exactly its cost, because `getBaseAddr` divides the room and not the cost by
the number of copies; a larger one would put the second copy between two words. The end of a block comes
from the heights of all its rivals, its start from those with an address only, so `ExactFit` holds only because
an in-place output is no higher than a tile with an address (`Sunk`), and that because all tiles of a node in a
level are rivals (`InnerTogether`) and such an output costs nothing there. In the home level, where an alias may
lift what comes after it, blocks have one copy. `PieceFacts` says that a piece is
as long as its tile however the block was rounded. `ArenaCoversTiles` rests on `LocatedCounts`: in the home level every view is without an address
(`HomeBlockFacts`), in a node every view whose source has a tile there. `FitInv` ties the arenas that were
closed to the size of their level. That the bytes of the constants are a number at all is part of `ConstantsFit`:
they are summed with a fold.

**The run in an arena.** `InArena` says that the deployment has arenas and that what has been placed
fits. A plan that does not fit is rejected by the solver, so every deployment that is built
satisfies it at the end. `InputsIntact` speaks of one program point; the invariant must say for every
point what every tensor holds that anything still reads. `HarnessInv` has four parts. `PhaseInv` is the order of the
phases; `BatchInv` ties mini-batch, update step and the losses stored so far; `PtrInv`
says that inputs and outputs are `Pointed` at their place from the initialisation on, and what a node writes once it is
allocated. The place of a tensor is its `Spot`: the address of its root in its arena, and for a buffer of
the optimiser that is shared, that of the training network's buffer of the same name. `MemInv` says
what is there: while the network runs, `RunContent`, over the tensors that are `Due` (written or loaded, and
still to be read, or kept by a training network); between mini-batches
`InputContent` of the weights and `GradContent` of the accumulators; while the optimiser runs, `UpdateContent`, in
which a weight changes its value when its node has run. One lemma per kind of node shows that
it writes what it should and touches no word of a tensor that is due: a kernel (`KernelRuns`), a view (`ReshapeRuns`), an
accumulation, which replaces what is there or adds to it (`AccumulateRuns`), and the optimiser's update (`SGDRuns`), which may
write in place a buffer that belongs to the other network. The copies of `run_optimizer_step` are
loops of `memcpy` over pairs of pointers, some of which are equal; for them one
shows that targets of different weights are disjoint (`CopyInRuns`, `CopyOutRuns`).

What may be deployed is `Deployable`, the assumption on the constant `Deployments`. `WellFormed` is what the
frontend hands over. `TrainingGraph` and `OptimizerGraph` are the layout of inputs that
`codeGenerateTraining.py` assigns to indices and the C harness relies on: data, weights, an accumulator for each
weight that one node adds a gradient to, the reset flag, the loss as the first output of the graph (the harness
stores `DeeployNetwork_outputs[0]`, `deeploytraintest.c:365`), and an optimiser with one node for each weight. Three conjuncts exclude
what the code does not refuse: in an inference network a view of an input has no view of its own and is no
output (the input's memory is given away too early, see below); in an arena there are no
transient buffers (they get no block in the home level); and the loss is
computed by a kernel and not by an accumulation. TLC evaluates the assumption on every deployment of `network_memory`.

**The run on a heap.** `HeapSound` compares what happens at run time with what the generator has
counted, so `HeapInvariant` has a part about each and one that joins them.

- The count (`AccountInv`). The pass adds the sizes of what is born at a node, then subtracts the sizes of what it
  frees there. The set it counts is not the set that is alive: a tensor whose memory another view still
  shows dies without being freed, and is freed in the name of the last view. `Counted` bounds it: all that is alive and nothing that
  has not been produced. The sizes are added with a fold (`MapThenSumSet`); the lemmas on finite sums of
  `NaturalLemmas` (`Total`, a disjoint union, a subset, a union of ranges) give what a fold would.
- The program (`HeapProgramInv`). `HeldBefore(N, p, n)` is what the program holds before instruction `n`, as a
  recursive function of the instructions alone. Every instruction is safe (`SafeAt`): what is allocated is not held, is
  no view and has nothing standing for it; what is freed is held, in the memory of its root. What is held
  between two nodes are the roots of the tensors that are alive (`Roots`), and at every point their sizes add up to at
  most `maxDynamic`. One root is freed once though several of its views may die at one node
  (`FreedOnce`): `HasLiveAliases` looks at the views that come later in the list.
- The run (`HeapInv`). `HeapBlocks`: the blocks of the heap are those of the owners, one for each and apart
  (`HeapHolds`). Owners are the inputs and outputs of the initialised networks, unless the buffer is another
  network's or updated in place, and what the running program holds. `HeapPointers` and
  `HeapViews` say where the pointers of buffers are that own nothing: at the weight they update, at the buffer of
  the other network, at the block of the root. A free goes through the pointer of the buffer it names, which may be a
  view's; the block it gives back is the root's because the view's node has run.

`HeapIsSound` puts them together: the blocks that are not permanent are those of what is held, no two
share a word, so their words are counted by the sum of sizes. `ReturnsAll` is the part of `Deployable` that
a heap needs, and each conjunct excludes what the code gets wrong: a tensor nobody reads is never freed (`graph.cleanup()`
removes such nodes before); an untiled reshape that is a network output moves the
pointer away from the block the harness reads (`DeeployTypes.py:3023`, above); a local
buffer as the shape operand of a reshape is refused (`ReshapeTemplate.py` looks it up among the globals), and would
have no node behind which to be freed, since a view frees nothing.

**The mapping search.** Neither property is inductive: the context inside a layer is not yet
that of any elections, and that a failed search had no solution depends on every
binding discarded on the way. `ContextInv` says for each program point what the context
is: `Replay(idx)` before the layer's tensors are registered, `Entered(idx)` after. The
step that needs work is an election (`Electing`): the types that the rule walked over, then
overwrote, must be those of `Replay(idx + 1)`, though a tensor may be read at several inputs
and at several layers, and its last reader decides. A refused rule leaves the context alone
(`Rejecting`), and this is where `WidensLast` is needed. `SearchInv` says for each layer that no
consistent choice agrees with the elections before it and takes a discarded or passed
binding there; a binding is discarded either because it did not fit the context, which equals
what any such choice demands (`FitsAsDemanded`), or because the layer after it was
exhausted (`NotExhausted`). Backtracking forgets what was discarded below, and must, since
it was discarded under another typing.

**Induction.** The library states induction and recursion on naturals of an operator, which none of the
installed provers can instantiate. `NaturalLemmas` states them of sets and functions: `NatInduct` of
a set of numbers, `Recursion` of a function from a set of values to itself for each step, and
`NatMin`, `NatMax` of the elements of a set, from well-founded induction on its finite
subsets, which the library does state of a relation. With them the proofs reach what recursive functions on an interval
compute: `Dealias` (the end of a chain of views), `LiveAfter`, `BufferOrder`, `Picked` and the loop of `InitNetwork`.

Only model-checked:

- all liveness (`Terminates`, `Returns`, `AllReturn`, the fairness part of
  `StreamSpec`), because `tlapm` supports neither `ENABLED` nor fairness;
- `InputsIntact` and `ResultsExact` of deployments on a heap: `HeapRuns` says whose blocks there are and
  that they keep apart, not what is in them;
- `tiled_operators`: its actions are pure computations on data, with folds and with the
  `RECURSIVE` definitions of the meaning of operators, which no theorem can reach.

## Abstractions

- In the loops a rectangle is a number; `Tiled` is the set of tensors whose offsets change, with
  a rectangle of its own for each tile. That the tiles cover a tensor and that offsets lead
  from one to the next is checked in `TiledOperator`, where the order of transfers is fixed in turn.
- The code iterates over Python sets of futures when it emits several waits; the order of
  waits is that of the tensors in the model. The waits of such a group have no statement
  between them.
- A `"PerTensor"` future on Snitch and in L3 is a transaction id or a request; it is a
  handle taken at the start of a transfer, from a set large enough never to block. The
  allocation and the release of `SnitchFuture` are empty templates and its wait gives nothing
  back: there, that `WaitFuture` frees the handle says only that no future waits for its number
  any more. A free channel is chosen nondeterministically; the hardware has a rule of its own.
- The kernel is one step on the PULP targets: the loop runs on one core and a fork and a
  join enclose the kernel. On Snitch each core's share is a step of its own.
- `MchanTransfer` models one batch; that all transfers of a batch are issued before the
  first wait is what both loops do.
- One node at a time in the loops: what a node reads is in external memory when its closure starts.
- In the memory model a buffer has few words and each kernel one step; the placement order is any
  order. MiniMalloc is any placement without overlap in which each block lies on the ground or on another one.
- In `TileMemory` the solver is any tiles out of a set and any order; all tensors share one home
  level. An alias of a tensor in the same list has no address of its own.
- In the search, types are names and a layer has one output; shapes and broadcast are not
  part of it, `checkOutputType` is a field of a binding, and a graph input is read last on a node.
  The branch of the backtracking for exhausted bindings is never reached.
- In `TiledOperator` a value is the set of elements it was made of; an element is 1 or 2 bytes wide
  for 1 or 4, and all tensors of a node share one width. The tiles a node gets (`node.tiles`) stand
  for what fits the memory; every hop uses the tile shape of L1 (`TilerExtension.py:811-823`).
  The scratch buffers of im2col are not modelled, dilations are 1, and the tile of dY over the
  image is the whole image because the solver fills the memory. A node runs once.
- The meaning of a network is computed for one fixed input per network, in integers. Names are
  replaced by ids, the readers of a tensor are in node order, and the nodes of a lowered
  network are deployed untiled, one at a time.

## Not modelled

- Home levels chosen tensor by tensor, and engine colouring. Futures of
  asynchronous engines: one MemPool binding uses them.
- Data types: value ranges, covered by the repository's unit tests. The test harness and build.
- The solver: its objective, its choice among solutions, patterns of several nodes tiled
  together. The run takes any solution for each given tile.
- The barrier strategy of `AsyncDma.py`, which no target uses, and the blocking adapter, a special case of
  issue and wait. Profiling statements. The v6 driver of MCHAN and two-dimensional addresses.
- `topologicallySortBuffers`, argument structs and closures; the type checkers of single bindings.
- Passes over `TrueIntegerDiv`, `IntegerDiv` and `Pad`, over bindings and over memory levels, and those
  of other targets than PULP; removal of empty inputs, name mangling, `Constant` nodes.
- Kernels of other targets than the PULP platforms, the depthwise 1D convolution, and
  arithmetic beyond what a pass depends on.

## Running it

```
tlc -config DoubleBufferingDirection.cfg MCDoubleBuffering
tlc -config DoubleBufferingUnderL3.cfg   MCDoubleBuffering    (violation)
tlc -config ConvGradWUnderL3.cfg         MCSingleBuffering
tlc -config ConvGradWInL2.cfg            MCSingleBuffering    (violation)
tlc -config MchanPULPOpen.cfg            MchanTransfer
tlc -config MchanGAP9.cfg                MchanTransfer        (violation)
tlc -config SnitchCluster.cfg            SnitchCluster
tlc -config TrainingHarness.cfg          MCTrainingHarness
tlc -config TileMemory.cfg               MCTileMemory
tlc -config TileMemoryViews.cfg          MCTileMemory         (violation)
tlc -config MappingSearch.cfg            MCMappingSearch
tlc -config TiledOperator.cfg            MCTiledOperator
tlapm DoubleBufferingProofs.tla
tlapm SingleBufferingProofs.tla
tlapm MchanProofs.tla
tlapm NaturalLemmas.tla
tlapm DeploymentProofs.tla
tlapm TrainingHarnessProofs.tla
tlapm HeapProofs.tla
tlapm MappingSearchProofs.tla
```
