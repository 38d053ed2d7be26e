--------------------------- MODULE NetworkRuntime ---------------------------
(***************************************************************************)
(* The generated C program at run time: the pointers of a network's        *)
(* buffers, the memory they point into, and the execution of the program   *)
(* that MemoryManagement emitted.  Memory comes from one arena per         *)
(* network, at the addresses of BlockPlacement (tiled deployment), or from *)
(* a heap (untiled deployment).                                            *)
(*                                                                         *)
(* A cell of memory holds a value [of, from]: which tensor it is and which *)
(* mini-batches it was computed from.  For weights and accumulators that   *)
(* is the set of mini-batches folded into them, so an update that is lost  *)
(* or applied twice shows.                                                 *)
(***************************************************************************)
EXTENDS MemoryManagement, BlockPlacement, SequencesExt

CONSTANT
    Top         \* bound: words in an arena or in the heap

VARIABLES
    strategy,   \* "arena" or "heap"
    mem,        \* the cells
    ptr,        \* per network, the address each buffer's pointer holds
    heap,       \* the blocks malloc has handed out
    ip          \* the next instruction of the network that runs

runtimeVars == <<strategy, mem, ptr, heap, ip>>

Void    == [of |-> "void", from |-> {}]
Garbage == [of |-> "garbage", from |-> {}]
Null    == [area |-> "null", at |-> 0]

Cell == [area : Net \cup {"heap"}, at : 0..(Top - 1)]

RuntimeInit ==
    /\ mem = [c \in Cell |-> Void]
    /\ ptr = [w \in Net |-> [t \in DOMAIN nets[w].size |-> Null]]
    /\ heap = {}
    /\ ip = 1

Offset(address, k) == [address EXCEPT !.at = @ + k]

Cells(w, t) == {Offset(ptr[w][t], k) : k \in 0..(nets[w].size[t] - 1)}

AllCells(w, bufs) == UNION {Cells(w, t) : t \in bufs}

Read(c) == IF c \in Cell THEN mem[c] ELSE Garbage

(* Every cell of the buffer holds the value v. *)
Holds(w, t, v) == \A c \in Cells(w, t) : Read(c) = v

Write(cells, v) == [c \in Cell |-> IF c \in cells THEN v ELSE mem[c]]

-----------------------------------------------------------------------------
(* Allocation. *)

(* The address the memory map gives to a buffer: that of the buffer at the *)
(* end of its chain of aliases (_convertCtxtToStaticSchedule).             *)
ArenaAddress(w, t) ==
    [area |-> w, at |-> addrSpace[<<w, Dealias(nets[w], t)>>].lo]

Taken(h) == UNION {b.at..(b.at + b.words - 1) : b \in h}

(* malloc, first fit. *)
HeapAddress(h, words) ==
    [area |-> "heap",
     at |-> Min({a \in 0..Top :
                    \A k \in 0..(words - 1) : a + k \notin Taken(h)})]

Handed(address, words) == [at |-> address.at, words |-> words]

(* The allocations of InitNetwork, in the order of the context: its inputs *)
(* and outputs.  redirect says where the pointers go that are shared with  *)
(* another network, and an output that a kernel updates in place is not    *)
(* allocated: it takes the pointer of the buffer it names.                 *)
InitNetwork(w, order, redirect) ==
    LET assign(done, t) ==
            LET words == nets[w].size[t]
                new == HeapAddress(done.heap, words)
                point(address, blocks) ==
                    [ptr |-> [done.ptr EXCEPT ![t] = address], heap |-> blocks]
            IN  IF strategy = "heap" /\ UpdatedInPlace(nets[w], t)
                THEN point(done.ptr[AliasOf(nets[w], t)], done.heap)
                ELSE IF t \in DOMAIN redirect THEN point(redirect[t], done.heap)
                ELSE IF strategy = "arena" THEN point(ArenaAddress(w, t), done.heap)
                ELSE point(new, done.heap \cup {Handed(new, words)})
        after[k \in 0..Len(order)] ==
            IF k = 0 THEN [ptr |-> ptr[w], heap |-> heap] ELSE assign(after[k - 1], order[k])
        done == after[Len(order)]
    IN  /\ ptr' = [ptr EXCEPT ![w] = done.ptr]
        /\ heap' = done.heap
        /\ ip' = 1
        /\ UNCHANGED <<mem, strategy>>

-----------------------------------------------------------------------------
(* Execution of the program of network w.  want[t] is the value the buffer *)
(* t should hold when the current node has run.                            *)

Current(w) == program[w][ip]

Finished(w) == ip > Len(program[w])

(* allocTemplate of a local buffer. *)
AllocBuffer(w, t) ==
    LET words == nets[w].size[t]
        new == HeapAddress(heap, words)
    IN  /\ ptr' = [ptr EXCEPT ![w][t] =
               IF strategy = "arena" THEN ArenaAddress(w, t) ELSE new]
        /\ heap' = IF strategy = "arena" THEN heap
                   ELSE heap \cup {Handed(new, words)}
        /\ UNCHANGED mem

(* deallocTemplate: nothing for a buffer of an arena.  Freed cells lose *)
(* their content.                                                       *)
FreeBuffer(w, t) ==
    LET gone == {b \in heap : strategy = "heap" /\ b.at = ptr[w][t].at}
    IN  /\ heap' = heap \ gone
        /\ mem' = Write([area : {"heap"}, at : Taken(gone)], Void)
        /\ UNCHANGED ptr

(* A kernel: right inputs, apart from its output, give the right output. *)
RunKernel(w, node, want) ==
    LET apart == AllCells(w, Range(node.ins)) \cap Cells(w, node.out) = {}
        right == \A t \in Range(node.ins) : Holds(w, t, want[t])
        out == IF apart /\ right THEN want[node.out] ELSE Garbage
        spoiled == AllCells(w, Range(node.scratch))
    IN  /\ mem' = [c \in Cell |-> IF c \in spoiled THEN Garbage
                                  ELSE IF c \in Cells(w, node.out) THEN out
                                  ELSE mem[c]]
        /\ UNCHANGED ptr

(* The mini-batches of a gradient added to those folded in already. *)
Fold(into, gradient) ==
    IF /\ "garbage" \notin {into.of, gradient.of}
       /\ into.from \cap gradient.from = {}
    THEN [into EXCEPT !.from = @ \cup gradient.from]
    ELSE Garbage

(* InPlaceAccumulatorV2 writes its first input; its output is not written. *)
RunAccumulate(w, node, want) ==
    LET into == node.ins[1]
        from(c) == Offset(ptr[w][node.ins[2]], c.at - ptr[w][into].at)
        reset == Read(ptr[w][node.ins[3]])
        fresh(c) == [of |-> want[into].of, from |-> Read(from(c)).from]
    IN  /\ mem' = [c \in Cell |->
               IF c \notin Cells(w, into) THEN mem[c]
               ELSE IF reset.of # want[node.ins[3]].of THEN Garbage
               ELSE IF reset.from # {} THEN fresh(c)
               ELSE Fold(mem[c], Read(from(c)))]
        /\ UNCHANGED ptr

(* SGD writes its output, word by word. *)
RunSGD(w, node) ==
    LET at(t, c) == Offset(ptr[w][t], c.at - ptr[w][node.out].at)
    IN  /\ mem' = [c \in Cell |->
               IF c \notin Cells(w, node.out) THEN mem[c]
               ELSE Fold(Read(at(node.ins[1], c)), Read(at(node.ins[2], c)))]
        /\ UNCHANGED ptr

(* A reshape moves the pointer. *)
RunReshape(w, node) ==
    /\ ptr' = [ptr EXCEPT ![w][node.out] = ptr[w][node.ins[1]]]
    /\ UNCHANGED mem

RunNode(w, node, want) ==
    /\ \/ node.op = "kernel" /\ RunKernel(w, node, want)
       \/ node.op = "accumulate" /\ RunAccumulate(w, node, want)
       \/ node.op = "sgd" /\ RunSGD(w, node)
       \/ node.op = "reshape" /\ RunReshape(w, node)
    /\ UNCHANGED heap

(* One instruction of RunNetwork. *)
Execute(w, want) ==
    /\ ~ Finished(w)
    /\ LET now == Current(w)
       IN  \/ now.do = "alloc" /\ AllocBuffer(w, now.arg)
           \/ now.do = "run" /\ RunNode(w, nets[w].nodes[now.arg], want)
           \/ now.do = "free" /\ FreeBuffer(w, now.arg)
    /\ ip' = ip + 1
    /\ UNCHANGED strategy
=============================================================================
