--------------------------- MODULE BlockPlacement ---------------------------
(***************************************************************************)
(* Where the memory scheduler puts the blocks of a memory level            *)
(* (MemoryScheduler: _buildInterferenceGraph, _generateCost,               *)
(* annotateSolution).  The blocks are taken one at a time in some order:   *)
(* the solver chooses it (TetrisCo-Opt) or a seeded shuffle does           *)
(* (TetrisRandom), so here it may be any.  A block starts at the highest   *)
(* end of the blocks placed before it that live at the same time, and ends *)
(* at its entry of the vector H that the cost model computed for it.       *)
(***************************************************************************)
EXTENDS Integers

VARIABLES
    block,      \* per buffer: arena, first and last step, cost, resolved
    placed,     \* the blocks taken so far
    height,     \* the vector H
    addrSpace   \* per placed block with an address: its start and its end

placementVars == <<block, placed, height, addrSpace>>

Block == DOMAIN block

NoSpace == [lo |-> 0, hi |-> 0]

PlacementInit ==
    /\ placed = {}
    /\ height = [b \in Block |-> 0]
    /\ addrSpace = [b \in Block |-> NoSpace]

(* Mutant of Interferes: lifetimes that meet in one step do not overlap. *)
StrictlyInterferes(a, b) ==
    /\ block[a].arena = block[b].arena
    /\ block[a].first < block[b].last
    /\ block[b].first < block[a].last

(* An edge of the interference graph. *)
Interferes(a, b) ==
    /\ block[a].arena = block[b].arena
    /\ \/ block[b].first <= block[a].first /\ block[a].first <= block[b].last
       \/ block[a].first <= block[b].first /\ block[b].first <= block[a].last

Rivals(b) == {c \in placed : Interferes(b, c)}

(* The rivals that hold an address. *)
Obstacles(b) == {c \in Rivals(b) : ~ block[c].resolved}

(* Mutant of Greatest: any of the ends. *)
AnyOf(n, S) == n \in S

(* n is the maximum of the set S. *)
Greatest(n, S) == n \in S /\ \A m \in S : m <= n

PlaceBlock(b) ==
    /\ b \in Block \ placed
    /\ \E below \in {0} \cup {height[c] : c \in Rivals(b)},
          lower \in {0} \cup {addrSpace[c].hi : c \in Obstacles(b)} :
          /\ Greatest(below, {0} \cup {height[c] : c \in Rivals(b)})
          /\ Greatest(lower, {0} \cup {addrSpace[c].hi : c \in Obstacles(b)})
          /\ height' = [height EXCEPT ![b] = below + block[b].cost]
          /\ addrSpace' = [addrSpace EXCEPT ![b] =
                 IF block[b].resolved THEN NoSpace
                 ELSE [lo |-> lower, hi |-> below + block[b].cost]]
    /\ placed' = placed \cup {b}
    /\ UNCHANGED block

AllPlaced == placed = Block

-----------------------------------------------------------------------------
(* The scheduler on its own, for any set of blocks. *)

Arena == {block[b].arena : b \in Block}

BlockRecord ==
    [arena : Arena, first : Nat, last : Nat, cost : Nat, resolved : BOOLEAN]

PlacementNext == \E b \in Block : PlaceBlock(b)

PlacementSpec ==
    /\ PlacementInit
    /\ block \in [Block -> BlockRecord]
    /\ [][PlacementNext]_placementVars

Located(b) == b \in placed /\ ~ block[b].resolved

(* MemoryBlock.collides: blocks that live at the same step keep apart. *)
NoCollision ==
    \A a, b \in Block :
        a # b /\ Located(a) /\ Located(b) /\ Interferes(a, b)
        => addrSpace[a].hi <= addrSpace[b].lo \/ addrSpace[b].hi <= addrSpace[a].lo

(* A block between the end of its rivals and its entry of H is large       *)
(* enough for its tensor: the two vectors come from different code.        *)
LargeEnough ==
    \A b \in Block :
        Located(b) => addrSpace[b].hi - addrSpace[b].lo >= block[b].cost

(* The plan, in whatever order the scheduler takes the blocks: blocks that *)
(* live at the same step keep apart, and each block is large enough for    *)
(* its tensor although its two ends come from different code               *)
(* (annotateSolution and the cost vector of _generateCost).                *)
PlanSound == NoCollision /\ LargeEnough
=============================================================================
