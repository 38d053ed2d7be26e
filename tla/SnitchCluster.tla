--------------------------- MODULE SnitchCluster ---------------------------
(***************************************************************************)
(* A Snitch cluster running the double-buffered closure of one node        *)
(* (Targets/Snitch: Bindings.py, SnitchClusterSynch.py,                    *)
(* SnitchCoreFilter.py, DMA/SnitchDma.py, and main.c of the test           *)
(* platform).  Every core executes the same generated code with its own    *)
(* TILING_I and references.  The transfers and waits take effect on the    *)
(* data-movement core alone, the kernel on the compute cores alone, and    *)
(* only the hardware barriers around the kernel bring them together.       *)
(*                                                                         *)
(* The variables of DoubleBuffering are those of the data-movement core.   *)
(* A channel is here the transaction number snrt_dma_start gives a         *)
(* transfer.  The allocation and the release of SnitchFuture are empty and *)
(* its wait gives nothing back: a channel is free as soon as no future     *)
(* waits for its number any more, and Channel has one for every future, so *)
(* that no allocation blocks.                                              *)
(* The barrier counts arrivals and does not know where in the code they    *)
(* come from.                                                              *)
(***************************************************************************)
EXTENDS DoubleBuffering

CONSTANTS
    Compute,   \* the compute cores
    Dm         \* the data-movement core

ASSUME ClusterAssumption ==
    /\ Dm \notin Compute
    /\ L3Tensor = {}
    /\ ~ Accumulates

Core == Compute \cup {Dm}

VARIABLES
    pos,       \* where each core is: in plain code, at a barrier, in the kernel
    waiting,   \* the cores that arrived at the hardware barrier
    at,        \* TILING_I of each compute core
    share      \* the tile each core last wrote to its share of an output buffer

clusterVars == <<pos, waiting, at, share>>

snitchVars == <<vars, clusterVars>>

Barrier == {"first", "second", "last"}

ClusterInit ==
    /\ Init
    /\ pos = [c \in Core |-> "code"]
    /\ waiting = {}
    /\ at = [c \in Compute |-> 0]
    /\ share = [b \in Buffer |-> [c \in Compute |-> Junk]]

(* if (snrt_is_compute_core()) { kernel } *)
KernelFilter(c) == IF c \in Compute THEN "kernel" ELSE "second"

(* Mutant of BodyStart: there is no barrier before the kernel. *)
NoLeftBarrier(c) == KernelFilter(c)

(* The synchronised closure starts with a barrier. *)
BodyStart(c) == "first"

-----------------------------------------------------------------------------
(* The data-movement core. *)

(* A statement of the tile loop outside the kernel's closure. *)
DmStatement ==
    /\ pos[Dm] = "code"
    /\ \/ Enter \/ LoadFirstTile \/ OpenTile \/ WaitInput \/ LoadNext
       \/ WaitOutput \/ Store \/ LeaveLoop \/ Drain
    /\ UNCHANGED clusterVars

DmCallsBody ==
    /\ pos[Dm] = "code"
    /\ pc = "kernel"
    /\ pos' = [pos EXCEPT ![Dm] = BodyStart(Dm)]
    /\ UNCHANGED <<vars, waiting, at, share>>

(* RunNetwork has returned; main.c has one more barrier. *)
DmReturns ==
    /\ pos[Dm] = "code"
    /\ Finished
    /\ pos' = [pos EXCEPT ![Dm] = "last"]
    /\ UNCHANGED <<vars, waiting, at, share>>

-----------------------------------------------------------------------------
(* The compute cores. *)

(* Mutants of HasTile: the loop of the compute cores ends one tile early, and
   one tile late. *)
HasTileAfter(c) == at[c] < numTiles[1] - 1

HasTileTooMany(c) == at[c] <= numTiles[1]

HasTile(c) == at[c] <= numTiles[1] - 1

ComputeLoop(c) ==
    /\ pos[c] = "code"
    /\ pos' = [pos EXCEPT ![c] = IF HasTile(c) THEN BodyStart(c) ELSE "last"]
    /\ UNCHANGED <<vars, waiting, at, share>>

InputsLoadedFor(c) ==
    \A t \in Input : inBuf[t][BufferOf(at[c])] = Rect(t, at[c])

(* A core is in the kernel from the release of the first barrier until it has
   written its share of the outputs. *)
ComputeKernel(c) ==
    /\ pos[c] = "kernel"
    /\ LET b == BufferOf(at[c])
       IN  /\ share' = [share EXCEPT ![b][c] =
                            IF InputsLoadedFor(c) THEN at[c] ELSE Junk]
           /\ outBuf' = [o \in Output |-> [outBuf[o] EXCEPT ![b] =
                  {IF \A d \in Compute : share'[b][d] = at[c]
                   THEN at[c] ELSE Junk}]]
    /\ pos' = [pos EXCEPT ![c] = "second"]
    /\ UNCHANGED <<waiting, at, nextBuf, loopVars>>
    /\ UNCHANGED <<channel, free, lastAlloc, pending, inBuf, external>>

-----------------------------------------------------------------------------
(* snrt_cluster_hw_barrier. *)

Released(c) ==
    IF pos[c] = "first" THEN KernelFilter(c)
    ELSE IF pos[c] = "second" THEN "code"
    ELSE "out"

(* The last core to arrive releases all of them. *)
Arrive(c) ==
    /\ pos[c] \in Barrier
    /\ c \notin waiting
    /\ IF waiting \cup {c} = Core
       THEN /\ waiting' = {}
            /\ pos' = [d \in Core |-> Released(d)]
            /\ at' = [d \in Compute |->
                          IF pos[d] = "second" THEN at[d] + 1 ELSE at[d]]
            /\ pc' = IF pos[Dm] = "second" THEN "wait_output" ELSE pc
       ELSE /\ waiting' = waiting \cup {c}
            /\ UNCHANGED <<pos, at, pc>>
    /\ UNCHANGED <<share, nextBuf, tensor, tileIdx, i, cur, extRef>>
    /\ UNCHANGED dmaVars

DmaMoves == DmaRuns /\ UNCHANGED clusterVars

DmStep == DmStatement \/ DmCallsBody \/ DmReturns \/ Arrive(Dm)

ComputeStep(c) == ComputeLoop(c) \/ ComputeKernel(c) \/ Arrive(c)

AllOut == \A c \in Core : pos[c] = "out"

ClusterStays == AllOut /\ UNCHANGED snitchVars

ClusterNext ==
    \/ DmStep
    \/ \E c \in Compute : ComputeStep(c)
    \/ DmaMoves
    \/ ClusterStays

(* Every core executes its next statement unless the barrier or a wait holds
   it, and the DMA finishes what it was given. *)
ClusterSpec ==
    /\ ClusterInit
    /\ [][ClusterNext]_snitchVars
    /\ WF_snitchVars(DmStep)
    /\ \A c \in Compute : WF_snitchVars(ComputeStep(c))
    /\ WF_snitchVars(DmaMoves)

-----------------------------------------------------------------------------
ClusterTypeOK ==
    /\ TypeOK
    /\ pos \in [Core -> {"code", "kernel", "out"} \cup Barrier]
    /\ waiting \subseteq Core
    /\ at \in [Compute -> 0..NumTiles]
    /\ share \in [Buffer -> [Compute -> 0..NumTiles]]

(* No compute core works on a tile that the data-movement core has not
   loaded, although only the data-movement core waits for the DMA. *)
ComputeSeesInputs == \A c \in Compute : pos[c] = "kernel" => InputsLoadedFor(c)

(* While a compute core is in the kernel no transfer touches its buffers,
   and transfers in flight stay apart. *)
NoClusterRace ==
    /\ TransfersDisjoint
    /\ \A c \in Compute : pos[c] = "kernel" =>
           \A t \in Tensor : Quiet(t, BufferOf(at[c]))

(* Cores that meet at the barrier come from the same place of the code and
   are at the same tile. *)
SameBarrier ==
    \A c, d \in waiting :
        /\ pos[c] = pos[d]
        /\ c \in Compute /\ pos[c] \in {"first", "second"} =>
               at[c] = (IF d = Dm THEN i ELSE at[d])

(* Behind the barrier of main.c every core sees all results in place. *)
ResultsVisible ==
    \A c \in Core : pos[c] = "out" => ResultsInPlace /\ pending = {}

(* All cores return: none is left alone at a barrier. *)
AllReturn == <>AllOut
=============================================================================
