--------------------------- MODULE MchanTransfer ---------------------------
(***************************************************************************)
(* How one transfer of AsyncDma becomes commands of the MCHAN DMA and how  *)
(* its wait finds out that they are done (Targets/PULPOpen/DMA/MchanDma.py, *)
(* Targets/GAP9/DMA/MchanDma.py, mchan_v7.h).                              *)
(*                                                                         *)
(* A command word holds the length in its low field, which counts up to    *)
(* LenLimit - 1 (LenLimit is 2^17 in the source), and the flags above it.  *)
(* The transfers of one tile are pushed one after the other, each on its   *)
(* own channel, and then waited for in the same order; all channels share  *)
(* one event line.                                                         *)
(***************************************************************************)
EXTENDS Integers

CONSTANTS
    Target,     \* "PULPOpen" splits a long transfer, "GAP9" does not
    LenLimit,   \* 2^MCHAN_TRANSFER_LEN_SIZE
    NumJobs,    \* the number of transfers pushed before the first wait
    MaxSize     \* bound on the size of a transfer, in bytes

ASSUME MchanAssumption ==
    /\ Target \in {"PULPOpen", "GAP9"}
    /\ LenLimit \in Nat /\ LenLimit > 1
    /\ NumJobs \in Nat \ {0}
    /\ MaxSize \in Nat \ {0}

Job       == 1..NumJobs
Direction == {"ExternalToLocal", "LocalToExternal"}
Request   == [size : 1..MaxSize, rank : {1, 2}, dir : Direction]

VARIABLES
    pc,        \* what the core does next
    request,   \* the transfers the tile loop asks for
    job,       \* the transfer being pushed or waited for
    offset,    \* how many bytes of it have been pushed
    queue,     \* commands pushed and not completed
    event,     \* the buffered DMA event
    moved      \* the bytes moved by each transfer, with their direction

vars == <<pc, request, job, offset, queue, event, moved>>

-----------------------------------------------------------------------------
(* Command words. *)

_MAX_1D_TRANSFER_BYTES == LenLimit - 1

(* Mutant of mchanFlags: completion events are not enabled. *)
NoEventFlag(r) ==
    (IF r.dir = "ExternalToLocal" THEN 1 ELSE 0)
    + 2
    + (IF r.rank = 2 THEN 4 ELSE 0)

mchanFlags(r) ==
    (IF r.dir = "ExternalToLocal" THEN 1 ELSE 0)
    + 2
    + (IF r.rank = 2 THEN 4 ELSE 0)
    + 8

cmd(r, len) == mchanFlags(r) * LenLimit + len

(* What the hardware reads out of a command word. *)
LenOf(word)   == word % LenLimit
FlagsOf(word) == word \div LenLimit
Bit(n, b)     == (n \div b) % 2

DirectionOf(word) ==
    IF Bit(FlagsOf(word), 1) = 1 THEN "ExternalToLocal" ELSE "LocalToExternal"

RaisesEvent(word) == Bit(FlagsOf(word), 8) = 1

(* Transfers that are generated as several commands. *)
IsSplit(r) ==
    /\ Target = "PULPOpen"
    /\ r.rank = 1
    /\ r.size > _MAX_1D_TRANSFER_BYTES

(* The assertion on the size.  GAP9 asks for ceil(log2(size)) <= 17. *)
Accepted(r) ==
    IF Target = "PULPOpen"
    THEN IsSplit(r) \/ r.size <= _MAX_1D_TRANSFER_BYTES
    ELSE r.size <= LenLimit

-----------------------------------------------------------------------------
Init ==
    /\ pc = "generate"
    /\ request \in [Job -> Request]
    /\ job = 1
    /\ offset = 0
    /\ queue = {}
    /\ event = FALSE
    /\ moved = [j \in Job |-> {}]

(* Code is generated unless a transfer fails its assertion. *)
Generate ==
    /\ pc = "generate"
    /\ pc' = IF \A j \in Job : Accepted(request[j]) THEN "push" ELSE "rejected"
    /\ UNCHANGED <<request, job, offset, queue, event, moved>>

(* Mutant of ChunkSize: a chunk may fill 2^17 bytes. *)
OversizedChunk(r) ==
    IF r.size - offset > LenLimit THEN LenLimit ELSE r.size - offset

ChunkSize(r) ==
    IF IsSplit(r) /\ r.size - offset > _MAX_1D_TRANSFER_BYTES
    THEN _MAX_1D_TRANSFER_BYTES
    ELSE r.size - offset

(* mchan_transfer_1d or _2d: one command, for the bytes from offset on. *)
Push ==
    /\ pc = "push"
    /\ LET r == request[job]
           n == ChunkSize(r)
       IN  /\ queue' = queue \cup
                  {[job |-> job, from |-> offset, word |-> cmd(r, n)]}
           /\ IF offset + n < r.size
              THEN offset' = offset + n /\ job' = job /\ pc' = pc
              ELSE /\ offset' = 0
                   /\ IF job < NumJobs
                      THEN job' = job + 1 /\ pc' = pc
                      ELSE job' = 1 /\ pc' = "poll"
    /\ UNCHANGED <<request, event, moved>>

mchan_channel_is_busy(j) == \E c \in queue : c.job = j

(* Mutants of Poll: the status of the channel is not looked at, and one wait
   too many follows the last. *)
PollNothing ==
    /\ pc = "poll"
    /\ pc' = IF job < NumJobs THEN pc ELSE "done"
    /\ job' = IF job < NumJobs THEN job + 1 ELSE job
    /\ UNCHANGED <<request, offset, queue, event, moved>>

PollPastLast ==
    /\ pc = "poll"
    /\ IF mchan_channel_is_busy(job)
       THEN pc' = "sleep" /\ job' = job
       ELSE /\ pc' = IF job <= NumJobs THEN pc ELSE "done"
            /\ job' = IF job <= NumJobs THEN job + 1 ELSE job
    /\ UNCHANGED <<request, offset, queue, event, moved>>

(* mchan_channel_wait: the loop test, and mchan_channel_free after it. *)
Poll ==
    /\ pc = "poll"
    /\ IF mchan_channel_is_busy(job)
       THEN pc' = "sleep" /\ job' = job
       ELSE /\ pc' = IF job < NumJobs THEN pc ELSE "done"
            /\ job' = IF job < NumJobs THEN job + 1 ELSE job
    /\ UNCHANGED <<request, offset, queue, event, moved>>

(* eu_evt_maskWaitAndClr: sleep until the event is there, and clear it. *)
Wake ==
    /\ pc = "sleep"
    /\ event
    /\ event' = FALSE
    /\ pc' = "poll"
    /\ UNCHANGED <<request, job, offset, queue, moved>>

(* The hardware carries out one command. *)
Bytes(d, from, len) == {[dir |-> d, byte |-> b] : b \in from..(from + len - 1)}

Complete(c) ==
    /\ queue' = queue \ {c}
    /\ moved' = [moved EXCEPT ![c.job] =
                     @ \cup Bytes(DirectionOf(c.word), c.from, LenOf(c.word))]
    /\ event' = (event \/ RaisesEvent(c.word))
    /\ UNCHANGED <<pc, request, job, offset>>

DmaWorks == \E c \in queue : Complete(c)

CoreStep == Generate \/ Push \/ Poll \/ Wake

Stopped == pc \in {"done", "rejected"}

Stay == Stopped /\ UNCHANGED vars

Next == CoreStep \/ DmaWorks \/ Stay

(* The core executes its next statement unless it sleeps, and the DMA carries
   out what it was given. *)
Spec == Init /\ [][Next]_vars /\ WF_vars(CoreStep) /\ WF_vars(DmaWorks)

-----------------------------------------------------------------------------
TypeOK ==
    /\ pc \in {"generate", "rejected", "push", "poll", "sleep", "done"}
    /\ request \in [Job -> Request]
    /\ job \in Job
    /\ offset \in Nat
    /\ queue \subseteq [job : Job, from : Nat, word : Nat]
    /\ event \in BOOLEAN
    /\ moved \in [Job -> SUBSET [dir : Direction, byte : Nat]]

(* The hardware reads from a command word the flags that were put into it:
   no length carries into the flag bits above the length field. *)
FlagsSurvive ==
    \A c \in queue : FlagsOf(c.word) = mchanFlags(request[c.job])

(* When the wait on a transfer has returned, all its bytes have been moved,
   each in the requested direction, and no other: no chunk is missing, in
   flight, misread, or past the end. *)
WaitReturned(j) ==
    \/ pc = "done"
    \/ pc \in {"poll", "sleep"} /\ j < job

Whole(r) == Bytes(r.dir, 0, r.size)

WaitedIsMoved == \A j \in Job : WaitReturned(j) => moved[j] = Whole(request[j])

(* The core never sleeps through the completion it waits for, although one
   event line serves all channels. *)
Returns == <>Stopped
=============================================================================
