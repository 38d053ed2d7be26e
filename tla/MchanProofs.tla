---------------------------- MODULE MchanProofs ----------------------------
(***************************************************************************)
(* The PULPOpen transfer code is correct for every field width, number of  *)
(* transfers and size: what a wait has returned for has been moved.        *)
(***************************************************************************)
EXTENDS MchanTransfer, TLAPS

-----------------------------------------------------------------------------
(* Division by the field width undoes the encoding of a command word. *)

(* A number is split into field and flags in one way only. *)
LEMMA SplitUnique ==
    ASSUME NEW L \in Nat, L > 1,
           NEW a \in Nat, NEW b \in Nat, b < L,
           NEW q \in Nat, NEW r \in Nat, r < L,
           a * L + b = q * L + r
    PROVE  a = q /\ b = r
<1>1. CASE a < q
  <2>1. q - a >= 1  BY <1>1
  <2>2. (q - a) * L >= L  BY <2>1
  <2>3. (q - a) * L = b - r  OBVIOUS
  <2>. QED BY <2>2, <2>3
<1>2. CASE q < a
  <2>1. a - q >= 1  BY <1>2
  <2>2. (a - q) * L >= L  BY <2>1
  <2>3. (a - q) * L = r - b  OBVIOUS
  <2>. QED BY <2>2, <2>3
<1>3. CASE a = q
  BY <1>3
<1>. QED BY <1>1, <1>2, <1>3

LEMMA DivMod ==
    ASSUME NEW L \in Nat, L > 1, NEW a \in Nat, NEW b \in Nat, b < L
    PROVE  (a * L + b) \div L = a /\ (a * L + b) % L = b
<1>. DEFINE n == a * L + b
<1>1. n \in Nat  OBVIOUS
<1>2. n = (n \div L) * L + (n % L)  BY <1>1
<1>3. (n \div L) \in Nat /\ (n % L) \in 0..(L - 1)  BY <1>1
<1>. HIDE DEF n
<1>4. a * L + b = (n \div L) * L + (n % L)  BY <1>2 DEF n
<1>5. a = n \div L /\ b = n % L
  BY ONLY <1>3, <1>4, SplitUnique, L \in Nat, L > 1, a \in Nat, b \in Nat, b < L
<1>. QED BY <1>5 DEF n

(* What the hardware reads is what the generator wrote. *)
LEMMA Decoded ==
    ASSUME NEW r \in Request, NEW len \in Nat, len < LenLimit
    PROVE  /\ cmd(r, len) \in Nat
           /\ LenOf(cmd(r, len)) = len
           /\ FlagsOf(cmd(r, len)) = mchanFlags(r)
           /\ DirectionOf(cmd(r, len)) = r.dir
           /\ RaisesEvent(cmd(r, len))
<1>. DEFINE f == mchanFlags(r)
<1>1. f \in {10, 11, 14, 15} /\ (f \in {11, 15} <=> r.dir = "ExternalToLocal")
  BY DEF mchanFlags, Request, Direction
<1>2. Bit(f, 8) = 1 /\ (Bit(f, 1) = 1 <=> f \in {11, 15})
  <2>. HIDE DEF f
  <2>. QED BY <1>1 DEF Bit
<1>3. r.dir \in {"ExternalToLocal", "LocalToExternal"}
  BY DEF Request, Direction
<1>4. LenLimit \in Nat /\ LenLimit > 1
  BY MchanAssumption
<1>. HIDE DEF f
<1>5. f \in Nat  BY <1>1
<1>6. (f * LenLimit + len) \div LenLimit = f /\ (f * LenLimit + len) % LenLimit = len
  BY ONLY <1>4, <1>5, DivMod, len \in Nat, len < LenLimit
<1>7. cmd(r, len) = f * LenLimit + len
  BY DEF cmd, f
<1>8. cmd(r, len) \in Nat
  BY <1>4, <1>5, <1>7
<1>9. LenOf(cmd(r, len)) = len /\ FlagsOf(cmd(r, len)) = f
  BY <1>6, <1>7 DEF LenOf, FlagsOf
<1>10. DirectionOf(cmd(r, len)) = r.dir
  BY <1>9, <1>1, <1>2, <1>3 DEF DirectionOf
<1>11. RaisesEvent(cmd(r, len))
  BY <1>9, <1>2 DEF RaisesEvent
<1>. QED BY <1>8, <1>9, <1>10, <1>11 DEF f

-----------------------------------------------------------------------------
(* The inductive invariant: the bytes pushed so far are those moved and those
   in the queue. *)

Sent(j) ==
    IF pc \in {"generate", "rejected"} THEN 0
    ELSE IF pc = "push" /\ j = job THEN offset
    ELSE IF pc = "push" /\ j > job THEN 0
    ELSE request[j].size

(* Nothing is pushed unless every transfer passed its assertion, and the
   offset stays inside the transfer. *)
Control ==
    /\ pc \notin {"generate", "rejected"} => \A j \in Job : Accepted(request[j])
    /\ IF pc = "push" THEN offset < request[job].size ELSE offset = 0
    /\ pc = "generate" => job = 1

(* The commands in the queue say what was meant. *)
Commands ==
    \A c \in queue :
        /\ LenOf(c.word) \in Nat
        /\ FlagsOf(c.word) = mchanFlags(request[c.job])
        /\ DirectionOf(c.word) = request[c.job].dir
        /\ c.from + LenOf(c.word) <= Sent(c.job)

(* No byte is moved that was not pushed. *)
NothingElse ==
    \A j \in Job : \A x \in moved[j] :
        x.dir = request[j].dir /\ x.byte < Sent(j)

(* Every byte pushed is moved or in the queue. *)
Covers(c, b) == c.from <= b /\ b < c.from + LenOf(c.word)

NothingLost ==
    \A j \in Job, b \in Nat : b < Sent(j) =>
        \/ [dir |-> request[j].dir, byte |-> b] \in moved[j]
        \/ \E c \in queue : c.job = j /\ Covers(c, b)

(* The channel of a transfer whose wait returned stays idle. *)
Idle == \A j \in Job : WaitReturned(j) => ~ mchan_channel_is_busy(j)

IInv == TypeOK /\ Control /\ Commands /\ NothingElse /\ NothingLost /\ Idle

LEMMA InitIInv == Init => IInv
<1>. SUFFICES ASSUME Init PROVE IInv
  OBVIOUS
<1>1. 1 \in Job  BY MchanAssumption DEF Job
<1>2. TypeOK  BY <1>1 DEF Init, TypeOK
<1>3. \A j \in Job : Sent(j) = 0  BY DEF Init, Sent
<1>4. Control  BY DEF Init, Control
<1>5. Commands  BY DEF Init, Commands
<1>6. NothingElse  BY DEF Init, NothingElse
<1>7. NothingLost  BY <1>3 DEF Init, NothingLost
<1>8. Idle  BY DEF Init, Idle, mchan_channel_is_busy
<1>. QED BY <1>2, <1>4, <1>5, <1>6, <1>7, <1>8 DEF IInv

(* The claims about moved bytes and queued commands survive a step that keeps
   the requests, the queue, what was moved, and what was pushed. *)
LEMMA Untouched ==
    ASSUME IInv, UNCHANGED <<request, queue, moved>>,
           \A j \in Job : Sent(j)' = Sent(j)
    PROVE  Commands' /\ NothingElse' /\ NothingLost'
<1>1. \A c \in queue : c.job \in Job  BY DEF IInv, TypeOK
<1>2. Commands'  BY <1>1 DEF IInv, Commands
<1>3. NothingElse'  BY DEF IInv, NothingElse
<1>4. NothingLost'  BY DEF IInv, NothingLost, Covers
<1>. QED BY <1>2, <1>3, <1>4

LEMMA GenerateStep == ASSUME IInv, Generate PROVE IInv'
<1>. USE DEF IInv, Generate
<1>1. TypeOK'  BY DEF TypeOK
<1>2. request[job].size > 0 /\ job \in Job  BY DEF TypeOK, Request
<1>3. \A j \in Job : Sent(j)' = Sent(j)
  BY <1>2 DEF Sent, Control, TypeOK, Job
<1>4. Control'  BY <1>2 DEF Control, Accepted, IsSplit
<1>5. Commands' /\ NothingElse' /\ NothingLost'
  BY <1>3, Untouched
<1>6. Idle'  BY DEF Idle, WaitReturned
<1>. QED BY <1>1, <1>4, <1>5, <1>6

LEMMA PushStep == ASSUME IInv, Push, Target = "PULPOpen" PROVE IInv'
<1>. USE DEF IInv
<1>. DEFINE r == request[job]
            n == ChunkSize(r)
            c == [job |-> job, from |-> offset, word |-> cmd(r, n)]
<1>1. /\ pc = "push" /\ job \in Job /\ r \in Request /\ offset \in Nat
      /\ offset < r.size /\ r.size \in Nat /\ Accepted(r)
  BY DEF Push, TypeOK, Control, Request
<1>2. n \in Nat /\ 1 <= n /\ n < LenLimit /\ offset + n <= r.size
  BY <1>1, MchanAssumption DEF ChunkSize, Accepted, IsSplit, _MAX_1D_TRANSFER_BYTES
<1>3. /\ cmd(r, n) \in Nat /\ LenOf(cmd(r, n)) = n
      /\ FlagsOf(cmd(r, n)) = mchanFlags(r) /\ DirectionOf(cmd(r, n)) = r.dir
  BY <1>1, <1>2, Decoded
<1>4. /\ queue' = queue \cup {c} /\ UNCHANGED <<request, event, moved>>
      /\ IF offset + n < r.size
         THEN offset' = offset + n /\ job' = job /\ pc' = pc
         ELSE /\ offset' = 0
              /\ IF job < NumJobs THEN job' = job + 1 /\ pc' = pc
                 ELSE job' = 1 /\ pc' = "poll"
  BY DEF Push
<1>. HIDE DEF n
<1>5. TypeOK'
  <2>1. c \in [job : Job, from : Nat, word : Nat]  BY <1>1, <1>3
  <2>2. job' \in Job /\ offset' \in Nat /\ pc' \in {"push", "poll"}
    BY <1>1, <1>2, <1>4, MchanAssumption DEF Job
  <2>. QED BY <1>4, <2>1, <2>2 DEF TypeOK
<1>6. Control'
  <2>1. \A j \in Job : request[j].size \in Nat /\ request[j].size > 0
    BY DEF TypeOK, Request
  <2>. QED BY <1>1, <1>2, <1>4, <1>5, <2>1 DEF Control, Accepted, IsSplit, TypeOK
<1>7. \A j \in Job : Sent(j)' = IF j = job THEN offset + n ELSE Sent(j)
  <2>1. offset \in Nat /\ n \in Nat /\ r.size \in Nat /\ offset + n <= r.size
    BY <1>1, <1>2
  <2>2. CASE offset + n < r.size
    BY <2>2, <1>1, <1>4 DEF Sent
  <2>3. CASE ~ offset + n < r.size
    <3>1. offset + n = r.size  BY <2>1, <2>3
    <3>2. NumJobs \in Nat /\ \A j \in Job : j \in Nat /\ j <= NumJobs
      BY MchanAssumption DEF Job
    <3>3. CASE job < NumJobs
      <4>1. pc' = "push" /\ job' = job + 1 /\ offset' = 0 /\ request' = request
        BY <2>3, <3>3, <1>1, <1>4
      <4>. QED BY <4>1, <3>1, <3>2, <1>1 DEF Sent
    <3>4. CASE ~ job < NumJobs
      <4>1. pc' = "poll" /\ request' = request  BY <2>3, <3>4, <1>4
      <4>2. \A j \in Job : ~ j > job  BY <3>2, <3>4, <1>1
      <4>. QED BY <4>1, <4>2, <3>1, <1>1 DEF Sent
    <3>. QED BY <3>3, <3>4
  <2>. QED BY <2>2, <2>3
<1>8. Sent(job) = offset
  BY <1>1 DEF Sent
<1>9. Commands'
  <2>. SUFFICES ASSUME NEW d \in queue'
                PROVE  /\ LenOf(d.word) \in Nat
                       /\ FlagsOf(d.word) = mchanFlags(request[d.job])
                       /\ DirectionOf(d.word) = request[d.job].dir
                       /\ d.from + LenOf(d.word) <= Sent(d.job)'
    BY <1>4 DEF Commands, LenOf, FlagsOf, DirectionOf, mchanFlags
  <2>1. CASE d = c
    BY <2>1, <1>1, <1>2, <1>3, <1>7
  <2>2. CASE d \in queue
    <3>1. d.job \in Job /\ d.from \in Nat  BY <2>2 DEF TypeOK
    <3>. QED BY <2>2, <3>1, <1>1, <1>2, <1>7, <1>8 DEF Commands
  <2>. QED BY <2>1, <2>2, <1>4
<1>10. NothingElse'
  <2>. SUFFICES ASSUME NEW j \in Job, NEW x \in moved[j]
                PROVE  x.dir = request[j].dir /\ x.byte < Sent(j)'
    BY <1>4 DEF NothingElse
  <2>1. x.dir = request[j].dir /\ x.byte < Sent(j) /\ x.byte \in Nat
    BY DEF NothingElse, TypeOK
  <2>. QED BY <2>1, <1>1, <1>2, <1>7, <1>8
<1>11. NothingLost'
  <2>. SUFFICES ASSUME NEW j \in Job, NEW b \in Nat, b < Sent(j)'
                PROVE  \/ [dir |-> request[j].dir, byte |-> b] \in moved[j]
                       \/ \E d \in queue' : d.job = j /\ Covers(d, b)
    BY <1>4 DEF NothingLost, Covers, LenOf
  <2>1. CASE b < Sent(j)
    BY <2>1, <1>4 DEF NothingLost
  <2>2. CASE ~ b < Sent(j)
    <3>1. j = job /\ offset <= b /\ b < offset + n
      BY <2>2, <1>1, <1>2, <1>7, <1>8
    <3>2. c \in queue' /\ c.job = j /\ Covers(c, b)
      BY <3>1, <1>3, <1>4 DEF Covers
    <3>. QED BY <3>2
  <2>. QED BY <2>1, <2>2
<1>12. Idle'
  <2>1. \A j \in Job : ~ WaitReturned(j)'
    BY <1>1, <1>4 DEF WaitReturned, Job
  <2>. QED BY <2>1 DEF Idle
<1>. QED BY <1>5, <1>6, <1>9, <1>10, <1>11, <1>12

LEMMA PollStep == ASSUME IInv, Poll PROVE IInv'
<1>. USE DEF IInv, Poll
<1>1. TypeOK'  BY MchanAssumption DEF TypeOK, Job
<1>2. \A j \in Job : Sent(j)' = Sent(j)  BY DEF Sent
<1>3. Control'  BY DEF Control, Accepted, IsSplit
<1>4. Commands' /\ NothingElse' /\ NothingLost'  BY <1>2, Untouched
<1>5. Idle'
  BY MchanAssumption DEF Idle, WaitReturned, mchan_channel_is_busy, TypeOK, Job
<1>. QED BY <1>1, <1>3, <1>4, <1>5

LEMMA WakeStep == ASSUME IInv, Wake PROVE IInv'
<1>. USE DEF IInv, Wake
<1>1. TypeOK'  BY DEF TypeOK
<1>2. \A j \in Job : Sent(j)' = Sent(j)  BY DEF Sent
<1>3. Control'  BY DEF Control, Accepted, IsSplit
<1>4. Commands' /\ NothingElse' /\ NothingLost'  BY <1>2, Untouched
<1>5. Idle'  BY DEF Idle, WaitReturned, mchan_channel_is_busy
<1>. QED BY <1>1, <1>3, <1>4, <1>5

LEMMA CompleteStep ==
    ASSUME IInv, NEW c \in queue, Complete(c) PROVE IInv'
<1>. USE DEF IInv
<1>. DEFINE new == Bytes(DirectionOf(c.word), c.from, LenOf(c.word))
<1>1. /\ c.job \in Job /\ c.from \in Nat /\ LenOf(c.word) \in Nat
      /\ DirectionOf(c.word) = request[c.job].dir
      /\ c.from + LenOf(c.word) <= Sent(c.job)
  BY DEF TypeOK, Commands
<1>2. /\ queue' = queue \ {c} /\ moved' = [moved EXCEPT ![c.job] = @ \cup new]
      /\ UNCHANGED <<pc, request, job, offset>> /\ event' \in BOOLEAN
  BY DEF Complete, RaisesEvent, TypeOK
<1>3. \A x \in new : x \in [dir : Direction, byte : Nat] /\ x.dir = request[c.job].dir
          /\ x.byte < Sent(c.job)
  <2>1. \A j \in Job : Sent(j) \in Nat
    BY DEF Sent, TypeOK, Request
  <2>. QED BY <1>1, <2>1 DEF Bytes, TypeOK, Request
<1>4. \A b \in Nat : Covers(c, b) => [dir |-> request[c.job].dir, byte |-> b] \in new
  BY <1>1 DEF Covers, Bytes
<1>. HIDE DEF new
<1>5. TypeOK'
  BY <1>1, <1>2, <1>3 DEF TypeOK
<1>6. \A j \in Job : Sent(j)' = Sent(j)  BY <1>2 DEF Sent
<1>7. \A j \in Job : moved[j]' = IF j = c.job THEN moved[j] \cup new ELSE moved[j]
  BY <1>1, <1>2 DEF TypeOK
<1>8. Control'  BY <1>2 DEF Control, Accepted, IsSplit
<1>9. Commands'  BY <1>2, <1>6 DEF Commands, TypeOK
<1>10. NothingElse'  BY <1>2, <1>3, <1>6, <1>7 DEF NothingElse
<1>11. NothingLost'
  <2>. SUFFICES ASSUME NEW j \in Job, NEW b \in Nat, b < Sent(j)
                PROVE  \/ [dir |-> request[j].dir, byte |-> b] \in moved[j]'
                       \/ \E d \in queue' : d.job = j /\ Covers(d, b)
    BY <1>2, <1>6 DEF NothingLost, Covers, LenOf
  <2>1. CASE [dir |-> request[j].dir, byte |-> b] \in moved[j]
    BY <2>1, <1>7
  <2>2. CASE \E d \in queue : d.job = j /\ Covers(d, b)
    <3>1. PICK d \in queue : d.job = j /\ Covers(d, b)  BY <2>2
    <3>2. CASE d = c  BY <3>1, <3>2, <1>1, <1>4, <1>7
    <3>3. CASE d # c  BY <3>1, <3>3, <1>2
    <3>. QED BY <3>2, <3>3
  <2>. QED BY <2>1, <2>2 DEF NothingLost
<1>12. Idle'  BY <1>2 DEF Idle, WaitReturned, mchan_channel_is_busy
<1>. QED BY <1>5, <1>8, <1>9, <1>10, <1>11, <1>12

LEMMA Inductive == ASSUME Target = "PULPOpen" PROVE Spec => []IInv
<1>1. Init => IInv  BY InitIInv
<1>2. IInv /\ [Next]_vars => IInv'
  <2>. SUFFICES ASSUME IInv, [Next]_vars PROVE IInv'  OBVIOUS
  <2>1. CASE UNCHANGED vars
    <3>. USE <2>1 DEF vars, IInv
    <3>1. \A j \in Job : Sent(j)' = Sent(j)  BY DEF Sent
    <3>2. Commands' /\ NothingElse' /\ NothingLost'  BY <3>1, Untouched
    <3>. QED BY <3>2 DEF TypeOK, Control, Accepted, IsSplit, Idle, WaitReturned,
                         mchan_channel_is_busy
  <2>2. CASE Generate  BY <2>2, GenerateStep
  <2>3. CASE Push  BY <2>3, PushStep
  <2>4. CASE Poll  BY <2>4, PollStep
  <2>5. CASE Wake  BY <2>5, WakeStep
  <2>6. CASE DmaWorks  BY <2>6, CompleteStep DEF DmaWorks
  <2>. QED BY <2>1, <2>2, <2>3, <2>4, <2>5, <2>6 DEF Next, CoreStep, Stay
<1>. QED BY <1>1, <1>2, PTL DEF Spec

-----------------------------------------------------------------------------
(* The PULPOpen code keeps its variables in their types, for every width of
   the length field, any number of transfers and any size. *)
THEOREM TypeCorrect == ASSUME Target = "PULPOpen" PROVE Spec => []TypeOK
<1>1. IInv => TypeOK  BY DEF IInv
<1>. QED BY Inductive, <1>1, PTL

(* No chunk's length reaches the flag bits of its command. *)
THEOREM NoCarry == ASSUME Target = "PULPOpen" PROVE Spec => []FlagsSurvive
<1>1. IInv => FlagsSurvive  BY DEF IInv, Commands, FlagsSurvive
<1>. QED BY Inductive, <1>1, PTL

(* What a wait has returned for has been moved, all of it and nothing else. *)
THEOREM WaitIsEnough == ASSUME Target = "PULPOpen" PROVE Spec => []WaitedIsMoved
<1>1. IInv => WaitedIsMoved
  <2>. SUFFICES ASSUME IInv, NEW j \in Job, WaitReturned(j)
                PROVE  moved[j] = Whole(request[j])
    BY DEF WaitedIsMoved
  <2>. USE DEF IInv
  <2>1. Sent(j) = request[j].size /\ request[j].size \in Nat
    BY DEF Sent, WaitReturned, TypeOK, Request
  <2>2. \A x \in moved[j] : x \in Whole(request[j])
    <3>. SUFFICES ASSUME NEW x \in moved[j] PROVE x \in Whole(request[j])
      OBVIOUS
    <3>1. x.dir = request[j].dir /\ x.byte < request[j].size
      BY <2>1 DEF NothingElse
    <3>2. x \in [dir : Direction, byte : Nat]  BY DEF TypeOK
    <3>3. x = [dir |-> x.dir, byte |-> x.byte] /\ x.byte \in 0..(0 + request[j].size - 1)
      BY <3>1, <3>2, <2>1
    <3>. QED BY <3>1, <3>3 DEF Whole, Bytes
  <2>3. \A x \in Whole(request[j]) : x \in moved[j]
    <3>. SUFFICES ASSUME NEW b \in 0..(0 + request[j].size - 1)
                  PROVE  [dir |-> request[j].dir, byte |-> b] \in moved[j]
      BY DEF Whole, Bytes
    <3>1. b \in Nat /\ b < Sent(j)  BY <2>1
    <3>2. ~ \E c \in queue : c.job = j  BY DEF Idle, mchan_channel_is_busy
    <3>. QED BY <3>1, <3>2 DEF NothingLost
  <2>. QED BY <2>2, <2>3
<1>. QED BY Inductive, <1>1, PTL
=============================================================================
