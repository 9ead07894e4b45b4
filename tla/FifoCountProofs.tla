--------------------------- MODULE FifoCountProofs ---------------------------
(***************************************************************************)
(* What holds of Fifo while nobody unlinks it under an open: the counters  *)
(* of readers and writers, the marks of woken openers and the wakeups of   *)
(* the last close.  Where a woken opener must find a descriptor, the pool  *)
(* has one for every place in the tables of the processes.                 *)
(***************************************************************************)
EXTENDS FifoProofs

-----------------------------------------------------------------------------
(* The parts of the invariant.                                             *)

\* Who sleeps in open, or was woken there and counted by the process it met.
Opening ==
  Range(waiting_list_open_reader) \cup Range(waiting_list_open_writer)
    \cup syscall_intermediate_data

\* Nobody waits for a fifo that cannot be opened any more.
OpeningLinked ==
  fifo # "linked" =>
    Range(waiting_list_open_reader) \cup Range(waiting_list_open_writer) = {}

\* Who sleeps in open, or was woken there, will find its place when it tries again.
OpeningOK ==
  \A p \in Opening :
    /\ p \in Workers
    /\ call[p].op \in {"RDONLY", "WRONLY"}
    /\ call[p].op = "WRONLY" => ~call[p].nonblock
    /\ FreeFds(p) # {}
    /\ fifo = "linked"

\* The descriptor pool has a block for every place in the tables of the processes.
PoolSuffices == Cardinality(Workers) * MaxFds <= MaxDescriptors

CountIInv ==
  /\ FifoIInv
  /\ OpeningOK
  /\ NeverUndercounts
  /\ HangupWakesAll

-----------------------------------------------------------------------------
(* Nobody waits for a fifo that is gone, and close and unlink are safe.    *)

\* Nothing happens any more after the kernel died.
LEMMA StepsAlive == FifoNext => ~panic
<1>. QED BY DEF FifoNext, FifoSchedule, internal_schedule, EnterOpen, EnterTransfer, FifoSyscall,
                Resource_close, Resource_unlink, Fifo_mk, Issues

\* An unlink waits until nobody is in an open, and only a linked fifo lets openers wait.
LEMMA OpeningLinkedStep ==
  ASSUME ~UnlinkDuringOpen, FifoIInv, OpeningLinked, FifoNext
  PROVE  OpeningLinked'
<1>1. CASE UNCHANGED <<fifo, openers>>
  BY <1>1 DEF openers, OpeningLinked
<1>2. CASE fifo' = "linked"
  BY <1>2 DEF OpeningLinked
<1>3. ASSUME NEW p \in Workers, Resource_open(p)
      PROVE  OpeningLinked'
  BY <1>1, <1>2, <1>3 DEF Resource_open, OpenFails, OpenReader, OpenWriter, Opened, Crash
<1>4. ASSUME NEW p \in Workers,
             Fifo_read(p) \/ Fifo_write(p) \/ EnterOpen(p) \/ EnterTransfer(p) \/ Fifo_mk(p)
      PROVE  OpeningLinked'
  BY <1>1, <1>2, <1>4 DEF Fifo_read, Fifo_write, EnterOpen, EnterTransfer, Fifo_mk
<1>5. ASSUME NEW p \in Workers, Resource_close(p)
      PROVE  OpeningLinked'
  <2>1. UNCHANGED <<waiting_list_open_reader, waiting_list_open_writer>>
    BY <1>5 DEF Resource_close
  <2>2. fifo # "linked" \/ fifo' = "linked"
    BY <1>5 DEF Resource_close, Resource_destroy
  <2>. QED BY <1>2, <2>1, <2>2 DEF OpeningLinked
<1>6. ASSUME NEW p \in Workers, Resource_unlink(p)
      PROVE  OpeningLinked'
  <2>1. Openers = {} /\ UNCHANGED openers
    BY <1>6 DEF Resource_unlink
  <2>2. Range(waiting_list_open_reader) \cup Range(waiting_list_open_writer) = {}
    BY <2>1, RunnerAwake DEF FifoIInv, Core, CallsOK, Openers, Waiters
  <2>. QED BY <2>1, <2>2 DEF openers, OpeningLinked
<1>7. CASE FifoSchedule
  BY <1>1, <1>7 DEF FifoSchedule
<1>. QED BY <1>3, <1>4, <1>5, <1>6, <1>7 DEF FifoNext, FifoSyscall

\* The last close and an unlink leave nobody behind who waits.
LEMMA NobodyLeft ==
  ASSUME FifoIInv, FifoNext, descriptors' = {},
         Range(waiting_list_open_reader') \cup Range(waiting_list_open_writer') = {}
  PROVE  Waiters' = {}
<1>1. Core' /\ DescriptorsOK'
  BY CoreStep, DescriptorsStep
<1>2. \A p \in Procs : call'[p].op # "read" /\ call'[p].op # "write"
  BY <1>1 DEF DescriptorsOK, Open
<1>3. Waiters' \subseteq Procs
  BY <1>1 DEF Core, QueuesOK, Asleep
<1>4. /\ \A p \in Range(waiting_list_read') : call'[p].op = "read"
      /\ \A p \in Range(waiting_list_write') : call'[p].op = "write"
  BY <1>1 DEF Core, CallsOK, WaitersCall
<1>. QED BY <1>2, <1>3, <1>4 DEF Waiters, Blocked

\* The kernel dies only in a call that had to wait.
LEMMA AssertionsStep ==
  ASSUME ~UnlinkDuringOpen, FifoIInv, OpeningLinked, AssertionsHold, FifoNext
  PROVE  AssertionsHold'
<1>. USE DEF AssertionsHold
<1>1. ~panic
  BY StepsAlive
<1>2. CASE panic' = panic
  BY <1>1, <1>2
<1>3. ASSUME Crash, call[running].op \in {"read", "write", "RDONLY", "WRONLY"}
      PROVE  AssertionsHold'
  BY <1>3, IdleCall DEF Crash, sched
<1>4. ASSUME NEW p \in Workers, FifoSyscall(p)
      PROVE  AssertionsHold'
  <2>1. running = p
    BY <1>4 DEF FifoSyscall
  <2>2. CASE Resource_open(p)
    BY <1>2, <1>3, <2>1, <2>2 DEF Resource_open, OpenFails, OpenReader, OpenWriter, Opened
  <2>3. CASE Fifo_read(p)
    BY <1>2, <1>3, <2>1, <2>3 DEF Fifo_read, Ipc_read, Answer, Ipc_lock_reader, ReadBytes
  <2>4. CASE Fifo_write(p)
    BY <1>2, <1>3, <2>1, <2>4 DEF Fifo_write, Ipc_write, Answer, Ipc_lock_writer, WriteBytes
  <2>. QED BY <1>4, <2>2, <2>3, <2>4 DEF FifoSyscall
<1>5. ASSUME NEW p \in Workers, Resource_close(p)
      PROVE  AssertionsHold'
  <2>1. /\ UNCHANGED <<waiting_list_open_reader, waiting_list_open_writer>>
        /\ Resource_destroy(fifo)
    BY <1>5 DEF Resource_close
  <2>2. fifo = "unlinked" /\ descriptors' = {} => Waiters' = {}
    BY <2>1, NobodyLeft DEF OpeningLinked
  <2>. QED BY <2>1, <2>2 DEF Resource_destroy
<1>6. ASSUME NEW p \in Workers, Resource_unlink(p)
      PROVE  AssertionsHold'
  <2>1. /\ Openers = {} /\ Resource_destroy("unlinked")
        /\ UNCHANGED <<waiting_list_open_reader, waiting_list_open_writer>>
    BY <1>6 DEF Resource_unlink, openers
  <2>2. Range(waiting_list_open_reader) \cup Range(waiting_list_open_writer) = {}
    BY <2>1, RunnerAwake DEF FifoIInv, Core, CallsOK, Openers, Waiters
  <2>3. descriptors' = {} => Waiters' = {}
    BY <2>1, <2>2, NobodyLeft
  <2>. QED BY <2>1, <2>3 DEF Resource_destroy
<1>7. ASSUME NEW p \in Workers, EnterOpen(p) \/ EnterTransfer(p) \/ Fifo_mk(p)
      PROVE  AssertionsHold'
  BY <1>2, <1>7 DEF EnterOpen, EnterTransfer, Fifo_mk
<1>8. CASE FifoSchedule
  BY <1>2, <1>8 DEF FifoSchedule, internal_schedule
<1>. QED BY <1>4, <1>5, <1>6, <1>7, <1>8 DEF FifoNext

\* The assertions of Fifo_desetter and Ipc_desetter hold while unlink waits for opens.
THEOREM AssertionsNeverFail == ASSUME ~UnlinkDuringOpen PROVE FifoSpec => []AssertionsHold
<1>1. FifoInit => OpeningLinked /\ AssertionsHold
  BY DEF FifoInit, Init, OpeningLinked, AssertionsHold, Range
<1>2. FifoIInv /\ OpeningLinked /\ AssertionsHold /\ [FifoNext]_fifoVars
        => (OpeningLinked /\ AssertionsHold)'
  <2>1. ASSUME OpeningLinked, AssertionsHold, UNCHANGED fifoVars
        PROVE  (OpeningLinked /\ AssertionsHold)'
    BY <2>1 DEF OpeningLinked, AssertionsHold, fifoVars, vars, sched, openers
  <2>. QED BY <2>1, OpeningLinkedStep, AssertionsStep
<1>. QED BY <1>1, <1>2, FifoInvariant, PTL DEF FifoSpec

-----------------------------------------------------------------------------
(* Woken openers find their place.                                         *)

\* While a process has a free place in its table the pool has a block for it.
LEMMA RoomLeft ==
  ASSUME PoolSuffices, DescriptorsOK, NEW p \in Workers, FreeFds(p) # {}
  PROVE  Cardinality(descriptors) < MaxDescriptors
<1>1. PICK f \in 1..MaxFds : \A d \in descriptors : ~(d.pcb = p /\ d.fd = f)
  BY DEF FreeFds
<1>. DEFINE places == Workers \X (1..MaxFds)
            T == places \ {<<p, f>>}
<1>2. \A d \in descriptors : <<d.pcb, d.fd>> \in T
  BY <1>1 DEF DescriptorsOK
<1>3. /\ IsFiniteSet(places) /\ Cardinality(places) = Cardinality(Workers) * MaxFds
      /\ Cardinality(descriptors) \in Nat /\ Cardinality(descriptors) <= Cardinality(T)
  BY <1>2, DescriptorsFinite DEF DescriptorsOK
<1>4. <<p, f>> \in places
  OBVIOUS
<1>5. Cardinality(T) = Cardinality(places) - 1 /\ Cardinality(places) \in Nat
  <2>. HIDE DEF places
  <2>. QED BY <1>3, <1>4, FS_RemoveElement, FS_CardinalityType
<1>6. Cardinality(places) <= MaxDescriptors /\ MaxDescriptors \in Nat
  BY <1>3, FifoAssumption DEF PoolSuffices
<1>. HIDE DEF places, T
<1>. QED BY <1>3, <1>5, <1>6

\* Nobody joins the openers, the fifo stays where it is, and whoever is opening
\* keeps its call and its descriptors.
LEMMA OpeningKept ==
  ASSUME OpeningOK, NEW q, \A r \in Opening' : r # q /\ r \in Opening,
         \A r \in Procs : r # q => call'[r] = call[r],
         \A r \in Procs : r # q => FreeFds(r) \subseteq FreeFds(r)',
         Opening' # {} /\ fifo = "linked" => fifo' = "linked"
  PROVE  OpeningOK'
<1>1. ASSUME NEW r \in Opening'
      PROVE  /\ r \in Workers
             /\ call'[r].op \in {"RDONLY", "WRONLY"}
             /\ call'[r].op = "WRONLY" => ~call'[r].nonblock
             /\ FreeFds(r)' # {}
             /\ fifo' = "linked"
  <2>1. /\ r \in Opening /\ r \in Workers /\ r # q /\ r \in Procs
        /\ call[r].op \in {"RDONLY", "WRONLY"}
        /\ call[r].op = "WRONLY" => ~call[r].nonblock
        /\ FreeFds(r) # {}
        /\ fifo = "linked"
    BY <1>1 DEF OpeningOK, Procs
  <2>2. call'[r] = call[r] /\ FreeFds(r) \subseteq FreeFds(r)'
    BY <2>1
  <2>. QED BY <1>1, <2>1, <2>2
<1>. QED BY <1>1 DEF OpeningOK

\* A successful open: the opener leaves, the openers of the other side are marked.
LEMMA OpenedOpening ==
  ASSUME FifoIInv, OpeningOK, running \in Workers, FreeFds(running) # {},
         fifo = "linked", fifo' = "linked",
         call[running].op \in {"RDONLY", "WRONLY"}, Descriptor_mk(running),
         call' = [call EXCEPT ![running] = Idle],
         Opening' \subseteq Opening \ {running}
  PROVE  OpeningOK'
<1>1. call \in [Procs -> FifoCalls] /\ running \in Procs
  BY RunnerAwake DEF FifoIInv, Core, CallsOK
<1>2. call[running].nonblock \in BOOLEAN
  BY <1>1 DEF FifoCalls
<1>3. PICK e : e.pcb = running /\ descriptors' = descriptors \cup {e}
  BY <1>2, DescriptorMade DEF FifoIInv
<1>4. \A r \in Procs : r # running => call'[r] = call[r] /\ FreeFds(r) \subseteq FreeFds(r)'
  BY <1>1, <1>3 DEF FreeFds
<1>. QED BY <1>4, OpeningKept

\* An opener falls asleep, or goes back to sleep.
LEMMA SleptOpening ==
  ASSUME OpeningOK, running \in Workers, FreeFds(running) # {}, fifo = "linked",
         call[running].op \in {"RDONLY", "WRONLY"},
         call[running].op = "WRONLY" => ~call[running].nonblock,
         UNCHANGED <<call, descriptors, fifo>>,
         Opening' \subseteq Opening \cup {running}
  PROVE  OpeningOK'
<1>1. \A r \in Procs : FreeFds(r)' = FreeFds(r)
  BY DEF FreeFds
<1>. QED BY <1>1 DEF OpeningOK, Procs

\* Every step, while nobody unlinks the fifo under an open.
LEMMA OpeningStep ==
  ASSUME ~UnlinkDuringOpen, PoolSuffices, FifoIInv, OpeningOK, FifoNext
  PROVE  OpeningOK'
<1>1. /\ call \in [Procs -> FifoCalls] /\ running \in Procs
      /\ running \notin Waiters
  BY RunnerAwake DEF FifoIInv, Core, CallsOK
<1>2. \A r \in Opening : r \in Procs /\ call[r].op \in {"RDONLY", "WRONLY"}
  BY DEF OpeningOK, Procs
<1>3. ASSUME UNCHANGED descriptors
      PROVE  \A r \in Procs : FreeFds(r)' = FreeFds(r)
  BY <1>3 DEF FreeFds
<1>4. ASSUME NEW c, call' = [call EXCEPT ![running] = c], UNCHANGED <<fifo, descriptors, openers>>,
             running \notin Opening
      PROVE  OpeningOK'
  <2>1. Opening' = Opening
    BY <1>4 DEF Opening, openers
  <2>. QED BY <1>1, <1>3, <1>4, <2>1, OpeningKept
<1>5. ASSUME UNCHANGED <<call, fifo, descriptors, openers>>
      PROVE  OpeningOK'
  BY <1>5 DEF openers, OpeningOK, Opening, FreeFds
<1>6. CASE FifoSchedule
  BY <1>5, <1>6 DEF FifoSchedule, internal_schedule
<1>7. ASSUME NEW p \in Workers, EnterOpen(p) \/ EnterTransfer(p)
      PROVE  OpeningOK'
  <2>1. running = p /\ running \notin Opening
    BY <1>2, <1>7, IdleCall DEF EnterOpen, EnterTransfer, Issues
  <2>2. /\ \E c : call' = [call EXCEPT ![running] = c]
        /\ UNCHANGED <<fifo, descriptors, openers>>
    BY <1>7, <2>1 DEF EnterOpen, EnterTransfer
  <2>. QED BY <1>4, <2>1, <2>2
<1>8. ASSUME NEW p \in Workers, FifoSyscall(p), Fifo_read(p) \/ Fifo_write(p)
      PROVE  OpeningOK'
  <2>1. running = p /\ running \notin Opening
    BY <1>2, <1>8 DEF FifoSyscall, Fifo_read, Fifo_write
  <2>2. \A r \in Procs : r # running => call'[r] = call[r]
    BY <1>8, <2>1, OpsKept DEF FifoIInv, BytesOK
  <2>3. UNCHANGED <<fifo, descriptors, openers>>
    BY <1>8 DEF Fifo_read, Fifo_write
  <2>4. Opening' = Opening
    BY <2>3 DEF Opening, openers
  <2>. QED BY <1>3, <2>1, <2>2, <2>3, <2>4, OpeningKept
<1>9. ASSUME NEW p \in Workers, running = p, p \in Openers, OpenFails(p)
      PROVE  OpeningOK'
  <2>1. running \notin Opening
    <3>1. ASSUME running \in Opening
          PROVE  /\ fifo = "linked" /\ FreeFds(running) # {}
                 /\ call[running].op \in {"RDONLY", "WRONLY"}
      BY <3>1 DEF OpeningOK
    <3>2. FreeFds(running) # {} => Cardinality(descriptors) < MaxDescriptors
      BY <1>9, RoomLeft DEF FifoIInv
    <3>3. IsFiniteSet(descriptors) /\ Cardinality(descriptors) \in Nat
      <4>. DEFINE T == Workers \X (1..MaxFds)
      <4>1. \A d \in descriptors : <<d.pcb, d.fd>> \in T
        BY DEF FifoIInv, DescriptorsOK
      <4>. QED BY <4>1, DescriptorsFinite DEF FifoIInv, DescriptorsOK
    <3>. QED BY <1>9, <3>1, <3>2, <3>3, FifoAssumption DEF OpenFails
  <2>. QED BY <1>4, <1>9, <2>1 DEF OpenFails, Return
<1>10. ASSUME NEW p \in Workers, running = p, fifo = "linked", FreeFds(p) # {}, OpenReader(p)
       PROVE  OpeningOK'
  <2>1. CASE /\ Opened(p, waiting_list_open_writer)
             /\ waiting_list_open_writer' = StillOpening(waiting_list_open_writer)
             /\ UNCHANGED waiting_list_open_reader
    <3>1. Met(waiting_list_open_writer) = waiting_list_open_writer
      BY DEF Met
    <3>2. Range(waiting_list_open_writer') = {}
      BY <2>1, MetAll DEF FifoIInv, Core, QueuesOK
    <3>3. Opening' \subseteq Opening \ {running}
      BY <1>1, <1>10, <2>1, <3>1, <3>2 DEF Opened, Marked, Opening, Waiters
    <3>. QED BY <1>10, <2>1, <3>3, OpenedOpening DEF OpenReader, Opened, Return
  <2>2. CASE /\ waiting_list_open_reader' = Enqueued(waiting_list_open_reader, running)
             /\ UNCHANGED <<call, fifo, descriptors, waiting_list_open_writer,
                            syscall_intermediate_data>>
    <3>1. Range(waiting_list_open_reader') = Range(waiting_list_open_reader) \cup {running}
      BY <1>1, <2>2, AppendRange DEF Enqueued, FifoIInv, Core, QueuesOK
    <3>2. Opening' \subseteq Opening \cup {running}
      BY <2>2, <3>1 DEF Opening
    <3>. QED BY <1>10, <2>2, <3>2, SleptOpening DEF OpenReader
  <2>3. CASE Crash /\ UNCHANGED <<fifo, descriptors, openers>>
    BY <1>5, <2>3 DEF Crash
  <2>. QED BY <1>10, <2>1, <2>2, <2>3 DEF OpenReader
<1>11. ASSUME NEW p \in Workers, running = p, fifo = "linked", FreeFds(p) # {}, OpenWriter(p)
       PROVE  OpeningOK'
  <2>1. CASE /\ Opened(p, waiting_list_open_reader)
             /\ waiting_list_open_reader' = StillOpening(waiting_list_open_reader)
             /\ UNCHANGED waiting_list_open_writer
    <3>1. Met(waiting_list_open_reader) = waiting_list_open_reader
      BY DEF Met
    <3>2. Range(waiting_list_open_reader') = {}
      BY <2>1, MetAll DEF FifoIInv, Core, QueuesOK
    <3>3. Opening' \subseteq Opening \ {running}
      BY <1>1, <1>11, <2>1, <3>1, <3>2 DEF Opened, Marked, Opening, Waiters
    <3>. QED BY <1>11, <2>1, <3>3, OpenedOpening DEF OpenWriter, Opened, Return
  <2>2. CASE /\ call[p].nonblock /\ Return(p)
             /\ UNCHANGED <<fifo, descriptors, openers>>
    <3>1. running \notin Opening
      BY <1>11, <2>2 DEF OpenWriter, OpeningOK
    <3>. QED BY <1>4, <1>11, <2>2, <3>1 DEF Return
  <2>3. CASE /\ ~call[p].nonblock
             /\ waiting_list_open_writer' = Enqueued(waiting_list_open_writer, running)
             /\ UNCHANGED <<call, fifo, descriptors, waiting_list_open_reader,
                            syscall_intermediate_data>>
    <3>1. Range(waiting_list_open_writer') = Range(waiting_list_open_writer) \cup {running}
      BY <1>1, <2>3, AppendRange DEF Enqueued, FifoIInv, Core, QueuesOK
    <3>2. Opening' \subseteq Opening \cup {running}
      BY <2>3, <3>1 DEF Opening
    <3>. QED BY <1>11, <2>3, <3>2, SleptOpening DEF OpenWriter
  <2>4. CASE Crash /\ UNCHANGED <<fifo, descriptors, openers>>
    BY <1>5, <2>4 DEF Crash
  <2>. QED BY <1>11, <2>1, <2>2, <2>3, <2>4 DEF OpenWriter
<1>12. ASSUME NEW p \in Workers, Resource_close(p)
       PROVE  OpeningOK'
  <2>1. running \notin Opening
    BY <1>2, <1>12, IdleCall DEF Resource_close, Issues
  <2>2. /\ call' = call /\ Opening' = Opening
        /\ descriptors' \subseteq descriptors
        /\ fifo = "linked" => fifo' = "linked"
    BY <1>12 DEF Resource_close, Resource_destroy, Opening
  <2>3. \A r \in Procs : FreeFds(r) \subseteq FreeFds(r)'
    BY <2>2 DEF FreeFds
  <2>. QED BY <2>1, <2>2, <2>3, OpeningKept
<1>13. ASSUME NEW p \in Workers, Resource_unlink(p)
       PROVE  OpeningOK'
  <2>1. Openers = {} /\ UNCHANGED openers
    BY <1>13 DEF Resource_unlink
  <2>2. Opening = {}
    BY <1>2, <2>1 DEF Openers
  <2>3. Opening' = {}
    BY <2>1, <2>2 DEF openers, Opening
  <2>. QED BY <2>3 DEF OpeningOK
<1>14. ASSUME NEW p \in Workers, Fifo_mk(p)
       PROVE  OpeningOK'
  <2>1. Opening = {}
    BY <1>14 DEF Fifo_mk, OpeningOK
  <2>2. Range(<<>>) = {}
    BY DEF Range
  <2>3. Opening' = {}
    BY <1>14, <2>1, <2>2 DEF Fifo_mk, Opening
  <2>. QED BY <2>3 DEF OpeningOK
<1>15. ASSUME NEW p \in Workers, FifoSyscall(p)
       PROVE  OpeningOK'
  BY <1>8, <1>9, <1>10, <1>11, <1>15 DEF FifoSyscall, Resource_open
<1>. QED BY <1>6, <1>7, <1>12, <1>13, <1>14, <1>15 DEF FifoNext

-----------------------------------------------------------------------------
(* Counting.                                                               *)

\* A sequence has at most as many elements as places.
LEMMA RangeCardinality ==
  ASSUME NEW S, NEW q \in Seq(S)
  PROVE  /\ IsFiniteSet(Range(q)) /\ Len(q) \in Nat
         /\ Cardinality(Range(q)) <= Len(q)
<1>1. Len(q) \in Nat /\ DOMAIN q = 1..Len(q) /\ q \in [1..Len(q) -> S]
  BY LenProperties
<1>2. /\ IsFiniteSet(1..Len(q))
      /\ Cardinality(1..Len(q)) = IF 1 > Len(q) THEN 0 ELSE Len(q) - 1 + 1
  BY <1>1, FS_Interval
<1>3. q \in [1..Len(q) -> Range(q)]
  BY <1>1 DEF Range
<1>4. q \in Surjection(1..Len(q), Range(q))
  BY <1>1, <1>3 DEF Surjection, Range
<1>5. IsFiniteSet(Range(q)) /\ Cardinality(Range(q)) <= Cardinality(1..Len(q))
  BY <1>2, <1>4, FS_Surjection
<1>. QED BY <1>1, <1>2, <1>5

\* Descriptors and marks are finitely many.
LEMMA CountsFinite ==
  ASSUME FifoIInv, NEW mode
  PROVE  /\ IsFiniteSet(Open(mode)) /\ Cardinality(Open(mode)) \in Nat
         /\ IsFiniteSet(Counted(mode)) /\ Cardinality(Counted(mode)) \in Nat
<1>1. IsFiniteSet(descriptors)
  <2>. DEFINE T == Workers \X (1..MaxFds)
  <2>1. \A d \in descriptors : <<d.pcb, d.fd>> \in T
    BY DEF FifoIInv, DescriptorsOK
  <2>. QED BY <2>1, DescriptorsFinite DEF FifoIInv, DescriptorsOK
<1>2. IsFiniteSet(syscall_intermediate_data)
  BY ProcsAssumption, FS_Subset DEF FifoIInv
<1>3. IsFiniteSet(Open(mode)) /\ IsFiniteSet(Counted(mode))
  <2>1. Open(mode) \in SUBSET descriptors /\ Counted(mode) \in SUBSET syscall_intermediate_data
    BY DEF Open, Counted
  <2>. QED BY <1>1, <1>2, <2>1, FS_Subset
<1>. QED BY <1>3, FS_CardinalityType

\* What a counter stands for: n covers the descriptors A and the counted openers C.
Covers(n, A, C) == n >= Cardinality(A) + Cardinality(C)

\* It covers fewer openers as well.
LEMMA CoversFewer ==
  ASSUME NEW n \in Int, NEW A, IsFiniteSet(A), NEW C, IsFiniteSet(C),
         NEW B, B \subseteq C, Covers(n, A, C)
  PROVE  Covers(n, A, B)
<1>1. /\ Cardinality(A) \in Nat /\ Cardinality(C) \in Nat /\ Cardinality(B) \in Nat
      /\ Cardinality(B) <= Cardinality(C)
  BY FS_Subset, FS_CardinalityType
<1>. QED BY <1>1 DEF Covers

\* An opener counted when it was woken makes its descriptor without counting again,
\* any other counts one.
LEMMA CoversOpened ==
  ASSUME NEW n \in Int, NEW A, IsFiniteSet(A), NEW C, IsFiniteSet(C), NEW e, NEW p,
         Covers(n, A, C), NEW B, B \subseteq C \ {p}
  PROVE  /\ p \in C => Covers(n, A \cup {e}, B)
         /\ p \notin C => Covers(n + 1, A \cup {e}, B)
<1>1. /\ IsFiniteSet(A \cup {e}) /\ IsFiniteSet(C \ {p})
      /\ Cardinality(A \cup {e}) = IF e \in A THEN Cardinality(A) ELSE Cardinality(A) + 1
      /\ Cardinality(C \ {p}) = IF p \in C THEN Cardinality(C) - 1 ELSE Cardinality(C)
  BY FS_AddElement, FS_RemoveElement
<1>2. Cardinality(A) \in Nat /\ Cardinality(C) \in Nat
  BY FS_CardinalityType
<1>3. Cardinality(B) \in Nat /\ Cardinality(B) <= Cardinality(C \ {p})
  BY <1>1, FS_Subset, FS_CardinalityType
<1>. QED BY <1>1, <1>2, <1>3 DEF Covers

\* The openers that are met are counted all at once.
LEMMA CoversMet ==
  ASSUME NEW n \in Int, NEW A, IsFiniteSet(A), NEW C, IsFiniteSet(C),
         NEW q \in Seq(Procs), Covers(n, A, C), NEW B, B \subseteq C \cup Range(q)
  PROVE  Covers(n + Len(q), A, B)
<1>1. /\ IsFiniteSet(Range(q)) /\ Len(q) \in Nat
      /\ Cardinality(Range(q)) <= Len(q)
  BY RangeCardinality
<1>2. /\ IsFiniteSet(C \cup Range(q))
      /\ Cardinality(C \cup Range(q)) =
           Cardinality(C) + Cardinality(Range(q)) - Cardinality(C \cap Range(q))
  BY <1>1, FS_Union
<1>3. Cardinality(C \cap Range(q)) \in Nat
  <2>1. IsFiniteSet(C \cap Range(q))
    BY FS_Subset
  <2>. QED BY <2>1, FS_CardinalityType
<1>4. /\ Cardinality(A) \in Nat /\ Cardinality(C) \in Nat /\ Cardinality(Range(q)) \in Nat
      /\ Cardinality(C \cup Range(q)) \in Nat
  BY <1>1, <1>2, FS_CardinalityType
<1>5. Cardinality(B) \in Nat /\ Cardinality(B) <= Cardinality(C \cup Range(q))
  BY <1>2, FS_Subset, FS_CardinalityType
<1>. QED BY <1>1, <1>2, <1>3, <1>4, <1>5 DEF Covers

\* A close uncounts the descriptor it destroys.
LEMMA CoversClosed ==
  ASSUME NEW n \in Int, NEW A, IsFiniteSet(A), NEW C, IsFiniteSet(C), NEW e \in A,
         Covers(n, A, C)
  PROVE  Covers(n - 1, A \ {e}, C)
<1>1. Cardinality(A \ {e}) = Cardinality(A) - 1
  BY FS_RemoveElement
<1>2. Cardinality(A) \in Nat /\ Cardinality(C) \in Nat
  BY FS_CardinalityType
<1>. QED BY <1>1, <1>2 DEF Covers

\* A successful open of p for mode, which meets queue, the openers of other.
LEMMA OpenedCounts ==
  ASSUME FifoIInv, OpeningOK, running \in Workers, FreeFds(running) # {},
         NEW mode \in {"RDONLY", "WRONLY"}, NEW other \in {"RDONLY", "WRONLY"}, mode # other,
         call[running].op = mode, Descriptor_mk(running),
         NEW queue \in Seq(Procs), Range(queue) \subseteq Waiters,
         \A p \in Range(queue) : call[p].op = other,
         syscall_intermediate_data' = Marked(running, queue),
         call' = [call EXCEPT ![running] = Idle],
         NEW n \in Int, Covers(n, Open(mode), Counted(mode)),
         NEW m \in Int, Covers(m, Open(other), Counted(other))
  PROVE  /\ Covers(n + Own(running), Open(mode)', Counted(mode)')
         /\ Covers(m + Len(queue), Open(other)', Counted(other)')
<1>1. /\ call \in [Procs -> FifoCalls] /\ running \in Procs
      /\ running \notin Waiters /\ Waiters \subseteq Procs
  BY RunnerAwake DEF FifoIInv, Core, CallsOK
<1>2. call[running].nonblock \in BOOLEAN
  BY <1>1 DEF FifoCalls
<1>3. PICK e : e.mode = mode /\ e \notin descriptors /\ descriptors' = descriptors \cup {e}
  BY <1>2, DescriptorMade DEF FifoIInv
<1>4. Open(mode)' = Open(mode) \cup {e} /\ Open(other)' = Open(other)
  BY <1>3 DEF Open
<1>5. running \in syscall_intermediate_data <=> running \in Counted(mode)
  BY DEF Counted
<1>6. syscall_intermediate_data \subseteq Procs
  BY DEF FifoIInv
<1>7. Counted(mode)' \subseteq Counted(mode) \ {running}
  BY <1>1, <1>6, IdleCall DEF Counted, Marked
<1>8. Counted(other)' \subseteq Counted(other) \cup Range(queue)
  BY <1>1, <1>6, IdleCall DEF Counted, Marked
<1>9. /\ IsFiniteSet(Open(mode)) /\ IsFiniteSet(Open(other))
      /\ IsFiniteSet(Counted(mode)) /\ IsFiniteSet(Counted(other))
  BY CountsFinite
<1>10. Covers(n + Own(running), Open(mode)', Counted(mode)')
  <2>1. /\ running \in Counted(mode) => Covers(n, Open(mode) \cup {e}, Counted(mode)')
        /\ running \notin Counted(mode) => Covers(n + 1, Open(mode) \cup {e}, Counted(mode)')
    BY <1>7, <1>9, CoversOpened
  <2>2. CASE running \in Counted(mode)
    <3>1. n + Own(running) = n
      BY <1>5, <2>2 DEF Own
    <3>. QED BY <1>4, <2>1, <2>2, <3>1
  <2>3. CASE running \notin Counted(mode)
    <3>1. n + Own(running) = n + 1
      BY <1>5, <2>3 DEF Own
    <3>. QED BY <1>4, <2>1, <2>3, <3>1
  <2>. QED BY <2>2, <2>3
<1>11. Covers(m + Len(queue), Open(other)', Counted(other)')
  BY <1>4, <1>8, <1>9, CoversMet
<1>. QED BY <1>10, <1>11

\* A step that makes and closes no descriptor and marks nobody.
LEMMA CountsKept ==
  ASSUME FifoIInv, NeverUndercounts,
         UNCHANGED <<descriptors, readers_number, writers_number, syscall_intermediate_data>>,
         \A p \in syscall_intermediate_data : call'[p].op \in {"none", call[p].op}
  PROVE  NeverUndercounts'
<1>1. \A mode : Open(mode)' = Open(mode)
  BY DEF Open
<1>2. /\ Counted("RDONLY")' \subseteq Counted("RDONLY")
      /\ Counted("WRONLY")' \subseteq Counted("WRONLY")
  BY DEF Counted
<1>3. /\ readers_number \in Int /\ writers_number \in Int
      /\ Covers(readers_number, Open("RDONLY"), Counted("RDONLY"))
      /\ Covers(writers_number, Open("WRONLY"), Counted("WRONLY"))
  BY DEF FifoIInv, OpenersOK, NeverUndercounts, Covers
<1>4. /\ IsFiniteSet(Open("RDONLY")) /\ IsFiniteSet(Counted("RDONLY"))
      /\ IsFiniteSet(Open("WRONLY")) /\ IsFiniteSet(Counted("WRONLY"))
  BY CountsFinite
<1>5. /\ Covers(readers_number, Open("RDONLY"), Counted("RDONLY")')
      /\ Covers(writers_number, Open("WRONLY"), Counted("WRONLY")')
  BY <1>2, <1>3, <1>4, CoversFewer
<1>. QED BY <1>1, <1>5 DEF NeverUndercounts, Covers

\* No step of the kernel loses count of a descriptor or of a woken opener.
LEMMA CountsStep ==
  ASSUME FifoIInv, OpeningOK, NeverUndercounts, FifoNext
  PROVE  NeverUndercounts'
<1>1. /\ call \in [Procs -> FifoCalls] /\ running \in Procs
      /\ syscall_intermediate_data \subseteq Procs
  BY RunnerAwake DEF FifoIInv, Core, CallsOK
<1>2. /\ readers_number \in Int /\ writers_number \in Int
      /\ Covers(readers_number, Open("RDONLY"), Counted("RDONLY"))
      /\ Covers(writers_number, Open("WRONLY"), Counted("WRONLY"))
  BY DEF FifoIInv, OpenersOK, NeverUndercounts, Covers
<1>3. ASSUME UNCHANGED <<descriptors, openers>>,
             \A q \in Procs : call'[q].op \in {"none", call[q].op}
      PROVE  NeverUndercounts'
  BY <1>1, <1>3, CountsKept DEF openers
<1>4. CASE FifoSchedule
  <2>1. UNCHANGED <<call, descriptors, openers>>
    BY <1>4 DEF FifoSchedule, internal_schedule
  <2>. QED BY <1>3, <2>1
<1>5. ASSUME NEW p \in Workers, EnterOpen(p) \/ EnterTransfer(p)
      PROVE  NeverUndercounts'
  <2>1. /\ UNCHANGED <<descriptors, openers>>
        /\ call[p] = Idle
        /\ \A q \in Procs : q # p => call'[q] = call[q]
    BY <1>1, <1>5 DEF EnterOpen, EnterTransfer, Issues
  <2>2. p \notin syscall_intermediate_data
    BY <2>1, IdleCall DEF OpeningOK, Opening
  <2>. QED BY <1>1, <2>1, <2>2, CountsKept DEF openers
<1>6. ASSUME NEW p \in Workers, FifoSyscall(p)
      PROVE  NeverUndercounts'
  <2>1. running = p
    BY <1>6 DEF FifoSyscall
  <2>2. \A q \in Procs : call'[q].op \in {"none", call[q].op}
    BY <1>6, <2>1, OpsKept DEF FifoIInv, BytesOK
  <2>3. CASE UNCHANGED <<descriptors, openers>>
    BY <1>3, <2>2, <2>3
  <2>4. CASE FreeFds(p) # {} /\ OpenReader(p)
    <3>1. CASE /\ Opened(p, waiting_list_open_writer)
               /\ writers_number' = writers_number + Len(Met(waiting_list_open_writer))
               /\ readers_number' = readers_number + Own(p)
      <4>1. /\ Met(waiting_list_open_writer) = waiting_list_open_writer
            /\ waiting_list_open_writer \in Seq(Procs)
            /\ Range(waiting_list_open_writer) \subseteq Waiters
            /\ \A q \in Range(waiting_list_open_writer) : call[q].op = "WRONLY"
        BY DEF Met, FifoIInv, Core, QueuesOK, CallsOK, Waiters
      <4>2. /\ call[running].op = "RDONLY" /\ Descriptor_mk(running)
            /\ syscall_intermediate_data' = Marked(running, waiting_list_open_writer)
            /\ call' = [call EXCEPT ![running] = Idle]
        BY <2>1, <2>4, <3>1, <4>1 DEF OpenReader, Opened, Return
      <4>3. /\ Covers(readers_number + Own(running), Open("RDONLY")', Counted("RDONLY")')
            /\ Covers(writers_number + Len(waiting_list_open_writer),
                      Open("WRONLY")', Counted("WRONLY")')
        BY <1>2, <2>1, <2>4, <4>1, <4>2, OpenedCounts
      <4>. QED BY <2>1, <3>1, <4>1, <4>3 DEF Covers, NeverUndercounts
    <3>2. CASE UNCHANGED <<descriptors, readers_number, writers_number, syscall_intermediate_data>>
      BY <1>1, <2>2, <3>2, CountsKept
    <3>. QED BY <2>4, <3>1, <3>2 DEF OpenReader, openers
  <2>5. CASE FreeFds(p) # {} /\ OpenWriter(p)
    <3>1. CASE /\ Opened(p, waiting_list_open_reader)
               /\ readers_number' = readers_number + Len(Met(waiting_list_open_reader))
               /\ writers_number' = writers_number + Own(p)
      <4>1. /\ Met(waiting_list_open_reader) = waiting_list_open_reader
            /\ waiting_list_open_reader \in Seq(Procs)
            /\ Range(waiting_list_open_reader) \subseteq Waiters
            /\ \A q \in Range(waiting_list_open_reader) : call[q].op = "RDONLY"
        BY DEF Met, FifoIInv, Core, QueuesOK, CallsOK, Waiters
      <4>2. /\ call[running].op = "WRONLY" /\ Descriptor_mk(running)
            /\ syscall_intermediate_data' = Marked(running, waiting_list_open_reader)
            /\ call' = [call EXCEPT ![running] = Idle]
        BY <2>1, <2>5, <3>1, <4>1 DEF OpenWriter, Opened, Return
      <4>3. /\ Covers(writers_number + Own(running), Open("WRONLY")', Counted("WRONLY")')
            /\ Covers(readers_number + Len(waiting_list_open_reader),
                      Open("RDONLY")', Counted("RDONLY")')
        BY <1>2, <2>1, <2>5, <4>1, <4>2, OpenedCounts
      <4>. QED BY <2>1, <3>1, <4>1, <4>3 DEF Covers, NeverUndercounts
    <3>2. CASE UNCHANGED <<descriptors, readers_number, writers_number, syscall_intermediate_data>>
      BY <1>1, <2>2, <3>2, CountsKept
    <3>. QED BY <2>5, <3>1, <3>2 DEF OpenWriter, openers
  <2>6. CASE OpenFails(p) \/ Fifo_read(p) \/ Fifo_write(p)
    BY <2>3, <2>6 DEF OpenFails, Fifo_read, Fifo_write
  <2>. QED BY <1>6, <2>4, <2>5, <2>6 DEF FifoSyscall, Resource_open
<1>7. ASSUME NEW p \in Workers, Resource_close(p)
      PROVE  NeverUndercounts'
  <2>1. PICK d \in descriptors : /\ descriptors' = descriptors \ {d}
                                 /\ CloseReader(d) \/ CloseWriter(d)
    BY <1>7 DEF Resource_close
  <2>2. Counted("RDONLY")' = Counted("RDONLY") /\ Counted("WRONLY")' = Counted("WRONLY")
    BY <1>7 DEF Resource_close, Counted
  <2>3. /\ IsFiniteSet(Open("RDONLY")) /\ IsFiniteSet(Counted("RDONLY"))
        /\ IsFiniteSet(Open("WRONLY")) /\ IsFiniteSet(Counted("WRONLY"))
    BY CountsFinite
  <2>4. CASE CloseReader(d)
    <3>1. /\ d \in Open("RDONLY") /\ Open("RDONLY")' = Open("RDONLY") \ {d}
          /\ Open("WRONLY")' = Open("WRONLY")
      BY <2>1, <2>4 DEF CloseReader, Open
    <3>2. Covers(readers_number - 1, Open("RDONLY") \ {d}, Counted("RDONLY"))
      BY <1>2, <2>3, <3>1, CoversClosed
    <3>. QED BY <1>2, <2>2, <2>4, <3>1, <3>2 DEF CloseReader, Covers, NeverUndercounts
  <2>5. CASE CloseWriter(d)
    <3>1. /\ d \in Open("WRONLY") /\ Open("WRONLY")' = Open("WRONLY") \ {d}
          /\ Open("RDONLY")' = Open("RDONLY")
      BY <2>1, <2>5 DEF CloseWriter, Open
    <3>2. Covers(writers_number - 1, Open("WRONLY") \ {d}, Counted("WRONLY"))
      BY <1>2, <2>3, <3>1, CoversClosed
    <3>. QED BY <1>2, <2>2, <2>5, <3>1, <3>2 DEF CloseWriter, Covers, NeverUndercounts
  <2>. QED BY <2>1, <2>4, <2>5
<1>8. ASSUME NEW p \in Workers, Resource_unlink(p)
      PROVE  NeverUndercounts'
  BY <1>3, <1>8 DEF Resource_unlink
<1>9. ASSUME NEW p \in Workers, Fifo_mk(p)
      PROVE  NeverUndercounts'
  <2>1. descriptors' = {} /\ syscall_intermediate_data' = {}
    BY <1>9 DEF Fifo_mk, OpeningOK, Opening, FifoIInv, DescriptorsOK, FreedUnused
  <2>2. /\ Open("RDONLY")' = {} /\ Open("WRONLY")' = {}
        /\ Counted("RDONLY")' = {} /\ Counted("WRONLY")' = {}
    BY <2>1 DEF Open, Counted
  <2>3. 0 >= Cardinality({}) + Cardinality({})
    BY FS_EmptySet
  <2>4. readers_number' = 0 /\ writers_number' = 0
    BY <1>9 DEF Fifo_mk
  <2>. QED BY <2>2, <2>3, <2>4 DEF NeverUndercounts
<1>. QED BY <1>4, <1>5, <1>6, <1>7, <1>8, <1>9 DEF FifoNext

-----------------------------------------------------------------------------
(* The last close.                                                         *)

\* The counters never fall below zero.
LEMMA CountersNatural ==
  ASSUME FifoIInv, NeverUndercounts
  PROVE  readers_number \in Nat /\ writers_number \in Nat
<1>1. /\ Cardinality(Open("RDONLY")) \in Nat /\ Cardinality(Counted("RDONLY")) \in Nat
      /\ Cardinality(Open("WRONLY")) \in Nat /\ Cardinality(Counted("WRONLY")) \in Nat
  BY CountsFinite
<1>. QED BY <1>1 DEF FifoIInv, OpenersOK, NeverUndercounts

\* A reader falls asleep only while there is a writer and a writer only while there
\* is a reader; the last one to close wakes all who sleep.
LEMMA HangupStep ==
  ASSUME FifoIInv, NeverUndercounts, HangupWakesAll, FifoNext
  PROVE  HangupWakesAll'
<1>1. /\ readers_number \in Nat /\ writers_number \in Nat
      /\ Len(waiting_list_open_reader) \in Nat /\ Len(waiting_list_open_writer) \in Nat
      /\ waiting_list_read \in Seq(Procs) /\ waiting_list_write \in Seq(Procs)
  BY CountersNatural, LenProperties DEF FifoIInv, Core, QueuesOK
<1>2. ASSUME UNCHANGED <<waiting_list_read, waiting_list_write>>,
             readers_number' >= readers_number, writers_number' >= writers_number
      PROVE  HangupWakesAll'
  BY <1>1, <1>2 DEF HangupWakesAll
<1>3. ASSUME UNCHANGED <<waiting_list_read, waiting_list_write, openers>>
      PROVE  HangupWakesAll'
  BY <1>3 DEF openers, HangupWakesAll
<1>4. ASSUME NEW p \in Workers, Resource_open(p)
      PROVE  HangupWakesAll'
  <2>1. Own(p) \in {0, 1}
    BY DEF Own
  <2>2. /\ Len(Met(waiting_list_open_reader)) \in Nat
        /\ Len(Met(waiting_list_open_writer)) \in Nat
    BY <1>1 DEF Met
  <2>3. CASE OpenFails(p)
    BY <1>3, <2>3 DEF OpenFails
  <2>4. CASE OpenReader(p)
    <3>1. UNCHANGED <<waiting_list_read, waiting_list_write>>
      BY <2>4 DEF OpenReader, Opened, Crash
    <3>2. readers_number' >= readers_number /\ writers_number' >= writers_number
      BY <1>1, <2>1, <2>2, <2>4 DEF OpenReader, openers
    <3>. QED BY <1>2, <3>1, <3>2
  <2>5. CASE OpenWriter(p)
    <3>1. UNCHANGED <<waiting_list_read, waiting_list_write>>
      BY <2>5 DEF OpenWriter, Opened, Crash
    <3>2. readers_number' >= readers_number /\ writers_number' >= writers_number
      BY <1>1, <2>1, <2>2, <2>5 DEF OpenWriter, openers
    <3>. QED BY <1>2, <3>1, <3>2
  <2>. QED BY <1>4, <2>3, <2>4, <2>5 DEF Resource_open
<1>5. ASSUME NEW p \in Workers, Fifo_read(p)
      PROVE  HangupWakesAll'
  <2>1. UNCHANGED openers
    BY <1>5 DEF Fifo_read
  <2>2. CASE UNCHANGED <<waiting_list_read, waiting_list_write>>
    BY <1>3, <2>1, <2>2
  <2>3. CASE ~(size = 0 /\ writers_number = 0) /\ size = 0 /\ waiting_list_write' = waiting_list_write
    BY <2>1, <2>3 DEF openers, HangupWakesAll
  <2>4. CASE ReadBytes(p)
    <3>1. /\ waiting_list_read = <<>> => waiting_list_read' = <<>>
          /\ waiting_list_write = <<>> => waiting_list_write' = <<>>
      BY <2>4 DEF ReadBytes, StillLocked
    <3>. QED BY <2>1, <3>1 DEF openers, HangupWakesAll
  <2>. QED BY <1>5, <2>2, <2>3, <2>4 DEF Fifo_read, Ipc_read, Answer, Ipc_lock_reader, Crash
<1>6. ASSUME NEW p \in Workers, Fifo_write(p)
      PROVE  HangupWakesAll'
  <2>1. UNCHANGED openers
    BY <1>6 DEF Fifo_write
  <2>2. CASE UNCHANGED <<waiting_list_read, waiting_list_write>>
    BY <1>3, <2>1, <2>2
  <2>3. CASE readers_number # 0 /\ waiting_list_read' = waiting_list_read
    BY <2>1, <2>3 DEF openers, HangupWakesAll
  <2>4. CASE WriteBytes(p)
    <3>1. /\ waiting_list_read = <<>> => waiting_list_read' = <<>>
          /\ waiting_list_write = <<>> => waiting_list_write' = <<>>
      BY <2>4 DEF WriteBytes, StillLocked
    <3>. QED BY <2>1, <3>1 DEF openers, HangupWakesAll
  <2>. QED BY <1>6, <2>2, <2>3, <2>4 DEF Fifo_write, Ipc_write, Answer, Ipc_lock_writer, Crash
<1>7. ASSUME NEW p \in Workers, Resource_close(p)
      PROVE  HangupWakesAll'
  <2>1. PICK d \in descriptors : CloseReader(d) \/ CloseWriter(d)
    BY <1>7 DEF Resource_close
  <2>2. CASE CloseReader(d)
    <3>1. waiting_list_write' = IF readers_number' = 0 THEN <<>> ELSE waiting_list_write
      BY <1>1, <2>2, HangupAll DEF CloseReader
    <3>. QED BY <2>2, <3>1 DEF CloseReader, HangupWakesAll
  <2>3. CASE CloseWriter(d)
    <3>1. waiting_list_read' = IF writers_number' = 0 THEN <<>> ELSE waiting_list_read
      BY <1>1, <2>3, HangupAll DEF CloseWriter
    <3>. QED BY <2>3, <3>1 DEF CloseWriter, HangupWakesAll
  <2>. QED BY <2>1, <2>2, <2>3
<1>8. ASSUME NEW p \in Workers, Fifo_mk(p)
      PROVE  HangupWakesAll'
  BY <1>8 DEF Fifo_mk, HangupWakesAll
<1>9. ASSUME NEW p \in Workers, EnterOpen(p) \/ EnterTransfer(p) \/ Resource_unlink(p)
       PROVE  HangupWakesAll'
  BY <1>3, <1>9 DEF EnterOpen, EnterTransfer, Resource_unlink
<1>10. CASE FifoSchedule
  BY <1>3, <1>10 DEF FifoSchedule, internal_schedule
<1>. QED BY <1>4, <1>5, <1>6, <1>7, <1>8, <1>9, <1>10 DEF FifoNext, FifoSyscall

-----------------------------------------------------------------------------
(* The theorems about a named fifo.                                        *)

\* CountIInv is an invariant while unlink waits for opens and no open lacks a block
\* of the descriptor pool.
THEOREM CountInvariant ==
  ASSUME ~UnlinkDuringOpen, PoolSuffices
  PROVE  FifoSpec => []CountIInv
<1>1. FifoInit => CountIInv
  <2>. SUFFICES ASSUME FifoInit PROVE CountIInv
    OBVIOUS
  <2>1. FifoIInv
    BY InitFifoIInv
  <2>2. Opening = {}
    BY DEF FifoInit, Opening, Range
  <2>3. /\ Open("RDONLY") = {} /\ Open("WRONLY") = {}
        /\ Counted("RDONLY") = {} /\ Counted("WRONLY") = {}
    BY DEF FifoInit, Open, Counted
  <2>4. 0 >= Cardinality({}) + Cardinality({})
    BY FS_EmptySet
  <2>5. NeverUndercounts
    BY <2>3, <2>4 DEF FifoInit, NeverUndercounts
  <2>6. HangupWakesAll
    BY DEF FifoInit, Init, HangupWakesAll
  <2>. QED BY <2>1, <2>2, <2>5, <2>6 DEF CountIInv, OpeningOK
<1>2. CountIInv /\ [FifoNext]_fifoVars => CountIInv'
  <2>1. ASSUME CountIInv, FifoNext
        PROVE  CountIInv'
    BY <2>1, FifoIInvStep, OpeningStep, CountsStep, HangupStep DEF CountIInv
  <2>2. ASSUME CountIInv, UNCHANGED fifoVars
        PROVE  CountIInv'
    <3>1. UNCHANGED <<sched, call, size, waiting_list_read, waiting_list_write, panic, fifo,
                      descriptors, readers_number, writers_number, waiting_list_open_reader,
                      waiting_list_open_writer, syscall_intermediate_data>>
      BY <2>2 DEF fifoVars, vars, openers
    <3>2. FifoIInv'
      BY <2>2, FifoIInvStep DEF CountIInv
    <3>3. OpeningOK'
      BY <2>2, <3>1 DEF CountIInv, OpeningOK, Opening, FreeFds
    <3>4. NeverUndercounts' /\ HangupWakesAll'
      BY <2>2, <3>1 DEF CountIInv, NeverUndercounts, HangupWakesAll, Open, Counted
    <3>. QED BY <3>2, <3>3, <3>4 DEF CountIInv
  <2>. QED BY <2>1, <2>2
<1>. QED BY <1>1, <1>2, PTL DEF FifoSpec

\* syscall_intermediate_data is reset when the open that used it is over.
THEOREM IntermediateIsReset ==
  ASSUME ~UnlinkDuringOpen, PoolSuffices
  PROVE  FifoSpec => []IntermediateReset
<1>1. CountIInv => IntermediateReset
  BY IdleCall DEF CountIInv, OpeningOK, Opening, IntermediateReset
<1>. QED BY <1>1, CountInvariant, PTL

\* The counters of readers and writers miss no descriptor and no woken opener.
THEOREM CountersNeverShort ==
  ASSUME ~UnlinkDuringOpen, PoolSuffices
  PROVE  FifoSpec => []NeverUndercounts
<1>1. CountIInv => NeverUndercounts
  BY DEF CountIInv
<1>. QED BY <1>1, CountInvariant, PTL

\* Nobody sleeps on a fifo that the other side has left.
THEOREM NobodyMissesHangup ==
  ASSUME ~UnlinkDuringOpen, PoolSuffices
  PROVE  FifoSpec => []HangupWakesAll
<1>1. CountIInv => HangupWakesAll
  BY DEF CountIInv
<1>. QED BY <1>1, CountInvariant, PTL

-----------------------------------------------------------------------------
(* A pipe: nobody opens it.                                                *)

PipeIInv ==
  /\ FifoIInv
  /\ Openers = {} /\ syscall_intermediate_data = {}
  /\ CountsExact
  /\ HangupWakesAll

\* Without openers nothing is counted that is not a descriptor.
LEMMA PipeCountsAll ==
  ASSUME PipeIInv
  PROVE  OpeningOK /\ NeverUndercounts
<1>1. Opening = {}
  BY RunnerAwake DEF PipeIInv, FifoIInv, Core, CallsOK, Openers, Opening, Waiters
<1>2. /\ Cardinality(Open("RDONLY")) \in Nat /\ Cardinality(Open("WRONLY")) \in Nat
  BY CountsFinite DEF PipeIInv
<1>3. Cardinality(Counted("RDONLY")) = 0 /\ Cardinality(Counted("WRONLY")) = 0
  <2>1. Counted("RDONLY") = {} /\ Counted("WRONLY") = {}
    BY DEF PipeIInv, Counted
  <2>. QED BY <2>1, FS_EmptySet
<1>. QED BY <1>1, <1>2, <1>3 DEF PipeIInv, OpeningOK, CountsExact, NeverUndercounts

\* Without openers only close changes the counters, with the descriptors.
LEMMA PipeStep ==
  ASSUME OpenModes = {}, PipeIInv, FifoNext
  PROVE  PipeIInv'
<1>. USE DEF PipeIInv
<1>1. FifoIInv'
  BY FifoIInvStep
<1>2. HangupWakesAll'
  BY HangupStep, PipeCountsAll
<1>3. /\ call \in [Procs -> FifoCalls] /\ running \in Procs
      /\ \A q \in Procs : call[q].op \notin {"RDONLY", "WRONLY", "RDWR"}
  BY RunnerAwake DEF FifoIInv, Core, CallsOK, Openers
<1>4. ASSUME NEW p \in Workers PROVE ~Resource_open(p)
  <2>1. call[p].op \notin {"RDONLY", "WRONLY", "RDWR"}
    BY <1>3 DEF Procs
  <2>. QED BY <2>1 DEF Resource_open, OpenReader, OpenWriter, Openers
<1>5. ASSUME UNCHANGED <<descriptors, openers>>,
             \A q \in Procs : call'[q].op \in {"none", call[q].op, "read", "write"}
      PROVE  Openers' = {} /\ syscall_intermediate_data' = {} /\ CountsExact'
  BY <1>3, <1>5 DEF openers, Openers, CountsExact, Open
<1>6. CASE FifoSchedule
  BY <1>1, <1>2, <1>5, <1>6 DEF FifoSchedule, internal_schedule
<1>7. ASSUME NEW p \in Workers, EnterTransfer(p)
      PROVE  PipeIInv'
  <2>1. PICK d \in descriptors, n \in Counts :
          call' = [call EXCEPT ![p] = [op |-> IF d.mode = "RDONLY" THEN "read" ELSE "write",
                                       count |-> n, done |-> 0, nonblock |-> d.nonblock]]
    BY <1>7 DEF EnterTransfer
  <2>2. \A q \in Procs : call'[q].op \in {"none", call[q].op, "read", "write"}
    BY <1>3, <2>1
  <2>. QED BY <1>1, <1>2, <1>5, <1>7, <2>2 DEF EnterTransfer
<1>8. ASSUME NEW p \in Workers, FifoSyscall(p)
      PROVE  PipeIInv'
  <2>1. running = p /\ (Fifo_read(p) \/ Fifo_write(p))
    BY <1>4, <1>8 DEF FifoSyscall
  <2>2. \A q \in Procs : call'[q].op \in {"none", call[q].op, "read", "write"}
    BY <1>8, <2>1, OpsKept DEF FifoIInv, BytesOK
  <2>. QED BY <1>1, <1>2, <1>5, <2>1, <2>2 DEF Fifo_read, Fifo_write
<1>9. ASSUME NEW p \in Workers, Resource_close(p)
      PROVE  PipeIInv'
  <2>1. PICK d \in descriptors : /\ descriptors' = descriptors \ {d}
                                 /\ CloseReader(d) \/ CloseWriter(d)
    BY <1>9 DEF Resource_close
  <2>2. UNCHANGED <<call, syscall_intermediate_data>>
    BY <1>9 DEF Resource_close
  <2>3. IsFiniteSet(Open("RDONLY")) /\ IsFiniteSet(Open("WRONLY"))
    BY CountsFinite
  <2>4. CASE CloseReader(d)
    <3>1. /\ d \in Open("RDONLY") /\ Open("RDONLY")' = Open("RDONLY") \ {d}
          /\ Open("WRONLY")' = Open("WRONLY")
      BY <2>1, <2>4 DEF CloseReader, Open
    <3>2. Cardinality(Open("RDONLY") \ {d}) = Cardinality(Open("RDONLY")) - 1
      BY <2>3, <3>1, FS_RemoveElement
    <3>. QED BY <1>1, <1>2, <2>2, <2>4, <3>1, <3>2 DEF CloseReader, CountsExact, Openers
  <2>5. CASE CloseWriter(d)
    <3>1. /\ d \in Open("WRONLY") /\ Open("WRONLY")' = Open("WRONLY") \ {d}
          /\ Open("RDONLY")' = Open("RDONLY")
      BY <2>1, <2>5 DEF CloseWriter, Open
    <3>2. Cardinality(Open("WRONLY") \ {d}) = Cardinality(Open("WRONLY")) - 1
      BY <2>3, <3>1, FS_RemoveElement
    <3>. QED BY <1>1, <1>2, <2>2, <2>5, <3>1, <3>2 DEF CloseWriter, CountsExact, Openers
  <2>. QED BY <2>1, <2>4, <2>5
<1>10. ASSUME NEW p \in Workers, Resource_unlink(p)
       PROVE  PipeIInv'
  BY <1>1, <1>2, <1>5, <1>10 DEF Resource_unlink
<1>11. ASSUME NEW p \in Workers, Fifo_mk(p)
       PROVE  PipeIInv'
  <2>1. /\ descriptors' = {} /\ UNCHANGED <<call, syscall_intermediate_data>>
        /\ readers_number' = 0 /\ writers_number' = 0
    BY <1>11 DEF Fifo_mk, FifoIInv, DescriptorsOK, FreedUnused
  <2>2. Open("RDONLY")' = {} /\ Open("WRONLY")' = {}
    BY <2>1 DEF Open
  <2>3. Cardinality({}) = 0
    BY FS_EmptySet
  <2>4. Openers' = {}
    BY <2>1 DEF Openers
  <2>. QED BY <1>1, <1>2, <2>1, <2>2, <2>3, <2>4 DEF CountsExact
<1>12. ASSUME NEW p \in Workers
       PROVE  ~EnterOpen(p)
  BY DEF EnterOpen
<1>. QED BY <1>6, <1>7, <1>8, <1>9, <1>10, <1>11, <1>12 DEF FifoNext

\* PipeIInv is an invariant of a pipe.
THEOREM PipeCountInvariant ==
  ASSUME MaxFds >= 2, OpenModes = {}
  PROVE  PipeInit /\ [][FifoNext]_fifoVars => []PipeIInv
<1>1. PipeInit => PipeIInv
  <2>. SUFFICES ASSUME PipeInit PROVE PipeIInv
    OBVIOUS
  <2>1. FifoIInv
    BY InitPipeIInv
  <2>2. Openers = {}
    BY QuietCore, IdleCall DEF PipeInit, Openers
  <2>3. CountsExact /\ HangupWakesAll
    BY DEF PipeInit, Init, CountsExact, HangupWakesAll
  <2>. QED BY <2>1, <2>2, <2>3 DEF PipeIInv, PipeInit
<1>2. PipeIInv /\ [FifoNext]_fifoVars => PipeIInv'
  <2>1. ASSUME PipeIInv, UNCHANGED fifoVars
        PROVE  PipeIInv'
    <3>1. UNCHANGED <<call, descriptors, readers_number, writers_number, waiting_list_read,
                      waiting_list_write, syscall_intermediate_data>>
      BY <2>1 DEF fifoVars, vars, openers
    <3>2. FifoIInv'
      BY <2>1, FifoIInvStep DEF PipeIInv
    <3>. QED BY <2>1, <3>1, <3>2 DEF PipeIInv, Openers, CountsExact, HangupWakesAll, Open
  <2>. QED BY <2>1, PipeStep
<1>. QED BY <1>1, <1>2, PTL

\* The counters of a pipe are exact, whatever its processes read, write and close.
THEOREM PipeCountsExact ==
  ASSUME MaxFds >= 2, OpenModes = {}
  PROVE  PipeInit /\ [][FifoNext]_fifoVars => []CountsExact
<1>1. PipeIInv => CountsExact
  BY DEF PipeIInv
<1>. QED BY <1>1, PipeCountInvariant, PTL

-----------------------------------------------------------------------------
(* The wakeups of the channel under open, close, end of file and broken    *)
(* pipe.                                                                   *)

\* The kernel dies in a read of an empty fifo, a write to one that is not, or outside
\* of both.
FifoDiedWaiting ==
  panic => /\ call[running].op = "read" => size = 0
           /\ call[running].op = "write" => size > 0

\* No wakeup is lost, and a death is no wakeup.
WakeupsOK == NoLostReaderWakeup /\ NoLostWriterWakeup /\ FifoDiedWaiting

\* Another process on its way to read or write stays there while others act.
LEMMA AboutKept ==
  ASSUME ~panic, NEW op, NEW q \in About(op), call'[q] = call[q],
         \/ ~panic' /\ Blocked' \subseteq Blocked
         \/ q # running /\ Blocked' \subseteq Blocked \cup {running} /\ (panic' => running' = running)
  PROVE  About(op)' # {}
<1>1. q \in Procs \ Blocked /\ call[q].op = op /\ Left(q) > 0
  BY DEF About, Stuck
<1>2. q \notin Blocked' /\ ~(panic' /\ q = running')
  BY <1>1
<1>3. q \in Procs /\ q \notin Stuck' /\ call'[q].op = op /\ call'[q].count - call'[q].done > 0
  BY <1>1, <1>2 DEF Stuck, Left
<1>. QED BY <1>3 DEF About, Left

\* A step that leaves the channel alone, while the runner was not about to transfer.
LEMMA WakeupsKept ==
  ASSUME ~panic, WakeupsOK, size' = size,
         size = 0 \/ waiting_list_read # <<>> \/ waiting_list_read' = <<>>,
         size > 0 \/ waiting_list_write # <<>> \/ waiting_list_write' = <<>>,
         \/ ~panic' /\ Blocked' \subseteq Blocked
         \/ /\ running \notin About("read") \/ size = 0
            /\ running \notin About("write") \/ size > 0 \/ waiting_list_write' = <<>>
            /\ Blocked' \subseteq Blocked \cup {running}
            /\ panic' => running' = running,
         \A q \in Procs : call'[q] = call[q] \/
           /\ q = running
           /\ running \notin About("read") \/ size = 0
           /\ running \notin About("write") \/ size > 0 \/ waiting_list_write' = <<>>,
         SizeMax \in Nat, size \in Nat
  PROVE  NoLostReaderWakeup' /\ NoLostWriterWakeup'
<1>1. ASSUME size' > 0, waiting_list_read' # <<>>
      PROVE  About("read")' # {}
  <2>1. PICK q \in About("read") : TRUE
    BY <1>1 DEF WakeupsOK, NoLostReaderWakeup
  <2>2. q \in Procs
    BY DEF About
  <2>3. \/ ~panic' /\ Blocked' \subseteq Blocked
        \/ q # running /\ Blocked' \subseteq Blocked \cup {running} /\ (panic' => running' = running)
    BY <1>1
  <2>4. call'[q] = call[q]
    BY <1>1, <2>2
  <2>. QED BY <2>3, <2>4, AboutKept
<1>2. ASSUME size' = 0, SizeMax > 0, waiting_list_write' # <<>>
      PROVE  About("write")' # {}
  <2>1. PICK q \in About("write") : TRUE
    BY <1>2 DEF WakeupsOK, NoLostWriterWakeup
  <2>2. q \in Procs
    BY DEF About
  <2>3. \/ ~panic' /\ Blocked' \subseteq Blocked
        \/ q # running /\ Blocked' \subseteq Blocked \cup {running} /\ (panic' => running' = running)
    BY <1>2
  <2>4. call'[q] = call[q]
    BY <1>2, <2>2
  <2>. QED BY <2>3, <2>4, AboutKept
<1>. QED BY <1>1, <1>2 DEF NoLostReaderWakeup, NoLostWriterWakeup

\* The head of a list that is unlocked is on its way to repeat its call.
LEMMA UnlockedAbout ==
  ASSUME FifoIInv, ~panic, ~panic',
         \A q \in Procs \ {running} : call'[q] = call[q],
         NEW k1, NEW k2,
         waiting_list_read' = StillLocked(waiting_list_read, k1),
         waiting_list_write' = StillLocked(waiting_list_write, k2)
  PROVE  /\ k1 /\ waiting_list_read' # <<>> => About("read")' # {}
         /\ k2 /\ waiting_list_write' # <<>> => About("write")' # {}
<1>1. /\ waiting_list_read \in Seq(Procs) /\ IsInjective(waiting_list_read)
      /\ waiting_list_write \in Seq(Procs) /\ IsInjective(waiting_list_write)
      /\ Range(waiting_list_read) \cap Range(waiting_list_write) = {}
      /\ \A q \in Range(waiting_list_read) \cup Range(waiting_list_write) : q \in Procs \ {running}
  BY RunnerAwake, QueuesApart DEF FifoIInv, Core, QueuesOK, Waiters, Blocked
<1>2. /\ Range(waiting_list_read') \subseteq Range(waiting_list_read)
      /\ Range(waiting_list_write') \subseteq Range(waiting_list_write)
  BY <1>1, TailRange DEF StillLocked
<1>3. ASSUME k1, waiting_list_read' # <<>>
      PROVE  About("read")' # {}
  <2>. DEFINE h == Head(waiting_list_read)
  <2>1. waiting_list_read # <<>> /\ waiting_list_read' = Tail(waiting_list_read)
    BY <1>3 DEF StillLocked
  <2>2. h \in Range(waiting_list_read) /\ h \notin Range(waiting_list_read')
    BY <1>1, <2>1, TailRange
  <2>3. call'[h] = call[h] /\ call[h].op = "read" /\ Left(h) > 0 /\ h \in Procs
    BY <1>1, <2>2 DEF FifoIInv, Core, CallsOK, WaitersCall
  <2>4. h \notin Blocked'
    BY <1>1, <1>2, <2>2 DEF Blocked
  <2>. HIDE DEF h
  <2>5. h \in Procs \ Stuck' /\ call'[h].op = "read" /\ call'[h].count - call'[h].done > 0
    BY <2>3, <2>4 DEF Stuck, Left
  <2>. QED BY <2>5 DEF About, Left
<1>4. ASSUME k2, waiting_list_write' # <<>>
      PROVE  About("write")' # {}
  <2>. DEFINE h == Head(waiting_list_write)
  <2>1. waiting_list_write # <<>> /\ waiting_list_write' = Tail(waiting_list_write)
    BY <1>4 DEF StillLocked
  <2>2. h \in Range(waiting_list_write) /\ h \notin Range(waiting_list_write')
    BY <1>1, <2>1, TailRange
  <2>3. call'[h] = call[h] /\ call[h].op = "write" /\ Left(h) > 0 /\ h \in Procs
    BY <1>1, <2>2 DEF FifoIInv, Core, CallsOK, WaitersCall
  <2>4. h \notin Blocked'
    BY <1>1, <1>2, <2>2 DEF Blocked
  <2>. HIDE DEF h
  <2>5. h \in Procs \ Stuck' /\ call'[h].op = "write" /\ call'[h].count - call'[h].done > 0
    BY <2>3, <2>4 DEF Stuck, Left
  <2>. QED BY <2>5 DEF About, Left
<1>. QED BY <1>3, <1>4

\* A read: who finds the fifo empty may sleep, any other wakes a writer and, if
\* something is left, a reader.
LEMMA ReadWakeups ==
  ASSUME FifoIInv, ~panic, WakeupsOK, running \in Workers, Fifo_read(running)
  PROVE  WakeupsOK'
<1>1. /\ size \in Nat /\ SizeMax \in Nat
      /\ running \in Procs /\ call[running].op = "read" /\ Left(running) \in Int
      /\ running \notin About("write")
  BY SizeAssumption, RunnerAwake
     DEF FifoIInv, BytesOK, Fifo_read, About, Core, CallsOK, FifoCalls, Left
<1>2. CASE /\ Return(running) /\ UNCHANGED <<sched, size, waiting_list_read, waiting_list_write, panic>>
           /\ running \notin About("read") \/ size = 0
  <2>1. \A q \in Procs : call'[q] = call[q] \/ q = running
    BY <1>1, <1>2 DEF Return, FifoIInv, Core, CallsOK
  <2>2. Blocked' = Blocked /\ running' = running
    BY <1>2 DEF Blocked, sched
  <2>3. NoLostReaderWakeup' /\ NoLostWriterWakeup'
    BY <1>1, <1>2, <2>1, <2>2, WakeupsKept
  <2>. QED BY <1>2, <2>3 DEF WakeupsOK, FifoDiedWaiting
<1>3. CASE /\ size = 0 /\ ready_list # <<>>
           /\ waiting_list_read' = Enqueued(waiting_list_read, running)
           /\ UNCHANGED <<call, size, waiting_list_write, panic>>
  <2>1. Blocked' \subseteq Blocked \cup {running}
    <3>1. Range(waiting_list_read') = Range(waiting_list_read) \cup {running}
      BY <1>1, <1>3, AppendRange DEF Enqueued, FifoIInv, Core, QueuesOK
    <3>. QED BY <1>3, <3>1 DEF Blocked
  <2>2. NoLostReaderWakeup' /\ NoLostWriterWakeup'
    BY <1>1, <1>3, <2>1, WakeupsKept
  <2>. QED BY <1>3, <2>2 DEF WakeupsOK, FifoDiedWaiting
<1>4. CASE size = 0 /\ Crash
  <2>1. /\ UNCHANGED <<call, size, waiting_list_read, waiting_list_write>>
        /\ Blocked' = Blocked /\ running' = running
    BY <1>4 DEF Crash, sched, Blocked
  <2>2. NoLostReaderWakeup' /\ NoLostWriterWakeup'
    BY <1>1, <1>4, <2>1, WakeupsKept
  <2>. QED BY <1>1, <1>4, <2>1, <2>2 DEF WakeupsOK, FifoDiedWaiting
<1>5. CASE Left(running) > 0 /\ size > 0 /\ ReadBytes(running)
  <2>. DEFINE n == IF size < Left(running) THEN size ELSE Left(running)
              more == MoreData(size - n)
  <2>1. /\ size' = size - n /\ more = (size' > 0) /\ panic' = panic
        /\ waiting_list_write' = StillLocked(waiting_list_write, TRUE)
        /\ waiting_list_read' = StillLocked(waiting_list_read, more)
    BY <1>5 DEF ReadBytes, MoreData
  <2>2. \A q \in Procs \ {running} : call'[q] = call[q]
    BY <1>1, <1>5 DEF ReadBytes, Return, FifoIInv, Core, CallsOK
  <2>. HIDE DEF n, more
  <2>3. /\ more /\ waiting_list_read' # <<>> => About("read")' # {}
        /\ TRUE /\ waiting_list_write' # <<>> => About("write")' # {}
    BY <2>1, <2>2, UnlockedAbout
  <2>. QED BY <2>1, <2>3 DEF WakeupsOK, NoLostReaderWakeup, NoLostWriterWakeup, FifoDiedWaiting
<1>6. CASE size = 0 /\ writers_number = 0
  BY <1>2, <1>6 DEF Fifo_read
<1>7. CASE Answer(running, size = 0)
  <2>1. running \notin About("read") \/ size = 0
    BY <1>1, <1>7 DEF Answer, About
  <2>. QED BY <1>2, <1>7, <2>1 DEF Answer
<1>. QED BY <1>3, <1>4, <1>5, <1>6, <1>7 DEF Fifo_read, Ipc_read, Ipc_lock_reader

\* A write: who finds no space may sleep, any other wakes a reader and, if space is
\* left, a writer. A broken pipe leaves no writer asleep.
LEMMA WriteWakeups ==
  ASSUME FifoIInv, HangupWakesAll, ~panic, WakeupsOK, running \in Workers, Fifo_write(running)
  PROVE  WakeupsOK'
<1>1. /\ size \in 0..SizeMax /\ SizeMax \in Nat /\ SizeMax > 0 /\ Free = SizeMax - size
      /\ running \in Procs /\ call[running].op = "write" /\ Left(running) \in Int
      /\ running \notin About("read")
  BY SizeAssumption, FifoAssumption, RunnerAwake
     DEF FifoIInv, BytesOK, Fifo_write, About, Core, CallsOK, FifoCalls, Left, Free
<1>2. CASE /\ Return(running) /\ UNCHANGED <<sched, size, waiting_list_read, waiting_list_write, panic>>
           /\ running \notin About("write") \/ size > 0 \/ waiting_list_write = <<>>
  <2>1. \A q \in Procs : call'[q] = call[q] \/ q = running
    BY <1>1, <1>2 DEF Return, FifoIInv, Core, CallsOK
  <2>2. Blocked' = Blocked /\ running' = running
    BY <1>2 DEF Blocked, sched
  <2>3. NoLostReaderWakeup' /\ NoLostWriterWakeup'
    BY <1>1, <1>2, <2>1, <2>2, WakeupsKept
  <2>. QED BY <1>2, <2>3 DEF WakeupsOK, FifoDiedWaiting
<1>3. CASE /\ size > 0 /\ ready_list # <<>>
           /\ waiting_list_write' = Enqueued(waiting_list_write, running)
           /\ UNCHANGED <<call, size, waiting_list_read, panic>>
  <2>1. Blocked' \subseteq Blocked \cup {running}
    <3>1. Range(waiting_list_write') = Range(waiting_list_write) \cup {running}
      BY <1>1, <1>3, AppendRange DEF Enqueued, FifoIInv, Core, QueuesOK
    <3>. QED BY <1>3, <3>1 DEF Blocked
  <2>2. NoLostReaderWakeup' /\ NoLostWriterWakeup'
    BY <1>1, <1>3, <2>1, WakeupsKept
  <2>. QED BY <1>3, <2>2 DEF WakeupsOK, FifoDiedWaiting
<1>4. CASE size > 0 /\ Crash
  <2>1. /\ UNCHANGED <<call, size, waiting_list_read, waiting_list_write>>
        /\ Blocked' = Blocked /\ running' = running
    BY <1>4 DEF Crash, sched, Blocked
  <2>2. NoLostReaderWakeup' /\ NoLostWriterWakeup'
    BY <1>1, <1>4, <2>1, WakeupsKept
  <2>. QED BY <1>1, <1>4, <2>1, <2>2 DEF WakeupsOK, FifoDiedWaiting
<1>5. CASE /\ Left(running) > 0 /\ Free > 0 /\ WriteBytes(running)
  <2>. DEFINE n == Writable(running)
              more == Free - n > 0
  <2>1. n > 0 /\ n \in Int
    BY <1>1, <1>5 DEF Writable
  <2>2. /\ size' = size + n /\ panic' = panic
        /\ waiting_list_write' = StillLocked(waiting_list_write, more)
        /\ waiting_list_read' = StillLocked(waiting_list_read, TRUE)
    BY <1>5 DEF WriteBytes
  <2>3. \A q \in Procs \ {running} : call'[q] = call[q]
    BY <1>1, <1>5 DEF WriteBytes, Written, Return, FifoIInv, Core, CallsOK
  <2>. HIDE DEF n, more
  <2>4. TRUE /\ waiting_list_read' # <<>> => About("read")' # {}
    BY <2>2, <2>3, UnlockedAbout
  <2>5. size' # 0
    BY <1>1, <2>1, <2>2
  <2>6. NoLostReaderWakeup'
    BY <2>4 DEF NoLostReaderWakeup
  <2>7. NoLostWriterWakeup'
    BY <2>5 DEF NoLostWriterWakeup
  <2>8. FifoDiedWaiting'
    BY <2>2 DEF FifoDiedWaiting
  <2>. QED BY <2>6, <2>7, <2>8 DEF WakeupsOK
<1>6. CASE readers_number = 0
  BY <1>2, <1>6 DEF Fifo_write, HangupWakesAll
<1>7. CASE Answer(running, Free = 0)
  <2>1. running \notin About("write") \/ size > 0
    BY <1>1, <1>7 DEF Answer, About
  <2>. QED BY <1>2, <1>7, <2>1 DEF Answer
<1>8. MustWait(running) => size > 0
  BY <1>1 DEF MustWait
<1>9. CASE Left(running) > 0 /\ MustWait(running) /\ Ipc_lock_writer(running)
  BY <1>3, <1>4, <1>8, <1>9 DEF Ipc_lock_writer
<1>10. ~MustWait(running) => Free > 0
  BY <1>1 DEF MustWait
<1>. QED BY <1>5, <1>6, <1>7, <1>9, <1>10 DEF Fifo_write, Ipc_write

\* No step loses a wakeup: opens and closes only take processes off the lists.
LEMMA WakeupsStep ==
  ASSUME FifoIInv, HangupWakesAll, WakeupsOK, FifoNext
  PROVE  WakeupsOK'
<1>1. /\ ~panic /\ size \in Nat /\ SizeMax \in Nat
      /\ call \in [Procs -> FifoCalls] /\ running \in Procs
      /\ waiting_list_read \in Seq(Procs) /\ waiting_list_write \in Seq(Procs)
  BY StepsAlive, SizeAssumption, RunnerAwake DEF FifoIInv, BytesOK, Core, CallsOK, QueuesOK
<1>2. ASSUME UNCHANGED <<size, waiting_list_read, waiting_list_write>>,
             call[running].op \notin {"read", "write"},
             \A q \in Procs \ {running} : call'[q] = call[q],
             panic' => running' = running /\ call' = call
      PROVE  WakeupsOK'
  <2>1. running \notin About("read") /\ running \notin About("write")
    BY <1>2 DEF About
  <2>2. Blocked' = Blocked
    BY <1>2 DEF Blocked
  <2>3. NoLostReaderWakeup' /\ NoLostWriterWakeup'
    BY <1>1, <1>2, <2>1, <2>2, WakeupsKept
  <2>. QED BY <1>2, <2>3 DEF WakeupsOK, FifoDiedWaiting
<1>3. CASE FifoSchedule
  <2>1. /\ UNCHANGED <<call, size, waiting_list_read, waiting_list_write, panic>>
        /\ Blocked' = Blocked
    BY <1>3 DEF FifoSchedule, internal_schedule, Blocked
  <2>2. NoLostReaderWakeup' /\ NoLostWriterWakeup'
    BY <1>1, <2>1, WakeupsKept
  <2>. QED BY <1>1, <2>1, <2>2 DEF WakeupsOK, FifoDiedWaiting
<1>4. ASSUME NEW p \in Workers, EnterOpen(p) \/ EnterTransfer(p)
      PROVE  WakeupsOK'
  <2>1. /\ running = p /\ call[p] = Idle
        /\ UNCHANGED <<size, waiting_list_read, waiting_list_write, panic>>
    BY <1>4 DEF EnterOpen, EnterTransfer, Issues
  <2>2. \A q \in Procs \ {running} : call'[q] = call[q]
    BY <1>1, <1>4, <2>1 DEF EnterOpen, EnterTransfer
  <2>. QED BY <1>1, <1>2, <2>1, <2>2, IdleCall
<1>5. ASSUME NEW p \in Workers, running = p, Resource_open(p)
      PROVE  WakeupsOK'
  <2>1. call[running].op \in {"RDONLY", "WRONLY", "RDWR"}
    BY <1>5 DEF Resource_open, OpenReader, OpenWriter, Openers
  <2>2. /\ UNCHANGED <<size, waiting_list_read, waiting_list_write>>
        /\ panic' = panic \/ Crash
    BY <1>5 DEF Resource_open, OpenFails, OpenReader, OpenWriter, Opened, Crash
  <2>3. \A q \in Procs \ {running} : call'[q] = call[q]
    BY <1>1, <1>5 DEF Resource_open, OpenFails, OpenReader, OpenWriter, Opened, Crash, Return
  <2>. QED BY <1>1, <1>2, <2>1, <2>2, <2>3 DEF Crash, sched
<1>6. ASSUME NEW p \in Workers, Resource_close(p)
      PROVE  WakeupsOK'
  <2>1. PICK d \in descriptors : CloseReader(d) \/ CloseWriter(d)
    BY <1>6 DEF Resource_close
  <2>2. /\ waiting_list_read' \in {<<>>, waiting_list_read}
        /\ waiting_list_write' \in {<<>>, waiting_list_write}
        /\ running' = running
    <3>1. CASE CloseReader(d)
      BY <1>1, <3>1, HangupAll DEF CloseReader, Awake
    <3>2. CASE CloseWriter(d)
      BY <1>1, <3>2, HangupAll DEF CloseWriter, Awake
    <3>. QED BY <2>1, <3>1, <3>2
  <2>3. Blocked' \subseteq Blocked
    BY <2>2 DEF Blocked, Range
  <2>4. call' = call /\ size' = size /\ call[running] = Idle
    BY <1>6 DEF Resource_close, Issues
  <2>5. running \notin About("read") /\ running \notin About("write")
    BY <2>4, IdleCall DEF About
  <2>6. NoLostReaderWakeup' /\ NoLostWriterWakeup'
    BY <1>1, <2>2, <2>3, <2>4, <2>5, WakeupsKept
  <2>. QED BY <2>2, <2>4, <2>6, IdleCall DEF WakeupsOK, FifoDiedWaiting
<1>7. ASSUME NEW p \in Workers, Resource_unlink(p)
      PROVE  WakeupsOK'
  <2>1. /\ UNCHANGED <<call, size, waiting_list_read, waiting_list_write, running>>
        /\ call[running] = Idle
    BY <1>7 DEF Resource_unlink, sched, Issues
  <2>. QED BY <1>2, <2>1, IdleCall
<1>8. ASSUME NEW p \in Workers, Fifo_mk(p)
      PROVE  WakeupsOK'
  BY <1>1, <1>8 DEF Fifo_mk, WakeupsOK, NoLostReaderWakeup, NoLostWriterWakeup, FifoDiedWaiting
<1>9. ASSUME NEW p \in Workers, FifoSyscall(p)
      PROVE  WakeupsOK'
  BY <1>1, <1>5, <1>9, ReadWakeups, WriteWakeups DEF FifoSyscall
<1>. QED BY <1>3, <1>4, <1>6, <1>7, <1>8, <1>9 DEF FifoNext

\* Opens, closes, end of file and broken pipe lose no wakeup of a reader or a writer.
THEOREM FifoNoLostWakeup ==
  ASSUME ~UnlinkDuringOpen, PoolSuffices
  PROVE  FifoSpec => [](NoLostReaderWakeup /\ NoLostWriterWakeup /\ FifoDiedWaiting)
<1>1. FifoInit => WakeupsOK
  BY DEF FifoInit, Init, WakeupsOK, NoLostReaderWakeup, NoLostWriterWakeup, FifoDiedWaiting
<1>2. CountIInv /\ WakeupsOK /\ [FifoNext]_fifoVars => WakeupsOK'
  <2>1. ASSUME WakeupsOK, UNCHANGED fifoVars
        PROVE  WakeupsOK'
    <3>1. UNCHANGED <<running, call, size, waiting_list_read, waiting_list_write, panic>>
      BY <2>1 DEF fifoVars, vars, sched
    <3>. QED BY <2>1, <3>1 DEF WakeupsOK, NoLostReaderWakeup, NoLostWriterWakeup,
                               FifoDiedWaiting, About, Stuck, Blocked, Left
  <2>. QED BY <2>1, WakeupsStep DEF CountIInv
<1>3. FifoSpec => []WakeupsOK
  BY <1>1, <1>2, CountInvariant, PTL DEF FifoSpec
<1>4. WakeupsOK => NoLostReaderWakeup /\ NoLostWriterWakeup /\ FifoDiedWaiting
  BY DEF WakeupsOK
<1>. QED BY <1>3, <1>4, PTL

\* Readers and writers of a fifo never all wait for each other.
THEOREM FifoNoDeadlock ==
  ASSUME ~UnlinkDuringOpen, PoolSuffices
  PROVE  FifoSpec => []NoMutualBlock
<1>1. FifoIInv /\ NoLostReaderWakeup /\ NoLostWriterWakeup /\ FifoDiedWaiting => NoMutualBlock
  <2>. SUFFICES ASSUME FifoIInv, NoLostReaderWakeup, NoLostWriterWakeup, FifoDiedWaiting,
                       SizeMax > 0, NEW r \in Stuck, NEW w \in Stuck,
                       call[r].op = "read", call[w].op = "write"
                PROVE  About("read") \cup About("write") # {}
    BY DEF NoMutualBlock
  <2>1. size \in Nat
    BY SizeAssumption DEF FifoIInv, BytesOK
  <2>2. /\ \A p \in Range(waiting_list_read) : call[p].op = "read"
        /\ \A p \in Range(waiting_list_write) : call[p].op = "write"
    BY DEF FifoIInv, Core, CallsOK, WaitersCall
  <2>3. Range(<<>>) = {}
    BY DEF Range
  <2>4. \/ waiting_list_read # <<>>
        \/ panic /\ r = running
    BY <2>2, <2>3 DEF Stuck, Blocked
  <2>5. \/ waiting_list_write # <<>>
        \/ panic /\ w = running
    BY <2>2, <2>3 DEF Stuck, Blocked
  <2>6. CASE size = 0
    <3>1. waiting_list_write # <<>>
      BY <2>5, <2>6 DEF FifoDiedWaiting
    <3>. QED BY <2>6, <3>1 DEF NoLostWriterWakeup
  <2>7. CASE size > 0
    <3>1. waiting_list_read # <<>>
      BY <2>4, <2>7 DEF FifoDiedWaiting
    <3>. QED BY <2>7, <3>1 DEF NoLostReaderWakeup
  <2>. QED BY <2>1, <2>6, <2>7
<1>2. CountIInv => FifoIInv
  BY DEF CountIInv
<1>. QED BY <1>1, <1>2, CountInvariant, FifoNoLostWakeup, PTL
=============================================================================
