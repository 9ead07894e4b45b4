------------------------------ MODULE FifoProofs ------------------------------
(***************************************************************************)
(* What holds of Fifo for every set of processes, every capacity, count    *)
(* and limit, and whenever the fifo is unlinked: the inductive invariant   *)
(* FifoIInv and its consequences.  The invariant is a conjunction of parts *)
(* about different variables, and each part has its own step lemmas.       *)
(***************************************************************************)
EXTENDS Fifo, IpcProofs

-----------------------------------------------------------------------------
(* The parts of the invariant.                                             *)

\* The scheduler: the running process, the ready list and the statuses agree.
SchedOK ==
  /\ running \in Procs
  /\ ready_list \in Seq(Procs) /\ IsInjective(ready_list)
  /\ status \in [Procs -> {"Running", "Ready", "Waiting"}]
  /\ \A p \in Procs :
       /\ status[p] = "Running" <=> p = running
       /\ status[p] = "Ready" <=> p \in Range(ready_list)

\* The processes that are asleep, as the scheduler sees them.
Asleep == {p \in Procs : status[p] = "Waiting"}

\* The waiting lists hold exactly the processes that are asleep.
QueuesOK ==
  /\ waiting_list_read \in Seq(Procs) /\ IsInjective(waiting_list_read)
  /\ waiting_list_write \in Seq(Procs) /\ IsInjective(waiting_list_write)
  /\ waiting_list_open_reader \in Seq(Procs) /\ IsInjective(waiting_list_open_reader)
  /\ waiting_list_open_writer \in Seq(Procs) /\ IsInjective(waiting_list_open_writer)
  /\ Waiters = Asleep

\* Everybody who waits is inside the call of the list it waits on, so that
\* nobody is on two of them.
FifoCalls ==
  [op: {"none", "read", "write", "RDONLY", "WRONLY", "RDWR"},
   count: Nat, done: Nat, nonblock: BOOLEAN]

CallsOK ==
  /\ call \in [Procs -> FifoCalls]
  /\ WaitersCall
  /\ \A p \in Range(waiting_list_open_reader) : call[p].op = "RDONLY"
  /\ \A p \in Range(waiting_list_open_writer) : call[p].op = "WRONLY"

Core == SchedOK /\ QueuesOK /\ CallsOK

\* The bytes are where reader and writer think they are.
BytesOK ==
  /\ size \in 0..SizeMax
  /\ read_pos \in 0..(SizeMax - 1) /\ write_pos \in 0..(SizeMax - 1)
  /\ PositionsAgree

\* Nobody waits in open for somebody who is there.
OpenersOK ==
  /\ readers_number \in Int /\ writers_number \in Int
  /\ OpenersMeet /\ OpenersReleased

\* A descriptor has a number of its own in its process, and a process that reads
\* or writes has a descriptor for it, so that the fifo is not freed under it.
DescriptorsOK ==
  /\ descriptors \subseteq
       [pcb: Workers, fd: 1..MaxFds, mode: {"RDONLY", "WRONLY"}, nonblock: BOOLEAN]
  /\ \A d, e \in descriptors : d.pcb = e.pcb /\ d.fd = e.fd => d = e
  /\ \A p \in Procs :
       /\ call[p].op = "read" => \E d \in Open("RDONLY") : d.pcb = p
       /\ call[p].op = "write" => \E d \in Open("WRONLY") : d.pcb = p
  /\ FreedUnused
  /\ fifo \in {"absent", "linked", "unlinked"}

FifoIInv ==
  /\ Core
  /\ BytesOK
  /\ OpenersOK
  /\ DescriptorsOK
  /\ panic \in BOOLEAN
  /\ syscall_intermediate_data \subseteq Procs

-----------------------------------------------------------------------------
(* The scheduler.                                                          *)

\* The timer or a preempt: nobody falls asleep and nobody wakes up.
LEMMA RotateSched ==
  ASSUME SchedOK, internal_schedule
  PROVE  SchedOK' /\ Asleep' = Asleep
<1>1. /\ running' = Head(ready_list) /\ ready_list' = Append(Tail(ready_list), running)
      /\ running \in Procs /\ running \notin Range(ready_list)
      /\ ready_list \in Seq(Procs) /\ ready_list # <<>> /\ IsInjective(ready_list)
      /\ status' = [status EXCEPT ![running] = "Ready", ![running'] = "Running"]
      /\ status \in [Procs -> {"Running", "Ready", "Waiting"}]
  BY DEF internal_schedule, SchedOK
<1>. DEFINE t == Tail(ready_list)
<1>2. /\ running' \in Procs /\ t \in Seq(Procs)
      /\ Range(ready_list) = Range(t) \cup {running'}
      /\ IsInjective(t) /\ running' \notin Range(t)
  BY <1>1, TailRange
<1>3. /\ running \in Procs /\ running \notin Range(t)
      /\ ready_list' = Append(t, running)
  BY <1>1, <1>2
<1>. HIDE DEF t
<1>4. /\ ready_list' \in Seq(Procs)
      /\ Range(ready_list') = Range(t) \cup {running}
      /\ IsInjective(ready_list')
  BY <1>2, <1>3, AppendRange
<1>5. status' \in [Procs -> {"Running", "Ready", "Waiting"}]
  BY <1>1
<1>6. ASSUME NEW p \in Procs
      PROVE  /\ status'[p] = "Running" <=> p = running'
             /\ status'[p] = "Ready" <=> p \in Range(ready_list')
             /\ status'[p] = "Waiting" <=> status[p] = "Waiting"
  <2>1. /\ status[p] = "Running" <=> p = running
        /\ status[p] = "Ready" <=> p \in Range(ready_list)
    BY DEF SchedOK
  <2>2. CASE p = running
    BY <1>1, <1>2, <1>4, <2>1, <2>2
  <2>3. CASE p = running'
    BY <1>1, <1>2, <1>3, <1>4, <2>1, <2>3
  <2>4. CASE p # running /\ p # running'
    BY <1>1, <1>2, <1>4, <2>1, <2>4
  <2>. QED BY <2>2, <2>3, <2>4
<1>7. SchedOK'
  BY <1>2, <1>4, <1>5, <1>6 DEF SchedOK
<1>. QED BY <1>6, <1>7 DEF Asleep

\* The running process falls asleep and the head of the ready list runs.
LEMMA SwitchSched ==
  ASSUME SchedOK, ready_list # <<>>, SwitchFrom(running)
  PROVE  /\ SchedOK'
         /\ running \in Procs \ Asleep
         /\ Asleep' = Asleep \cup {running}
<1>1. /\ running' = Head(ready_list) /\ ready_list' = Tail(ready_list)
      /\ running \in Procs /\ running \notin Range(ready_list)
      /\ ready_list \in Seq(Procs) /\ IsInjective(ready_list)
      /\ status' = [status EXCEPT ![running] = "Waiting", ![running'] = "Running"]
      /\ status \in [Procs -> {"Running", "Ready", "Waiting"}]
  BY DEF SwitchFrom, SchedOK
<1>2. /\ running' \in Procs
      /\ ready_list' \in Seq(Procs)
      /\ Range(ready_list) = Range(ready_list') \cup {running'}
      /\ IsInjective(ready_list') /\ running' \notin Range(ready_list')
  BY <1>1, TailRange
<1>3. status' \in [Procs -> {"Running", "Ready", "Waiting"}]
  BY <1>1
<1>4. ASSUME NEW p \in Procs
      PROVE  /\ status'[p] = "Running" <=> p = running'
             /\ status'[p] = "Ready" <=> p \in Range(ready_list')
             /\ status'[p] = "Waiting" <=> status[p] = "Waiting" \/ p = running
  <2>1. /\ status[p] = "Running" <=> p = running
        /\ status[p] = "Ready" <=> p \in Range(ready_list)
    BY DEF SchedOK
  <2>2. CASE p = running
    BY <1>1, <1>2, <2>1, <2>2
  <2>3. CASE p = running'
    BY <1>1, <1>2, <2>1, <2>3
  <2>4. CASE p # running /\ p # running'
    BY <1>1, <1>2, <2>1, <2>4
  <2>. QED BY <2>2, <2>3, <2>4
<1>5. SchedOK'
  BY <1>2, <1>3, <1>4 DEF SchedOK
<1>6. running \notin Asleep
  BY <1>1 DEF Asleep, SchedOK
<1>. QED BY <1>1, <1>4, <1>5, <1>6 DEF Asleep

\* Processes that are asleep become ready.
LEMMA AwakeSched ==
  ASSUME SchedOK, NEW woken \in Seq(Procs), IsInjective(woken),
         Range(woken) \subseteq Asleep, Awake(woken)
  PROVE  /\ SchedOK' /\ running' = running
         /\ Asleep' = Asleep \ Range(woken)
<1>1. Range(ready_list) \cap Range(woken) = {}
  BY DEF Asleep, SchedOK
<1>2. /\ ready_list' \in Seq(Procs)
      /\ Range(ready_list') = Range(ready_list) \cup Range(woken)
      /\ IsInjective(ready_list')
  BY <1>1, ConcatRange DEF Awake, SchedOK
<1>3. /\ running' = running
      /\ status' = [q \in Procs |-> IF q \in Range(woken) THEN "Ready" ELSE status[q]]
  BY DEF Awake
<1>4. status' \in [Procs -> {"Running", "Ready", "Waiting"}]
  BY <1>3 DEF SchedOK
<1>5. ASSUME NEW p \in Procs
      PROVE  /\ status'[p] = "Running" <=> p = running
             /\ status'[p] = "Ready" <=> p \in Range(ready_list')
             /\ status'[p] = "Waiting" <=> status[p] = "Waiting" /\ p \notin Range(woken)
  <2>1. /\ status[p] = "Running" <=> p = running
        /\ status[p] = "Ready" <=> p \in Range(ready_list)
        /\ p \in Range(woken) => status[p] = "Waiting"
    BY DEF SchedOK, Asleep
  <2>. QED BY <1>2, <1>3, <2>1
<1>6. SchedOK'
  BY <1>2, <1>3, <1>4, <1>5 DEF SchedOK
<1>. QED BY <1>3, <1>5, <1>6 DEF Asleep

-----------------------------------------------------------------------------
(* Waiting lists and calls.                                                *)

\* The running process is on no waiting list.
LEMMA RunnerAwake ==
  ASSUME Core
  PROVE  /\ running \in Procs /\ running \notin Waiters
         /\ Waiters \subseteq Procs
<1>. QED BY DEF Core, SchedOK, QueuesOK, Asleep

\* A process is on one waiting list at most: it is inside one call.
LEMMA QueuesApart ==
  ASSUME CallsOK
  PROVE  /\ Range(waiting_list_read) \cap Range(waiting_list_write) = {}
         /\ Range(waiting_list_read) \cap Range(waiting_list_open_reader) = {}
         /\ Range(waiting_list_read) \cap Range(waiting_list_open_writer) = {}
         /\ Range(waiting_list_write) \cap Range(waiting_list_open_reader) = {}
         /\ Range(waiting_list_write) \cap Range(waiting_list_open_writer) = {}
         /\ Range(waiting_list_open_reader) \cap Range(waiting_list_open_writer) = {}
<1>1. /\ \A p \in Range(waiting_list_read) : call[p].op = "read"
      /\ \A p \in Range(waiting_list_write) : call[p].op = "write"
      /\ \A p \in Range(waiting_list_open_reader) : call[p].op = "RDONLY"
      /\ \A p \in Range(waiting_list_open_writer) : call[p].op = "WRONLY"
  BY DEF CallsOK, WaitersCall
<1>. QED BY <1>1

\* A step that changes the call of the running process only, and adds nobody to
\* a waiting list.
LEMMA CallsKept ==
  ASSUME Core, running \notin Sleepers, NEW c \in FifoCalls, 0 <= c.count - c.done,
         call' = [call EXCEPT ![running] = c],
         Range(waiting_list_read') \subseteq Range(waiting_list_read),
         Range(waiting_list_write') \subseteq Range(waiting_list_write),
         Range(waiting_list_open_reader') \subseteq Range(waiting_list_open_reader),
         Range(waiting_list_open_writer') \subseteq Range(waiting_list_open_writer)
  PROVE  CallsOK'
<1>1. running \in Procs /\ running \notin Waiters
  BY RunnerAwake
<1>2. call \in [Procs -> FifoCalls]
  BY DEF Core, CallsOK
<1>3. /\ call' \in [Procs -> FifoCalls]
      /\ call'[running] = c
      /\ \A q \in Procs \ {running} : call'[q] = call[q]
  BY <1>1, <1>2
<1>4. Waiters \subseteq Procs \ {running}
  BY <1>1, RunnerAwake
<1>5. WaitersCall'
  <2>1. \A q \in Procs : 0 <= call'[q].count - call'[q].done
    BY <1>3 DEF Core, CallsOK, WaitersCall, Left
  <2>2. \A q \in Sleepers : call'[q] = Idle
    BY <1>3 DEF Core, CallsOK, WaitersCall, Procs
  <2>3. \A q \in Range(waiting_list_read') :
          call'[q].op = "read" /\ call'[q].count - call'[q].done > 0 /\ ~call'[q].nonblock
    BY <1>3, <1>4 DEF Core, CallsOK, WaitersCall, Left, Waiters, Blocked
  <2>4. \A q \in Range(waiting_list_write') :
          call'[q].op = "write" /\ call'[q].count - call'[q].done > 0 /\ ~call'[q].nonblock
    BY <1>3, <1>4 DEF Core, CallsOK, WaitersCall, Left, Waiters, Blocked
  <2>. QED BY <2>1, <2>2, <2>3, <2>4 DEF WaitersCall, Left
<1>6. /\ \A p \in Range(waiting_list_open_reader') : call'[p].op = "RDONLY"
      /\ \A p \in Range(waiting_list_open_writer') : call'[p].op = "WRONLY"
  BY <1>3, <1>4 DEF Core, CallsOK, Waiters
<1>. QED BY <1>3, <1>5, <1>6 DEF CallsOK

\* A process enters a call, or is answered without anybody being woken.
LEMMA RecallCore ==
  ASSUME Core, running \notin Sleepers, NEW c \in FifoCalls, 0 <= c.count - c.done,
         call' = [call EXCEPT ![running] = c],
         UNCHANGED <<sched, waiting_list_read, waiting_list_write,
                     waiting_list_open_reader, waiting_list_open_writer>>
  PROVE  Core'
<1>1. CallsOK'
  BY CallsKept
<1>2. SchedOK' /\ Asleep' = Asleep
  BY DEF sched, Core, SchedOK, Asleep
<1>3. QueuesOK'
  BY <1>2 DEF Core, QueuesOK, Waiters, Blocked
<1>. QED BY <1>1, <1>2, <1>3 DEF Core

\* A call wakes processes, takes them off their lists and may end.
LEMMA WakeCore ==
  ASSUME Core, running \notin Sleepers, NEW c \in FifoCalls, 0 <= c.count - c.done,
         call' = [call EXCEPT ![running] = c],
         waiting_list_read' \in Seq(Procs), IsInjective(waiting_list_read'),
         Range(waiting_list_read') \subseteq Range(waiting_list_read),
         waiting_list_write' \in Seq(Procs), IsInjective(waiting_list_write'),
         Range(waiting_list_write') \subseteq Range(waiting_list_write),
         waiting_list_open_reader' \in Seq(Procs), IsInjective(waiting_list_open_reader'),
         Range(waiting_list_open_reader') \subseteq Range(waiting_list_open_reader),
         waiting_list_open_writer' \in Seq(Procs), IsInjective(waiting_list_open_writer'),
         Range(waiting_list_open_writer') \subseteq Range(waiting_list_open_writer),
         NEW woken \in Seq(Procs), IsInjective(woken), Awake(woken),
         Range(woken) = Waiters \ Waiters'
  PROVE  Core' /\ running' = running
<1>1. CallsOK'
  BY CallsKept
<1>2. SchedOK /\ Asleep = Waiters
  BY DEF Core, QueuesOK
<1>3. Range(woken) \subseteq Asleep
  BY <1>2
<1>4. SchedOK' /\ running' = running /\ Asleep' = Asleep \ Range(woken)
  BY <1>2, <1>3, AwakeSched
<1>5. Waiters' \subseteq Waiters
  BY DEF Waiters, Blocked
<1>6. Waiters' = Asleep'
  BY <1>2, <1>4, <1>5
<1>7. QueuesOK'
  BY <1>6 DEF QueuesOK
<1>. QED BY <1>1, <1>4, <1>7 DEF Core

\* A blocking call puts its process to sleep on the list of that call.
LEMMA SleepCore ==
  ASSUME Core, ready_list # <<>>, SwitchFrom(running), call' = call,
         \/ /\ call[running].op = "read" /\ Left(running) > 0 /\ ~call[running].nonblock
            /\ waiting_list_read' = Enqueued(waiting_list_read, running)
            /\ UNCHANGED <<waiting_list_write, waiting_list_open_reader, waiting_list_open_writer>>
         \/ /\ call[running].op = "write" /\ Left(running) > 0 /\ ~call[running].nonblock
            /\ waiting_list_write' = Enqueued(waiting_list_write, running)
            /\ UNCHANGED <<waiting_list_read, waiting_list_open_reader, waiting_list_open_writer>>
         \/ /\ call[running].op = "RDONLY"
            /\ waiting_list_open_reader' = Enqueued(waiting_list_open_reader, running)
            /\ UNCHANGED <<waiting_list_read, waiting_list_write, waiting_list_open_writer>>
         \/ /\ call[running].op = "WRONLY"
            /\ waiting_list_open_writer' = Enqueued(waiting_list_open_writer, running)
            /\ UNCHANGED <<waiting_list_read, waiting_list_write, waiting_list_open_reader>>
  PROVE  Core'
<1>. DEFINE wr == waiting_list_read
            ww == waiting_list_write
            wor == waiting_list_open_reader
            wow == waiting_list_open_writer
<1>1. /\ SchedOK' /\ running \in Procs \ Asleep
      /\ Asleep' = Asleep \cup {running}
  BY SwitchSched DEF Core
<1>2. /\ wr \in Seq(Procs) /\ IsInjective(wr) /\ ww \in Seq(Procs) /\ IsInjective(ww)
      /\ wor \in Seq(Procs) /\ IsInjective(wor) /\ wow \in Seq(Procs) /\ IsInjective(wow)
      /\ Asleep = Range(wr) \cup Range(ww) \cup Range(wor) \cup Range(wow)
      /\ running \notin Range(wr) /\ running \notin Range(ww)
      /\ running \notin Range(wor) /\ running \notin Range(wow)
  BY <1>1 DEF Core, QueuesOK, Waiters, Blocked
<1>3. /\ call \in [Procs -> FifoCalls]
      /\ \A p \in Procs : 0 <= Left(p)
      /\ \A p \in Sleepers : call[p] = Idle
      /\ \A p \in Range(wr) : call[p].op = "read" /\ Left(p) > 0 /\ ~call[p].nonblock
      /\ \A p \in Range(ww) : call[p].op = "write" /\ Left(p) > 0 /\ ~call[p].nonblock
      /\ \A p \in Range(wor) : call[p].op = "RDONLY"
      /\ \A p \in Range(wow) : call[p].op = "WRONLY"
  BY DEF Core, CallsOK, WaitersCall
<1>4. ASSUME NEW q \in Seq(Procs), IsInjective(q), running \notin Range(q)
      PROVE  /\ Enqueued(q, running) \in Seq(Procs)
             /\ IsInjective(Enqueued(q, running))
             /\ Range(Enqueued(q, running)) = Range(q) \cup {running}
  BY <1>1, <1>4, AppendRange DEF Enqueued
<1>5. CASE /\ call[running].op = "read" /\ Left(running) > 0 /\ ~call[running].nonblock
           /\ waiting_list_read' = Enqueued(wr, running)
           /\ waiting_list_write' = ww
           /\ waiting_list_open_reader' = wor /\ waiting_list_open_writer' = wow
  <2>1. QueuesOK'
    BY <1>1, <1>2, <1>4, <1>5 DEF QueuesOK, Waiters, Blocked
  <2>2. CallsOK'
    BY <1>2, <1>3, <1>4, <1>5 DEF CallsOK, WaitersCall, Left
  <2>. QED BY <1>1, <2>1, <2>2 DEF Core
<1>6. CASE /\ call[running].op = "write" /\ Left(running) > 0 /\ ~call[running].nonblock
           /\ waiting_list_write' = Enqueued(ww, running)
           /\ waiting_list_read' = wr
           /\ waiting_list_open_reader' = wor /\ waiting_list_open_writer' = wow
  <2>1. QueuesOK'
    BY <1>1, <1>2, <1>4, <1>6 DEF QueuesOK, Waiters, Blocked
  <2>2. CallsOK'
    BY <1>2, <1>3, <1>4, <1>6 DEF CallsOK, WaitersCall, Left
  <2>. QED BY <1>1, <2>1, <2>2 DEF Core
<1>7. CASE /\ call[running].op = "RDONLY"
           /\ waiting_list_open_reader' = Enqueued(wor, running)
           /\ waiting_list_read' = wr /\ waiting_list_write' = ww
           /\ waiting_list_open_writer' = wow
  <2>1. QueuesOK'
    BY <1>1, <1>2, <1>4, <1>7 DEF QueuesOK, Waiters, Blocked
  <2>2. CallsOK'
    BY <1>2, <1>3, <1>4, <1>7 DEF CallsOK, WaitersCall, Left
  <2>. QED BY <1>1, <2>1, <2>2 DEF Core
<1>8. CASE /\ call[running].op = "WRONLY"
           /\ waiting_list_open_writer' = Enqueued(wow, running)
           /\ waiting_list_read' = wr /\ waiting_list_write' = ww
           /\ waiting_list_open_reader' = wor
  <2>1. QueuesOK'
    BY <1>1, <1>2, <1>4, <1>8 DEF QueuesOK, Waiters, Blocked
  <2>2. CallsOK'
    BY <1>2, <1>3, <1>4, <1>8 DEF CallsOK, WaitersCall, Left
  <2>. QED BY <1>1, <2>1, <2>2 DEF Core
<1>. QED BY <1>5, <1>6, <1>7, <1>8

-----------------------------------------------------------------------------
(* What each call does to the core.                                        *)

\* Whoever opens meets everybody who waits for it.
LEMMA MetAll ==
  ASSUME NEW q \in Seq(Procs)
  PROVE  Met(q) = q /\ StillOpening(q) = <<>> /\ Range(StillOpening(q)) = {}
         /\ StillOpening(q) \in Seq(Procs) /\ IsInjective(StillOpening(q))
<1>1. Len(q) \in Nat
  BY LenProperties
<1>2. SubSeq(q, Len(q) + 1, Len(q)) = <<>>
  BY <1>1, SubSeqEmpty
<1>. QED BY <1>2 DEF Met, StillOpening, Range, IsInjective

\* The last close of a side wakes all who wait on the other, any other nobody.
LEMMA HangupAll ==
  ASSUME NEW q \in Seq(Procs), NEW n
  PROVE  /\ Hangup(n, q) = IF n = 0 THEN q ELSE <<>>
         /\ Unhung(n, q) = IF n = 0 THEN <<>> ELSE q
<1>1. Len(q) \in Nat
  BY LenProperties
<1>2. SubSeq(q, Len(q) + 1, Len(q)) = <<>>
  BY <1>1, SubSeqEmpty
<1>3. SubSeq(q, 0 + 1, Len(q)) = q
  BY SubSeqFull
<1>4. Len(<<>>) = 0
  BY EmptySeq
<1>5. CASE n = 0
  BY <1>2, <1>5 DEF Hangup, Unhung
<1>6. CASE n # 0
  BY <1>3, <1>4, <1>6 DEF Hangup, Unhung
<1>. QED BY <1>5, <1>6

\* Ipc_unlock_first_reader and _writer split the lists of the channel in two.
LEMMA QueuesSplit ==
  ASSUME QueuesOK, NEW k \in BOOLEAN
  PROVE  /\ Unlocked(waiting_list_read, k) \in Seq(Procs)
         /\ StillLocked(waiting_list_read, k) \in Seq(Procs)
         /\ Range(waiting_list_read) =
              Range(Unlocked(waiting_list_read, k)) \cup Range(StillLocked(waiting_list_read, k))
         /\ IsInjective(Unlocked(waiting_list_read, k))
         /\ IsInjective(StillLocked(waiting_list_read, k))
         /\ Range(Unlocked(waiting_list_read, k)) \cap Range(StillLocked(waiting_list_read, k)) = {}
         /\ Unlocked(waiting_list_write, k) \in Seq(Procs)
         /\ StillLocked(waiting_list_write, k) \in Seq(Procs)
         /\ Range(waiting_list_write) =
              Range(Unlocked(waiting_list_write, k)) \cup Range(StillLocked(waiting_list_write, k))
         /\ IsInjective(Unlocked(waiting_list_write, k))
         /\ IsInjective(StillLocked(waiting_list_write, k))
         /\ Range(Unlocked(waiting_list_write, k)) \cap Range(StillLocked(waiting_list_write, k)) = {}
<1>. QED BY UnlockSplits DEF QueuesOK

\* A transfer of bytes wakes a process of the other side, and perhaps one of its own.
LEMMA TransferCore ==
  ASSUME Core, running \notin Sleepers, NEW c \in FifoCalls, 0 <= c.count - c.done,
         call' = [call EXCEPT ![running] = c],
         NEW k1 \in BOOLEAN, NEW k2 \in BOOLEAN, NEW woken,
         \/ woken = Unlocked(waiting_list_read, k1) \o Unlocked(waiting_list_write, k2)
         \/ woken = Unlocked(waiting_list_write, k2) \o Unlocked(waiting_list_read, k1),
         waiting_list_read' = StillLocked(waiting_list_read, k1),
         waiting_list_write' = StillLocked(waiting_list_write, k2),
         UNCHANGED <<waiting_list_open_reader, waiting_list_open_writer>>,
         Awake(woken)
  PROVE  Core' /\ running' = running
<1>. DEFINE wr == waiting_list_read
            ww == waiting_list_write
            ur == Unlocked(wr, k1)
            uw == Unlocked(ww, k2)
            lr == StillLocked(wr, k1)
            lw == StillLocked(ww, k2)
<1>1. /\ wr \in Seq(Procs) /\ IsInjective(wr) /\ ww \in Seq(Procs) /\ IsInjective(ww)
      /\ waiting_list_open_reader \in Seq(Procs) /\ IsInjective(waiting_list_open_reader)
      /\ waiting_list_open_writer \in Seq(Procs) /\ IsInjective(waiting_list_open_writer)
  BY DEF Core, QueuesOK
<1>2. /\ ur \in Seq(Procs) /\ lr \in Seq(Procs)
      /\ Range(wr) = Range(ur) \cup Range(lr)
      /\ IsInjective(ur) /\ IsInjective(lr) /\ Range(ur) \cap Range(lr) = {}
  BY QueuesSplit DEF Core
<1>3. /\ uw \in Seq(Procs) /\ lw \in Seq(Procs)
      /\ Range(ww) = Range(uw) \cup Range(lw)
      /\ IsInjective(uw) /\ IsInjective(lw) /\ Range(uw) \cap Range(lw) = {}
  BY QueuesSplit DEF Core
<1>. HIDE DEF ur, uw, lr, lw
<1>4. /\ Range(wr) \cap Range(ww) = {}
      /\ (Range(wr) \cup Range(ww)) \cap
           (Range(waiting_list_open_reader) \cup Range(waiting_list_open_writer)) = {}
  BY QueuesApart DEF Core
<1>5. /\ woken \in Seq(Procs)
      /\ Range(woken) = Range(ur) \cup Range(uw)
      /\ IsInjective(woken)
  <2>1. woken = ur \o uw \/ woken = uw \o ur
    BY DEF ur, uw
  <2>2. Range(ur) \cap Range(uw) = {}
    BY <1>2, <1>3, <1>4
  <2>3. /\ ur \o uw \in Seq(Procs) /\ Range(ur \o uw) = Range(ur) \cup Range(uw)
        /\ IsInjective(ur \o uw)
    BY <1>2, <1>3, <2>2, ConcatRange
  <2>4. /\ uw \o ur \in Seq(Procs) /\ Range(uw \o ur) = Range(ur) \cup Range(uw)
        /\ IsInjective(uw \o ur)
    BY <1>2, <1>3, <2>2, ConcatRange
  <2>. QED BY <2>1, <2>3, <2>4
<1>6. waiting_list_read' = lr /\ waiting_list_write' = lw
  BY DEF lr, lw
<1>7. Range(woken) = Waiters \ Waiters'
  <2>1. Waiters = Range(wr) \cup Range(ww) \cup Range(waiting_list_open_reader)
                    \cup Range(waiting_list_open_writer)
    BY DEF Waiters, Blocked
  <2>2. Waiters' = Range(lr) \cup Range(lw) \cup Range(waiting_list_open_reader)
                     \cup Range(waiting_list_open_writer)
    BY <1>6 DEF Waiters, Blocked
  <2>. QED BY <1>2, <1>3, <1>4, <1>5, <2>1, <2>2
<1>8. /\ waiting_list_read' \in Seq(Procs) /\ IsInjective(waiting_list_read')
      /\ Range(waiting_list_read') \subseteq Range(waiting_list_read)
      /\ waiting_list_write' \in Seq(Procs) /\ IsInjective(waiting_list_write')
      /\ Range(waiting_list_write') \subseteq Range(waiting_list_write)
      /\ waiting_list_open_reader' \in Seq(Procs) /\ IsInjective(waiting_list_open_reader')
      /\ Range(waiting_list_open_reader') \subseteq Range(waiting_list_open_reader)
      /\ waiting_list_open_writer' \in Seq(Procs) /\ IsInjective(waiting_list_open_writer')
      /\ Range(waiting_list_open_writer') \subseteq Range(waiting_list_open_writer)
  BY <1>1, <1>2, <1>3, <1>6
<1>. QED BY <1>5, <1>7, <1>8, WakeCore

\* The end of a call.
LEMMA IdleCall == Idle \in FifoCalls /\ 0 <= Idle.count - Idle.done /\ Idle.op = "none"
<1>. QED BY DEF Idle, FifoCalls

\* Somebody leaves, or meets, a whole list: its processes are woken and it is empty.
LEMMA EmptiedCore ==
  ASSUME Core, running \notin Sleepers, NEW c \in FifoCalls, 0 <= c.count - c.done,
         call' = [call EXCEPT ![running] = c],
         \/ /\ Awake(waiting_list_read) /\ waiting_list_read' = <<>>
            /\ UNCHANGED <<waiting_list_write, waiting_list_open_reader, waiting_list_open_writer>>
         \/ /\ Awake(waiting_list_write) /\ waiting_list_write' = <<>>
            /\ UNCHANGED <<waiting_list_read, waiting_list_open_reader, waiting_list_open_writer>>
         \/ /\ Awake(waiting_list_open_reader) /\ waiting_list_open_reader' = <<>>
            /\ UNCHANGED <<waiting_list_read, waiting_list_write, waiting_list_open_writer>>
         \/ /\ Awake(waiting_list_open_writer) /\ waiting_list_open_writer' = <<>>
            /\ UNCHANGED <<waiting_list_read, waiting_list_write, waiting_list_open_reader>>
         \/ /\ Awake(<<>>)
            /\ UNCHANGED <<waiting_list_read, waiting_list_write, waiting_list_open_reader,
                           waiting_list_open_writer>>
  PROVE  Core' /\ running' = running
<1>1. <<>> \in Seq(Procs) /\ IsInjective(<<>>) /\ Range(<<>>) = {}
  BY DEF Range, IsInjective
<1>2. /\ waiting_list_read \in Seq(Procs) /\ IsInjective(waiting_list_read)
      /\ waiting_list_write \in Seq(Procs) /\ IsInjective(waiting_list_write)
      /\ waiting_list_open_reader \in Seq(Procs) /\ IsInjective(waiting_list_open_reader)
      /\ waiting_list_open_writer \in Seq(Procs) /\ IsInjective(waiting_list_open_writer)
  BY DEF Core, QueuesOK
<1>3. /\ waiting_list_read' \in Seq(Procs) /\ IsInjective(waiting_list_read')
      /\ Range(waiting_list_read') \subseteq Range(waiting_list_read)
      /\ waiting_list_write' \in Seq(Procs) /\ IsInjective(waiting_list_write')
      /\ Range(waiting_list_write') \subseteq Range(waiting_list_write)
      /\ waiting_list_open_reader' \in Seq(Procs) /\ IsInjective(waiting_list_open_reader')
      /\ Range(waiting_list_open_reader') \subseteq Range(waiting_list_open_reader)
      /\ waiting_list_open_writer' \in Seq(Procs) /\ IsInjective(waiting_list_open_writer')
      /\ Range(waiting_list_open_writer') \subseteq Range(waiting_list_open_writer)
  BY <1>1, <1>2
<1>4. \E woken \in Seq(Procs) :
        IsInjective(woken) /\ Awake(woken) /\ Range(woken) = Waiters \ Waiters'
  BY <1>1, <1>2, QueuesApart DEF Core, Waiters, Blocked
<1>. QED BY <1>3, <1>4, WakeCore

\* A write that goes on, or ends, stays the call it was.
LEMMA WrittenCall ==
  ASSUME Core, NEW n \in Nat, n <= Left(running), Written(running, n)
  PROVE  \E c \in FifoCalls :
           /\ 0 <= c.count - c.done
           /\ c.op = "none" \/ c.op = call[running].op
           /\ call' = [call EXCEPT ![running] = c]
<1>1. call \in [Procs -> FifoCalls] /\ running \in Procs
  BY RunnerAwake DEF Core, CallsOK
<1>2. CASE n = Left(running)
  BY <1>2, IdleCall DEF Written, Return
<1>3. CASE n # Left(running)
  <2>. DEFINE c == [call[running] EXCEPT !.done = @ + n]
  <2>1. call' = [call EXCEPT ![running] = c]
    BY <1>1, <1>3 DEF Written
  <2>2. c \in FifoCalls /\ c.op = call[running].op /\ 0 <= c.count - c.done
    BY <1>1 DEF FifoCalls, Left
  <2>. QED BY <2>1, <2>2
<1>. QED BY <1>2, <1>3

-----------------------------------------------------------------------------
(* The core is invariant.                                                  *)

\* A step that leaves the scheduler, the waiting lists and the calls alone.
LEMMA StutterCore ==
  ASSUME Core, UNCHANGED <<sched, call, waiting_list_read, waiting_list_write,
                           waiting_list_open_reader, waiting_list_open_writer>>
  PROVE  Core'
<1>1. SchedOK' /\ Asleep' = Asleep
  BY DEF sched, Core, SchedOK, Asleep
<1>2. QueuesOK'
  BY <1>1 DEF Core, QueuesOK, Waiters, Blocked
<1>3. CallsOK'
  BY DEF Core, CallsOK, WaitersCall, Left
<1>. QED BY <1>1, <1>2, <1>3 DEF Core

\* An open fails, meets the other side, sleeps or dies.
LEMMA OpenCore ==
  ASSUME Core, running \in Workers, Resource_open(running)
  PROVE  Core'
<1>1. running \notin Sleepers
  BY ProcsAssumption
<1>2. /\ waiting_list_open_reader \in Seq(Procs)
      /\ waiting_list_open_writer \in Seq(Procs)
  BY DEF Core, QueuesOK
<1>3. CASE OpenFails(running)
  BY <1>1, <1>3, RecallCore, IdleCall DEF OpenFails, Return, openers
<1>4. CASE OpenReader(running)
  <2>1. CASE /\ Opened(running, waiting_list_open_writer)
             /\ waiting_list_open_writer' = StillOpening(waiting_list_open_writer)
             /\ UNCHANGED waiting_list_open_reader
    <3>1. /\ Awake(waiting_list_open_writer) /\ waiting_list_open_writer' = <<>>
          /\ call' = [call EXCEPT ![running] = Idle]
          /\ UNCHANGED <<waiting_list_read, waiting_list_write, waiting_list_open_reader>>
      BY <1>2, <2>1, MetAll DEF Opened, Return
    <3>. QED BY <1>1, <3>1, EmptiedCore, IdleCall
  <2>2. CASE /\ ready_list # <<>>
             /\ waiting_list_open_reader' = Enqueued(waiting_list_open_reader, running)
             /\ SwitchFrom(running)
             /\ UNCHANGED <<call, waiting_list_read, waiting_list_write, waiting_list_open_writer>>
    BY <1>4, <2>2, SleepCore DEF OpenReader
  <2>3. CASE Crash /\ UNCHANGED openers
    BY <2>3, StutterCore DEF Crash, openers
  <2>. QED BY <1>4, <2>1, <2>2, <2>3 DEF OpenReader
<1>5. CASE OpenWriter(running)
  <2>1. CASE /\ Opened(running, waiting_list_open_reader)
             /\ waiting_list_open_reader' = StillOpening(waiting_list_open_reader)
             /\ UNCHANGED waiting_list_open_writer
    <3>1. /\ Awake(waiting_list_open_reader) /\ waiting_list_open_reader' = <<>>
          /\ call' = [call EXCEPT ![running] = Idle]
          /\ UNCHANGED <<waiting_list_read, waiting_list_write, waiting_list_open_writer>>
      BY <1>2, <2>1, MetAll DEF Opened, Return
    <3>. QED BY <1>1, <3>1, EmptiedCore, IdleCall
  <2>2. CASE /\ Return(running)
             /\ UNCHANGED <<sched, waiting_list_read, waiting_list_write, openers>>
    BY <1>1, <2>2, RecallCore, IdleCall DEF Return, openers
  <2>3. CASE /\ ready_list # <<>>
             /\ waiting_list_open_writer' = Enqueued(waiting_list_open_writer, running)
             /\ SwitchFrom(running)
             /\ UNCHANGED <<call, waiting_list_read, waiting_list_write, waiting_list_open_reader>>
    BY <1>5, <2>3, SleepCore DEF OpenWriter
  <2>4. CASE Crash /\ UNCHANGED openers
    BY <2>4, StutterCore DEF Crash, openers
  <2>. QED BY <1>5, <2>1, <2>2, <2>3, <2>4 DEF OpenWriter
<1>. QED BY <1>3, <1>4, <1>5 DEF Resource_open

\* A read ends, sleeps, dies or transfers bytes.
LEMMA ReadCore ==
  ASSUME Core, size \in 0..SizeMax, running \in Workers, Fifo_read(running)
  PROVE  Core'
<1>1. running \notin Sleepers
  BY ProcsAssumption
<1>2. /\ call[running].op = "read"
      /\ UNCHANGED <<waiting_list_open_reader, waiting_list_open_writer>>
  BY DEF Fifo_read, openers
<1>3. CASE Return(running) /\ UNCHANGED <<sched, waiting_list_read, waiting_list_write>>
  BY <1>1, <1>2, <1>3, RecallCore, IdleCall DEF Return
<1>4. CASE Left(running) > 0 /\ ~call[running].nonblock /\ Ipc_lock_reader(running)
  <2>1. CASE Crash
    BY <1>2, <2>1, StutterCore DEF Crash
  <2>2. CASE ~Crash
    BY <1>2, <1>4, <2>2, SleepCore DEF Ipc_lock_reader
  <2>. QED BY <2>1, <2>2
<1>5. CASE Left(running) > 0 /\ size > 0 /\ ReadBytes(running)
  <2>. DEFINE n == IF size < Left(running) THEN size ELSE Left(running)
              more == MoreData(size - n)
  <2>1. /\ waiting_list_write' = StillLocked(waiting_list_write, TRUE)
        /\ waiting_list_read' = StillLocked(waiting_list_read, more)
        /\ Awake(Unlocked(waiting_list_write, TRUE) \o Unlocked(waiting_list_read, more))
        /\ call' = [call EXCEPT ![running] = Idle]
    BY <1>5 DEF ReadBytes, Return
  <2>2. more \in BOOLEAN
    BY DEF MoreData
  <2>. HIDE DEF n, more
  <2>. QED BY <1>1, <1>2, <2>1, <2>2, IdleCall, TransferCore
<1>. QED BY <1>3, <1>4, <1>5 DEF Fifo_read, Ipc_read, Answer

\* A write ends, sleeps, dies or transfers bytes and perhaps goes on.
LEMMA WriteCore ==
  ASSUME Core, size \in 0..SizeMax, running \in Workers, Fifo_write(running)
  PROVE  Core'
<1>1. running \notin Sleepers
  BY ProcsAssumption
<1>2. /\ call[running].op = "write"
      /\ UNCHANGED <<waiting_list_open_reader, waiting_list_open_writer>>
  BY DEF Fifo_write, openers
<1>3. CASE Return(running) /\ UNCHANGED <<sched, waiting_list_read, waiting_list_write>>
  BY <1>1, <1>2, <1>3, RecallCore, IdleCall DEF Return
<1>4. CASE Left(running) > 0 /\ ~call[running].nonblock /\ Ipc_lock_writer(running)
  <2>1. CASE Crash
    BY <1>2, <2>1, StutterCore DEF Crash
  <2>2. CASE ~Crash
    BY <1>2, <1>4, <2>2, SleepCore DEF Ipc_lock_writer
  <2>. QED BY <2>1, <2>2
<1>5. CASE Left(running) > 0 /\ WriteBytes(running)
  <2>. DEFINE n == Writable(running)
              more == Free - n > 0
  <2>1. /\ waiting_list_write' = StillLocked(waiting_list_write, more)
        /\ waiting_list_read' = StillLocked(waiting_list_read, TRUE)
        /\ Awake(Unlocked(waiting_list_read, TRUE) \o Unlocked(waiting_list_write, more))
        /\ Written(running, n)
    BY <1>5 DEF WriteBytes
  <2>2. more \in BOOLEAN
    OBVIOUS
  <2>3. n \in Nat /\ n <= Left(running)
    <3>1. Left(running) \in Int /\ Free \in Nat
      BY RunnerAwake, SizeAssumption DEF Core, CallsOK, FifoCalls, Left, Free
    <3>. QED BY <1>5, <3>1 DEF Writable
  <2>. HIDE DEF n, more
  <2>4. PICK c \in FifoCalls :
          0 <= c.count - c.done /\ call' = [call EXCEPT ![running] = c]
    BY <2>1, <2>3, WrittenCall
  <2>. QED BY <1>1, <1>2, <2>1, <2>2, <2>4, TransferCore
<1>. QED BY <1>3, <1>4, <1>5 DEF Fifo_write, Ipc_write, Answer

\* The last close of a side wakes all who wait on the other side.
LEMMA CloseCore ==
  ASSUME Core, running \in Workers, Resource_close(running)
  PROVE  Core'
<1>1. running \notin Sleepers /\ running \in Procs
  BY ProcsAssumption DEF Procs
<1>2. /\ call' = call /\ call[running] = Idle
      /\ UNCHANGED <<waiting_list_open_reader, waiting_list_open_writer>>
  BY DEF Resource_close, Issues
<1>3. call' = [call EXCEPT ![running] = Idle]
  BY <1>1, <1>2 DEF Core, CallsOK
<1>4. waiting_list_read \in Seq(Procs) /\ waiting_list_write \in Seq(Procs)
  BY DEF Core, QueuesOK
<1>5. PICK d \in descriptors : CloseReader(d) \/ CloseWriter(d)
  BY DEF Resource_close
<1>6. CASE CloseReader(d)
  <2>1. /\ Awake(IF readers_number' = 0 THEN waiting_list_write ELSE <<>>)
        /\ waiting_list_write' = IF readers_number' = 0 THEN <<>> ELSE waiting_list_write
        /\ waiting_list_read' = waiting_list_read
    BY <1>4, <1>6, HangupAll DEF CloseReader
  <2>2. CASE readers_number' = 0
    BY <1>1, <1>2, <1>3, <2>1, <2>2, EmptiedCore, IdleCall
  <2>3. CASE readers_number' # 0
    BY <1>1, <1>2, <1>3, <2>1, <2>3, EmptiedCore, IdleCall
  <2>. QED BY <2>2, <2>3
<1>7. CASE CloseWriter(d)
  <2>1. /\ Awake(IF writers_number' = 0 THEN waiting_list_read ELSE <<>>)
        /\ waiting_list_read' = IF writers_number' = 0 THEN <<>> ELSE waiting_list_read
        /\ waiting_list_write' = waiting_list_write
    BY <1>4, <1>7, HangupAll DEF CloseWriter
  <2>2. CASE writers_number' = 0
    BY <1>1, <1>2, <1>3, <2>1, <2>2, EmptiedCore, IdleCall
  <2>3. CASE writers_number' # 0
    BY <1>1, <1>2, <1>3, <2>1, <2>3, EmptiedCore, IdleCall
  <2>. QED BY <2>2, <2>3
<1>. QED BY <1>5, <1>6, <1>7

\* Nobody waits on a fifo that is not there.
LEMMA AbsentEmpty ==
  ASSUME Core, FreedUnused, fifo = "absent"
  PROVE  /\ descriptors = {}
         /\ waiting_list_read = <<>> /\ waiting_list_write = <<>>
         /\ waiting_list_open_reader = <<>> /\ waiting_list_open_writer = <<>>
<1>1. descriptors = {} /\ Waiters = {}
  BY DEF FreedUnused
<1>2. ASSUME NEW q \in Seq(Procs), Range(q) = {}
      PROVE  q = <<>>
  <2>1. Len(q) \in Nat /\ DOMAIN q = 1..Len(q)
    BY LenProperties
  <2>2. Len(q) # 0 => q[1] \in Range(q)
    BY <2>1 DEF Range
  <2>. QED BY <1>2, <2>1, <2>2, EmptySeq
<1>. QED BY <1>1, <1>2 DEF Core, QueuesOK, Waiters, Blocked

\* A process calls open, read or write.
LEMMA EnterCore ==
  ASSUME Core, DescriptorsOK, running \in Workers, EnterOpen(running) \/ EnterTransfer(running)
  PROVE  Core'
<1>1. running \notin Sleepers
  BY ProcsAssumption
<1>2. PICK c \in FifoCalls :
        0 <= c.count - c.done /\ call' = [call EXCEPT ![running] = c]
  <2>1. ASSUME NEW op \in {"read", "write", "RDONLY", "WRONLY", "RDWR"},
               NEW n \in Nat, NEW nb \in BOOLEAN
        PROVE  /\ [op |-> op, count |-> n, done |-> 0, nonblock |-> nb] \in FifoCalls
               /\ 0 <= [op |-> op, count |-> n, done |-> 0, nonblock |-> nb].count
                        - [op |-> op, count |-> n, done |-> 0, nonblock |-> nb].done
    BY DEF FifoCalls
  <2>2. CASE EnterOpen(running)
    <3>1. PICK mode \in OpenModes, nb \in NonBlock :
            call' = [call EXCEPT ![running] =
                       [op |-> mode, count |-> 0, done |-> 0, nonblock |-> nb]]
      BY <2>2 DEF EnterOpen
    <3>2. mode \in {"read", "write", "RDONLY", "WRONLY", "RDWR"} /\ nb \in BOOLEAN
      BY FifoAssumption, CountsAssumption
    <3>. QED BY <2>1, <3>1, <3>2
  <2>3. CASE EnterTransfer(running)
    <3>1. PICK d \in descriptors, n \in Counts :
            call' = [call EXCEPT ![running] =
                       [op |-> IF d.mode = "RDONLY" THEN "read" ELSE "write",
                        count |-> n, done |-> 0, nonblock |-> d.nonblock]]
      BY <2>3 DEF EnterTransfer
    <3>2. n \in Nat /\ d.nonblock \in BOOLEAN
      BY CountsAssumption DEF DescriptorsOK
    <3>. QED BY <2>1, <3>1, <3>2
  <2>. QED BY <2>2, <2>3
<1>3. UNCHANGED <<sched, waiting_list_read, waiting_list_write,
                  waiting_list_open_reader, waiting_list_open_writer>>
  BY DEF EnterOpen, EnterTransfer, openers
<1>. QED BY <1>1, <1>2, <1>3, RecallCore

\* Every step of the kernel preserves the core.
LEMMA CoreStep ==
  ASSUME FifoIInv, FifoNext
  PROVE  Core'
<1>. USE DEF FifoIInv
<1>1. CASE FifoSchedule
  <2>1. /\ SchedOK' /\ Asleep' = Asleep
        /\ UNCHANGED <<call, waiting_list_read, waiting_list_write,
                       waiting_list_open_reader, waiting_list_open_writer>>
    BY <1>1, RotateSched DEF Core, FifoSchedule, internal_schedule, openers
  <2>2. QueuesOK'
    BY <2>1 DEF Core, QueuesOK, Waiters, Blocked
  <2>3. CallsOK'
    BY <2>1 DEF Core, CallsOK, WaitersCall, Left
  <2>. QED BY <2>1, <2>2, <2>3 DEF Core
<1>2. ASSUME NEW p \in Workers, EnterOpen(p) \/ EnterTransfer(p)
      PROVE  Core'
  <2>1. running = p
    BY <1>2 DEF EnterOpen, EnterTransfer, Issues
  <2>. QED BY <1>2, <2>1, EnterCore
<1>3. ASSUME NEW p \in Workers, FifoSyscall(p)
      PROVE  Core'
  BY <1>3, OpenCore, ReadCore, WriteCore DEF FifoSyscall, BytesOK
<1>4. ASSUME NEW p \in Workers, Resource_close(p)
      PROVE  Core'
  <2>1. running = p
    BY <1>4 DEF Resource_close, Issues
  <2>. QED BY <1>4, <2>1, CloseCore
<1>5. ASSUME NEW p \in Workers, Resource_unlink(p)
      PROVE  Core'
  BY <1>5, StutterCore DEF Resource_unlink, openers
<1>6. ASSUME NEW p \in Workers, Fifo_mk(p)
      PROVE  Core'
  BY <1>6, AbsentEmpty, StutterCore DEF Fifo_mk, DescriptorsOK
<1>. QED BY <1>1, <1>2, <1>3, <1>4, <1>5, <1>6 DEF FifoNext

-----------------------------------------------------------------------------
(* The positions in the circular buffer.                                   *)

\* A position less than twice the size of the buffer, brought back into it.
LEMMA BackIntoBuffer ==
  ASSUME NEW x \in Nat, x < SizeMax + SizeMax
  PROVE  /\ x % SizeMax = IF x < SizeMax THEN x ELSE x - SizeMax
         /\ x % SizeMax \in 0..(SizeMax - 1)
<1>1. SizeMax \in Nat /\ SizeMax > 0
  BY SizeAssumption, FifoAssumption
<1>2. CASE x < SizeMax
  BY <1>1, <1>2, SMTT(30)
<1>3. CASE x >= SizeMax
  <2>1. x - SizeMax \in 0..(SizeMax - 1)
    BY <1>1, <1>3
  <2>2. x % SizeMax = x - SizeMax
    BY <1>1, <1>3, <2>1, SMTT(30)
  <2>. QED BY <1>1, <1>3, <2>1, <2>2
<1>. QED BY <1>1, <1>2, <1>3

\* A read of n bytes moves the reader's position; the writer's stays right.
LEMMA AdvanceRead ==
  ASSUME BytesOK, NEW n \in 0..size,
         size' = size - n, read_pos' = Advanced(read_pos, n), write_pos' = write_pos
  PROVE  BytesOK'
<1>1. /\ SizeMax \in Nat /\ SizeMax > 0 /\ size \in 0..SizeMax
      /\ read_pos \in 0..(SizeMax - 1) /\ write_pos \in 0..(SizeMax - 1)
      /\ write_pos = (read_pos + size) % SizeMax
  BY SizeAssumption, FifoAssumption DEF BytesOK, PositionsAgree
<1>2. size' \in 0..SizeMax
  BY <1>1
<1>3. PICK x \in Nat : x = read_pos + n
  BY <1>1
<1>4. read_pos' = x % SizeMax /\ x < SizeMax + SizeMax
  BY <1>1, <1>3 DEF Advanced
<1>5. /\ read_pos' = IF x < SizeMax THEN x ELSE x - SizeMax
      /\ read_pos' \in 0..(SizeMax - 1)
  BY <1>4, BackIntoBuffer
<1>6. PICK y \in Nat : y = read_pos + size
  BY <1>1
<1>7. write_pos = y % SizeMax /\ y < SizeMax + SizeMax
  BY <1>1, <1>6
<1>8. write_pos = IF y < SizeMax THEN y ELSE y - SizeMax
  BY <1>7, BackIntoBuffer
<1>9. PICK z \in Nat : z = read_pos' + size'
  BY <1>2, <1>5
<1>10. z < SizeMax + SizeMax
  BY <1>1, <1>2, <1>5, <1>9
<1>11. z % SizeMax = IF z < SizeMax THEN z ELSE z - SizeMax
  BY <1>10, BackIntoBuffer
<1>12. write_pos = z % SizeMax
  BY <1>1, <1>3, <1>5, <1>6, <1>8, <1>9, <1>11
<1>. QED BY <1>1, <1>2, <1>5, <1>9, <1>12 DEF BytesOK, PositionsAgree

\* A write of n bytes that fit moves the writer's position.
LEMMA AdvanceWrite ==
  ASSUME BytesOK, NEW n \in 0..(SizeMax - size),
         size' = size + n, write_pos' = Advanced(write_pos, n), read_pos' = read_pos
  PROVE  BytesOK'
<1>1. /\ SizeMax \in Nat /\ SizeMax > 0 /\ size \in 0..SizeMax
      /\ read_pos \in 0..(SizeMax - 1) /\ write_pos \in 0..(SizeMax - 1)
      /\ write_pos = (read_pos + size) % SizeMax
  BY SizeAssumption, FifoAssumption DEF BytesOK, PositionsAgree
<1>2. size' \in 0..SizeMax
  BY <1>1
<1>3. PICK x \in Nat : x = write_pos + n
  BY <1>1
<1>4. write_pos' = x % SizeMax /\ x < SizeMax + SizeMax
  BY <1>1, <1>3 DEF Advanced
<1>5. /\ write_pos' = IF x < SizeMax THEN x ELSE x - SizeMax
      /\ write_pos' \in 0..(SizeMax - 1)
  BY <1>4, BackIntoBuffer
<1>6. PICK y \in Nat : y = read_pos + size
  BY <1>1
<1>7. write_pos = y % SizeMax /\ y < SizeMax + SizeMax
  BY <1>1, <1>6
<1>8. write_pos = IF y < SizeMax THEN y ELSE y - SizeMax
  BY <1>7, BackIntoBuffer
<1>9. PICK z \in Nat : z = read_pos' + size'
  BY <1>1, <1>2
<1>10. z < SizeMax + SizeMax
  BY <1>1, <1>2, <1>9
<1>11. z % SizeMax = IF z < SizeMax THEN z ELSE z - SizeMax
  BY <1>10, BackIntoBuffer
<1>12. write_pos' = z % SizeMax
  BY <1>1, <1>3, <1>5, <1>6, <1>8, <1>9, <1>11
<1>. QED BY <1>1, <1>2, <1>5, <1>9, <1>12 DEF BytesOK, PositionsAgree

\* Every step keeps the positions right.
LEMMA BytesStep ==
  ASSUME FifoIInv, FifoNext
  PROVE  BytesOK'
<1>. USE DEF FifoIInv
<1>1. SizeMax \in Nat /\ SizeMax > 0 /\ size \in 0..SizeMax
  BY SizeAssumption, FifoAssumption DEF BytesOK
<1>2. ASSUME UNCHANGED <<size, read_pos, write_pos>>
      PROVE  BytesOK'
  BY <1>2 DEF BytesOK, PositionsAgree
<1>3. ASSUME NEW p \in Procs
      PROVE  Left(p) \in Int
  BY DEF Core, CallsOK, FifoCalls, Left
<1>4. ASSUME NEW p \in Workers, Fifo_read(p)
      PROVE  BytesOK'
  <2>1. CASE UNCHANGED <<size, read_pos>>
    BY <1>2, <1>4, <2>1 DEF Fifo_read
  <2>2. CASE size' = size /\ read_pos' = Advanced(read_pos, size - size')
    <3>1. 0 \in 0..size /\ size' = size - 0 /\ read_pos' = Advanced(read_pos, 0)
      BY <1>1, <2>2
    <3>. QED BY <1>4, <3>1, AdvanceRead DEF Fifo_read
  <2>3. CASE /\ Left(p) > 0 /\ size > 0 /\ ReadBytes(p)
             /\ read_pos' = Advanced(read_pos, size - size')
    <3>1. Left(p) \in Int
      BY <1>3 DEF Procs
    <3>2. PICK n \in 0..size : size' = size - n
      BY <1>1, <2>3, <3>1 DEF ReadBytes
    <3>3. read_pos' = Advanced(read_pos, n)
      BY <1>1, <2>3, <3>2
    <3>. QED BY <1>4, <3>2, <3>3, AdvanceRead DEF Fifo_read
  <2>. QED BY <1>4, <2>1, <2>2, <2>3 DEF Fifo_read, Ipc_read, Answer, Ipc_lock_reader, Crash
<1>5. ASSUME NEW p \in Workers, Fifo_write(p)
      PROVE  BytesOK'
  <2>1. CASE UNCHANGED <<size, write_pos>>
    BY <1>2, <1>5, <2>1 DEF Fifo_write
  <2>2. CASE size' = size /\ write_pos' = Advanced(write_pos, size' - size)
    <3>1. 0 \in 0..(SizeMax - size) /\ size' = size + 0 /\ write_pos' = Advanced(write_pos, 0)
      BY <1>1, <2>2
    <3>. QED BY <1>5, <3>1, AdvanceWrite DEF Fifo_write
  <2>3. CASE /\ Left(p) > 0 /\ WriteBytes(p)
             /\ write_pos' = Advanced(write_pos, size' - size)
    <3>1. Left(p) \in Int
      BY <1>3 DEF Procs
    <3>2. PICK n \in 0..(SizeMax - size) : size' = size + n
      BY <1>1, <2>3, <3>1 DEF WriteBytes, Writable, Free
    <3>3. write_pos' = Advanced(write_pos, n)
      BY <1>1, <2>3, <3>2
    <3>. QED BY <1>5, <3>2, <3>3, AdvanceWrite DEF Fifo_write
  <2>. QED BY <1>5, <2>1, <2>2, <2>3 DEF Fifo_write, Ipc_write, Answer, Ipc_lock_writer, Crash
<1>6. ASSUME NEW p \in Workers, Fifo_mk(p)
      PROVE  BytesOK'
  <2>1. (0 + 0) % SizeMax = 0
    BY <1>1, BackIntoBuffer
  <2>. QED BY <1>1, <1>6, <2>1 DEF Fifo_mk, BytesOK, PositionsAgree
<1>7. ASSUME NEW p \in Workers, Resource_open(p)
      PROVE  BytesOK'
  BY <1>2, <1>7 DEF Resource_open, OpenFails, OpenReader, OpenWriter, Opened, Crash
<1>8. ASSUME NEW p \in Workers,
             EnterOpen(p) \/ EnterTransfer(p) \/ Resource_close(p) \/ Resource_unlink(p)
      PROVE  BytesOK'
  BY <1>2, <1>8 DEF EnterOpen, EnterTransfer, Resource_close, Resource_unlink
<1>9. CASE FifoSchedule
  BY <1>2, <1>9 DEF FifoSchedule, internal_schedule
<1>. QED BY <1>4, <1>5, <1>6, <1>7, <1>8, <1>9 DEF FifoNext, FifoSyscall

-----------------------------------------------------------------------------
(* Nobody waits in open for somebody who is there.                         *)

\* Whoever opens wakes all who wait for it, and waits only for who is not there.
LEMMA OpenersStep ==
  ASSUME FifoIInv, FifoNext
  PROVE  OpenersOK'
<1>. USE DEF FifoIInv
<1>1. ASSUME UNCHANGED <<readers_number, writers_number,
                         waiting_list_open_reader, waiting_list_open_writer>>
      PROVE  OpenersOK'
  BY <1>1 DEF OpenersOK, OpenersMeet, OpenersReleased
<1>2. /\ waiting_list_open_reader \in Seq(Procs) /\ waiting_list_open_writer \in Seq(Procs)
      /\ Len(waiting_list_open_reader) \in Nat /\ Len(waiting_list_open_writer) \in Nat
      /\ waiting_list_open_reader = <<>> <=> Len(waiting_list_open_reader) = 0
      /\ waiting_list_open_writer = <<>> <=> Len(waiting_list_open_writer) = 0
  BY LenProperties, EmptySeq DEF Core, QueuesOK
<1>3. /\ readers_number \in Int /\ writers_number \in Int
      /\ waiting_list_open_reader = <<>> \/ waiting_list_open_writer = <<>>
      /\ waiting_list_open_reader # <<>> => writers_number <= 0
      /\ waiting_list_open_writer # <<>> => readers_number <= 0
  BY DEF OpenersOK, OpenersMeet, OpenersReleased
<1>4. ASSUME NEW p, OpenReader(p)
      PROVE  OpenersOK'
  <2>1. CASE /\ Opened(p, waiting_list_open_writer)
             /\ waiting_list_open_writer' = StillOpening(waiting_list_open_writer)
             /\ writers_number' = writers_number + Len(Met(waiting_list_open_writer))
             /\ readers_number' = readers_number + Own(p)
             /\ UNCHANGED waiting_list_open_reader
    <3>1. /\ waiting_list_open_writer' = <<>>
          /\ writers_number' = writers_number + Len(waiting_list_open_writer)
          /\ readers_number' \in Int
      BY <1>2, <1>3, <2>1, MetAll DEF Own
    <3>. QED BY <1>2, <1>3, <2>1, <3>1 DEF OpenersOK, OpenersMeet, OpenersReleased
  <2>2. CASE /\ ~WriterThere(p)
             /\ UNCHANGED <<readers_number, writers_number, waiting_list_open_writer>>
    BY <1>3, <2>2 DEF WriterThere, OpenersOK, OpenersMeet, OpenersReleased
  <2>3. CASE UNCHANGED openers
    BY <1>1, <2>3 DEF openers
  <2>. QED BY <1>4, <2>1, <2>2, <2>3 DEF OpenReader
<1>5. ASSUME NEW p, OpenWriter(p)
      PROVE  OpenersOK'
  <2>1. CASE /\ ReaderThere
             /\ Opened(p, waiting_list_open_reader)
             /\ waiting_list_open_reader' = StillOpening(waiting_list_open_reader)
             /\ readers_number' = readers_number + Len(Met(waiting_list_open_reader))
             /\ writers_number' = writers_number + Own(p)
             /\ UNCHANGED waiting_list_open_writer
    <3>1. /\ waiting_list_open_reader' = <<>>
          /\ readers_number' = readers_number + Len(waiting_list_open_reader)
          /\ writers_number' \in Int
      BY <1>2, <1>3, <2>1, MetAll DEF Own
    <3>2. waiting_list_open_writer = <<>>
      BY <1>3, <2>1 DEF ReaderThere
    <3>. QED BY <1>2, <1>3, <2>1, <3>1, <3>2 DEF OpenersOK, OpenersMeet, OpenersReleased
  <2>2. CASE /\ ~ReaderThere
             /\ UNCHANGED <<readers_number, writers_number, waiting_list_open_reader>>
    BY <1>3, <2>2 DEF ReaderThere, OpenersOK, OpenersMeet, OpenersReleased
  <2>3. CASE UNCHANGED openers
    BY <1>1, <2>3 DEF openers
  <2>. QED BY <1>5, <2>1, <2>2, <2>3 DEF OpenWriter
<1>6. ASSUME NEW p \in Workers, Resource_open(p)
      PROVE  OpenersOK'
  BY <1>1, <1>4, <1>5, <1>6 DEF Resource_open, OpenFails, openers
<1>7. ASSUME NEW p \in Workers, Resource_close(p)
      PROVE  OpenersOK'
  <2>1. /\ UNCHANGED <<waiting_list_open_reader, waiting_list_open_writer>>
        /\ \/ readers_number' = readers_number - 1 /\ writers_number' = writers_number
           \/ writers_number' = writers_number - 1 /\ readers_number' = readers_number
    BY <1>7 DEF Resource_close, CloseReader, CloseWriter
  <2>. QED BY <1>3, <2>1 DEF OpenersOK, OpenersMeet, OpenersReleased
<1>8. ASSUME NEW p \in Workers, Fifo_mk(p)
      PROVE  OpenersOK'
  BY <1>8 DEF Fifo_mk, OpenersOK, OpenersMeet, OpenersReleased
<1>9. ASSUME NEW p \in Workers, \/ EnterOpen(p) \/ EnterTransfer(p) \/ Resource_unlink(p)
                                \/ Fifo_read(p) \/ Fifo_write(p)
      PROVE  OpenersOK'
  BY <1>1, <1>9 DEF EnterOpen, EnterTransfer, Resource_unlink, Fifo_read, Fifo_write, openers
<1>10. CASE FifoSchedule
  BY <1>1, <1>10 DEF FifoSchedule, openers
<1>. QED BY <1>6, <1>7, <1>8, <1>9, <1>10 DEF FifoNext, FifoSyscall

-----------------------------------------------------------------------------
(* Descriptors and the fifo that they keep alive.                          *)

\* A call that runs stays the call it is or ends; the other calls stay as they are.
LEMMA OpsKept ==
  ASSUME Core, size \in 0..SizeMax, running \in Workers, FifoSyscall(running), NEW q \in Procs
  PROVE  /\ call'[q].op = "none" \/ call'[q].op = call[q].op
         /\ q # running => call'[q] = call[q]
<1>1. call \in [Procs -> FifoCalls] /\ running \in Procs
  BY RunnerAwake DEF Core, CallsOK
<1>2. ASSUME NEW c \in FifoCalls, c.op \in {"none", call[running].op},
             call' = [call EXCEPT ![running] = c]
      PROVE  /\ call'[q].op = "none" \/ call'[q].op = call[q].op
             /\ q # running => call'[q] = call[q]
  BY <1>1, <1>2
<1>3. CASE Return(running)
  BY <1>2, <1>3, IdleCall DEF Return
<1>4. CASE call' = call
  BY <1>4
<1>5. CASE /\ call[running].op = "write" /\ Left(running) > 0
           /\ Written(running, Writable(running))
  <2>1. PICK n \in Nat : n = Writable(running) /\ n <= Left(running)
    <3>1. Left(running) \in Int /\ Free \in Nat
      BY <1>1, SizeAssumption DEF FifoCalls, Left, Free
    <3>. QED BY <1>5, <3>1 DEF Writable
  <2>2. PICK c \in FifoCalls :
          /\ c.op = "none" \/ c.op = call[running].op
          /\ call' = [call EXCEPT ![running] = c]
    BY <1>5, <2>1, WrittenCall
  <2>. QED BY <1>2, <2>2
<1>6. CASE Resource_open(running)
  BY <1>3, <1>4, <1>6 DEF Resource_open, OpenFails, OpenReader, OpenWriter, Opened, Crash
<1>7. CASE Fifo_read(running)
  BY <1>3, <1>4, <1>7 DEF Fifo_read, Ipc_read, Answer, Ipc_lock_reader, Crash, ReadBytes
<1>8. CASE Fifo_write(running)
  BY <1>3, <1>4, <1>5, <1>8 DEF Fifo_write, Ipc_write, Answer, Ipc_lock_writer, Crash, WriteBytes
<1>. QED BY <1>6, <1>7, <1>8 DEF FifoSyscall

\* A step that leaves the descriptors and the fifo alone.
LEMMA DescriptorsKept ==
  ASSUME DescriptorsOK, UNCHANGED <<fifo, descriptors>>,
         \A q \in Procs :
           /\ call'[q].op = "read" => call[q].op = "read" \/ \E d \in Open("RDONLY") : d.pcb = q
           /\ call'[q].op = "write" => call[q].op = "write" \/ \E d \in Open("WRONLY") : d.pcb = q,
         fifo = "absent" => Waiters' = {}
  PROVE  DescriptorsOK'
<1>1. Open("RDONLY")' = Open("RDONLY") /\ Open("WRONLY")' = Open("WRONLY")
  BY DEF Open
<1>2. \A q \in Procs :
        /\ call'[q].op = "read" => \E d \in Open("RDONLY")' : d.pcb = q
        /\ call'[q].op = "write" => \E d \in Open("WRONLY")' : d.pcb = q
  BY <1>1 DEF DescriptorsOK
<1>3. FreedUnused'
  BY DEF DescriptorsOK, FreedUnused
<1>. QED BY <1>2, <1>3 DEF DescriptorsOK

\* The descriptor that a successful open makes.
LEMMA DescriptorMade ==
  ASSUME DescriptorsOK, NEW p \in Workers, FreeFds(p) # {},
         call[p].op \in {"RDONLY", "WRONLY"}, call[p].nonblock \in BOOLEAN, Descriptor_mk(p)
  PROVE  \E e \in [pcb: Workers, fd: 1..MaxFds, mode: {"RDONLY", "WRONLY"}, nonblock: BOOLEAN] :
           /\ e.pcb = p /\ e.mode = call[p].op
           /\ \A d \in descriptors : ~(d.pcb = p /\ d.fd = e.fd)
           /\ e \notin descriptors
           /\ descriptors' = descriptors \cup {e}
<1>. DEFINE f == CHOOSE fd \in FreeFds(p) : TRUE
<1>1. f \in FreeFds(p)
  OBVIOUS
<1>. DEFINE e == [pcb |-> p, fd |-> f, mode |-> call[p].op, nonblock |-> call[p].nonblock]
<1>2. descriptors' = descriptors \cup {e}
  BY DEF Descriptor_mk
<1>. HIDE DEF f
<1>3. /\ f \in 1..MaxFds
      /\ \A d \in descriptors : ~(d.pcb = p /\ d.fd = f)
  BY <1>1 DEF FreeFds
<1>4. e.pcb = p /\ e.mode = call[p].op /\ e.fd = f
  OBVIOUS
<1>5. e \in [pcb: Workers, fd: 1..MaxFds, mode: {"RDONLY", "WRONLY"}, nonblock: BOOLEAN]
  BY <1>3
<1>6. e \notin descriptors
  BY <1>3, <1>4
<1>. QED BY <1>2, <1>3, <1>4, <1>5, <1>6

\* A successful open.
LEMMA OpenedDescriptors ==
  ASSUME Core, DescriptorsOK, running \in Workers, FreeFds(running) # {}, fifo = "linked",
         call[running].op \in {"RDONLY", "WRONLY"}, Descriptor_mk(running), fifo' = fifo,
         call' = [call EXCEPT ![running] = Idle]
  PROVE  DescriptorsOK'
<1>1. call \in [Procs -> FifoCalls] /\ running \in Procs
  BY RunnerAwake DEF Core, CallsOK
<1>2. call[running].nonblock \in BOOLEAN
  BY <1>1 DEF FifoCalls
<1>3. PICK e \in [pcb: Workers, fd: 1..MaxFds, mode: {"RDONLY", "WRONLY"}, nonblock: BOOLEAN] :
           /\ e.pcb = running
           /\ \A d \in descriptors : ~(d.pcb = running /\ d.fd = e.fd)
           /\ descriptors' = descriptors \cup {e}
  BY <1>2, DescriptorMade
<1>4. descriptors' \subseteq
        [pcb: Workers, fd: 1..MaxFds, mode: {"RDONLY", "WRONLY"}, nonblock: BOOLEAN]
  BY <1>3 DEF DescriptorsOK
<1>5. \A d1, d2 \in descriptors' : d1.pcb = d2.pcb /\ d1.fd = d2.fd => d1 = d2
  BY <1>3 DEF DescriptorsOK
<1>6. /\ \A d \in Open("RDONLY") : d \in Open("RDONLY")'
      /\ \A d \in Open("WRONLY") : d \in Open("WRONLY")'
  BY <1>3 DEF Open
<1>7. \A q \in Procs :
        /\ call'[q].op = "read" => \E d \in Open("RDONLY")' : d.pcb = q
        /\ call'[q].op = "write" => \E d \in Open("WRONLY")' : d.pcb = q
  BY <1>1, <1>6, IdleCall DEF DescriptorsOK
<1>. QED BY <1>4, <1>5, <1>7 DEF DescriptorsOK, FreedUnused

\* The close of a descriptor, of which the last frees an unlinked fifo.
LEMMA ClosedDescriptors ==
  ASSUME Core, DescriptorsOK, running \in Workers, Resource_close(running)
  PROVE  DescriptorsOK'
<1>1. PICK d \in descriptors : d.pcb = running /\ descriptors' = descriptors \ {d}
  BY DEF Resource_close
<1>2. call' = call /\ call[running].op = "none"
  BY IdleCall DEF Resource_close, Issues
<1>3. \A q \in Procs :
        /\ call'[q].op = "read" => \E e \in Open("RDONLY")' : e.pcb = q
        /\ call'[q].op = "write" => \E e \in Open("WRONLY")' : e.pcb = q
  <2>1. \A e : e \in descriptors /\ e.pcb # running => e \in descriptors'
    BY <1>1
  <2>. QED BY <1>2, <2>1 DEF Open, DescriptorsOK
<1>4. /\ fifo' \in {"absent", "linked", "unlinked"}
      /\ fifo' = "absent" => descriptors' = {} /\ Waiters' = {}
  <2>1. fifo # "absent"
    BY <1>1 DEF DescriptorsOK, FreedUnused
  <2>. QED BY <2>1 DEF Resource_close, Resource_destroy, DescriptorsOK
<1>. QED BY <1>1, <1>3, <1>4 DEF DescriptorsOK, FreedUnused

\* Every step keeps the descriptors right and frees only an unused fifo.
LEMMA DescriptorsStep ==
  ASSUME FifoIInv, FifoNext
  PROVE  DescriptorsOK'
<1>. USE DEF FifoIInv
<1>1. call \in [Procs -> FifoCalls] /\ running \in Procs
  BY RunnerAwake DEF Core, CallsOK
<1>2. CASE FifoSchedule
  <2>1. /\ UNCHANGED <<fifo, descriptors, call>>
        /\ Waiters' = Waiters
    BY <1>2 DEF FifoSchedule, internal_schedule, openers, Waiters, Blocked
  <2>. QED BY <2>1, DescriptorsKept DEF DescriptorsOK, FreedUnused
<1>3. ASSUME NEW p \in Workers, EnterOpen(p)
      PROVE  DescriptorsOK'
  <2>1. /\ UNCHANGED <<fifo, descriptors>>
        /\ Waiters' = Waiters
    BY <1>3 DEF EnterOpen, openers, Waiters, Blocked
  <2>2. PICK mode \in OpenModes, nb \in NonBlock :
          call' = [call EXCEPT ![p] = [op |-> mode, count |-> 0, done |-> 0, nonblock |-> nb]]
    BY <1>3 DEF EnterOpen
  <2>3. \A q \in Procs :
          /\ call'[q].op = "read" => call[q].op = "read"
          /\ call'[q].op = "write" => call[q].op = "write"
    BY <1>1, <2>2, FifoAssumption
  <2>. QED BY <2>1, <2>3, DescriptorsKept DEF DescriptorsOK, FreedUnused
<1>4. ASSUME NEW p \in Workers, EnterTransfer(p)
      PROVE  DescriptorsOK'
  <2>1. /\ UNCHANGED <<fifo, descriptors>>
        /\ Waiters' = Waiters
    BY <1>4 DEF EnterTransfer, openers, Waiters, Blocked
  <2>2. PICK d \in descriptors, n \in Counts :
          /\ d.pcb = p
          /\ call' = [call EXCEPT ![p] =
                        [op |-> IF d.mode = "RDONLY" THEN "read" ELSE "write",
                         count |-> n, done |-> 0, nonblock |-> d.nonblock]]
    BY <1>4 DEF EnterTransfer
  <2>3. d.mode \in {"RDONLY", "WRONLY"}
    BY DEF DescriptorsOK
  <2>4. \A q \in Procs :
          /\ call'[q].op = "read" => call[q].op = "read" \/ \E e \in Open("RDONLY") : e.pcb = q
          /\ call'[q].op = "write" => call[q].op = "write" \/ \E e \in Open("WRONLY") : e.pcb = q
    BY <1>1, <2>2, <2>3 DEF Open
  <2>. QED BY <2>1, <2>4, DescriptorsKept DEF DescriptorsOK, FreedUnused
<1>5. ASSUME NEW p \in Workers, FifoSyscall(p)
      PROVE  DescriptorsOK'
  <2>1. running = p
    BY <1>5 DEF FifoSyscall
  <2>2. \A q \in Procs :
          /\ call'[q].op = "read" => call[q].op = "read"
          /\ call'[q].op = "write" => call[q].op = "write"
    BY <1>5, <2>1, OpsKept DEF BytesOK
  <2>3. CASE /\ UNCHANGED <<fifo, descriptors>>
             /\ fifo = "absent" => Waiters' = Waiters
    BY <2>2, <2>3, DescriptorsKept DEF DescriptorsOK, FreedUnused
  <2>4. CASE Fifo_read(p) \/ Fifo_write(p)
    <3>1. UNCHANGED <<fifo, descriptors>>
      BY <2>4 DEF Fifo_read, Fifo_write
    <3>2. fifo # "absent"
      <4>1. descriptors # {}
        BY <1>1, <2>1, <2>4 DEF Fifo_read, Fifo_write, DescriptorsOK, Open
      <4>. QED BY <4>1 DEF DescriptorsOK, FreedUnused
    <3>. QED BY <2>3, <3>1, <3>2
  <2>5. CASE OpenFails(p)
    <3>1. Waiters' = Waiters
      BY <2>5 DEF OpenFails, openers, Waiters, Blocked
    <3>. QED BY <2>3, <2>5, <3>1 DEF OpenFails
  <2>6. CASE fifo = "linked" /\ FreeFds(p) # {} /\ OpenReader(p)
    <3>1. CASE UNCHANGED <<fifo, descriptors>>
      BY <2>3, <2>6, <3>1
    <3>2. CASE Opened(p, waiting_list_open_writer)
      BY <2>1, <2>6, <3>2, OpenedDescriptors DEF OpenReader, Opened, Return
    <3>. QED BY <2>6, <3>1, <3>2 DEF OpenReader
  <2>7. CASE fifo = "linked" /\ FreeFds(p) # {} /\ OpenWriter(p)
    <3>1. CASE UNCHANGED <<fifo, descriptors>>
      BY <2>3, <2>7, <3>1
    <3>2. CASE Opened(p, waiting_list_open_reader)
      BY <2>1, <2>7, <3>2, OpenedDescriptors DEF OpenWriter, Opened, Return
    <3>. QED BY <2>7, <3>1, <3>2 DEF OpenWriter
  <2>. QED BY <1>5, <2>4, <2>5, <2>6, <2>7 DEF FifoSyscall, Resource_open
<1>6. ASSUME NEW p \in Workers, Resource_close(p)
      PROVE  DescriptorsOK'
  <2>1. running = p
    BY <1>6 DEF Resource_close, Issues
  <2>. QED BY <1>6, <2>1, ClosedDescriptors
<1>7. ASSUME NEW p \in Workers, Resource_unlink(p)
      PROVE  DescriptorsOK'
  <2>1. UNCHANGED <<descriptors, call>>
    BY <1>7 DEF Resource_unlink
  <2>2. /\ fifo' \in {"absent", "unlinked"}
        /\ fifo' = "absent" => descriptors' = {} /\ Waiters' = {}
    BY <1>7, <2>1 DEF Resource_unlink, Resource_destroy
  <2>. QED BY <2>1, <2>2 DEF DescriptorsOK, FreedUnused, Open
<1>8. ASSUME NEW p \in Workers, Fifo_mk(p)
      PROVE  DescriptorsOK'
  <2>1. UNCHANGED <<descriptors, call>> /\ fifo' = "linked"
    BY <1>8 DEF Fifo_mk
  <2>. QED BY <2>1 DEF DescriptorsOK, FreedUnused, Open
<1>. QED BY <1>2, <1>3, <1>4, <1>5, <1>6, <1>7, <1>8 DEF FifoNext
-----------------------------------------------------------------------------
(* The initial states.                                                     *)

\* What the calls and the queues are while nobody is in a call.
LEMMA QuietCore ==
  ASSUME Init, waiting_list_open_reader = <<>>, waiting_list_open_writer = <<>>
  PROVE  /\ Core /\ panic \in BOOLEAN /\ size = 0
         /\ Waiters = {}
         /\ \A p \in Procs : call[p] = Idle
<1>1. IInv
  BY InitIInv
<1>2. SchedOK
  BY <1>1 DEF IInv, TypeOK, PlacedByStatus, SchedOK
<1>3. <<>> \in Seq(Procs) /\ IsInjective(<<>>) /\ Range(<<>>) = {}
  BY DEF Range, IsInjective
<1>4. waiting_list_read = <<>> /\ waiting_list_write = <<>> /\ size = 0 /\ panic = FALSE
  BY DEF Init
<1>5. Waiters = {}
  BY <1>3, <1>4 DEF Waiters, Blocked
<1>6. Asleep = {}
  BY DEF Init, Asleep
<1>7. QueuesOK
  BY <1>3, <1>4, <1>5, <1>6 DEF QueuesOK
<1>8. call = [p \in Procs |-> Idle]
  BY DEF Init
<1>9. CallsOK
  BY <1>1, <1>3, <1>8, IdleCall DEF IInv, CallsOK
<1>. QED BY <1>2, <1>4, <1>5, <1>7, <1>8, <1>9 DEF Core

\* The positions of an empty buffer.
LEMMA EmptyBytes ==
  ASSUME size = 0, read_pos = 0, write_pos = 0
  PROVE  BytesOK
<1>1. SizeMax \in Nat /\ SizeMax > 0
  BY SizeAssumption, FifoAssumption
<1>2. (0 + 0) % SizeMax = 0
  BY <1>1, BackIntoBuffer
<1>. QED BY <1>1, <1>2 DEF BytesOK, PositionsAgree

\* Before anything is made.
LEMMA InitFifoIInv == FifoInit => FifoIInv
<1>. SUFFICES ASSUME FifoInit PROVE FifoIInv
  OBVIOUS
<1>1. /\ Core /\ panic \in BOOLEAN /\ size = 0 /\ Waiters = {}
      /\ \A p \in Procs : call[p] = Idle
  BY QuietCore DEF FifoInit
<1>2. BytesOK
  BY <1>1, EmptyBytes DEF FifoInit
<1>3. OpenersOK
  BY DEF FifoInit, OpenersOK, OpenersMeet, OpenersReleased
<1>4. DescriptorsOK
  BY <1>1, IdleCall DEF FifoInit, DescriptorsOK, FreedUnused
<1>. QED BY <1>1, <1>2, <1>3, <1>4 DEF FifoIInv, FifoInit

\* There are finitely many descriptors: each has a place in the table of its process.
LEMMA DescriptorsFinite ==
  ASSUME NEW D, D \subseteq [pcb: Workers, fd: 1..MaxFds,
                             mode: {"RDONLY", "WRONLY"}, nonblock: BOOLEAN],
         \A d, e \in D : d.pcb = e.pcb /\ d.fd = e.fd => d = e,
         NEW T, T \subseteq Workers \X (1..MaxFds),
         \A d \in D : <<d.pcb, d.fd>> \in T
  PROVE  /\ IsFiniteSet(D) /\ Cardinality(D) \in Nat
         /\ Cardinality(D) <= Cardinality(T)
         /\ IsFiniteSet(Workers \X (1..MaxFds))
         /\ Cardinality(Workers \X (1..MaxFds)) = Cardinality(Workers) * MaxFds
         /\ Cardinality(Workers) \in Nat
<1>1. IsFiniteSet(Workers) /\ Cardinality(Workers) \in Nat
  BY ProcsAssumption, FS_Subset, FS_CardinalityType DEF Procs
<1>2. IsFiniteSet(1..MaxFds) /\ Cardinality(1..MaxFds) = MaxFds
  <2>1. MaxFds \in Nat
    BY FifoAssumption
  <2>2. /\ IsFiniteSet(1..MaxFds)
        /\ Cardinality(1..MaxFds) = IF 1 > MaxFds THEN 0 ELSE MaxFds - 1 + 1
    BY <2>1, FS_Interval
  <2>. QED BY <2>1, <2>2
<1>3. /\ IsFiniteSet(Workers \X (1..MaxFds))
      /\ Cardinality(Workers \X (1..MaxFds)) = Cardinality(Workers) * MaxFds
  BY <1>1, <1>2, FS_Product
<1>4. IsFiniteSet(T)
  BY <1>3, FS_Subset
<1>. DEFINE place == [d \in D |-> <<d.pcb, d.fd>>]
<1>5. place \in [D -> T]
  OBVIOUS
<1>6. \A d, e \in D : place[d] = place[e] => d = e
  OBVIOUS
<1>7. place \in Injection(D, T)
  BY <1>5, <1>6 DEF Injection, IsInjective
<1>8. IsFiniteSet(D) /\ Cardinality(D) <= Cardinality(T)
  <2>. HIDE DEF place
  <2>. QED BY <1>4, <1>7, FS_Injection
<1>. QED BY <1>1, <1>3, <1>8, FS_CardinalityType

\* A pipe and its descriptors: every process has two of them at most.
LEMMA InitPipeIInv == ASSUME MaxFds >= 2 PROVE PipeInit => FifoIInv
<1>. SUFFICES ASSUME PipeInit PROVE FifoIInv
  OBVIOUS
<1>1. /\ Core /\ panic \in BOOLEAN /\ size = 0 /\ Waiters = {}
      /\ \A p \in Procs : call[p] = Idle
  BY QuietCore DEF PipeInit
<1>2. BytesOK
  BY <1>1, EmptyBytes DEF PipeInit
<1>3. /\ descriptors \subseteq
           [pcb: Workers, fd: 1..MaxFds, mode: {"RDONLY", "WRONLY"}, nonblock: BOOLEAN]
      /\ \A d, e \in descriptors : d.pcb = e.pcb /\ d.fd = e.fd => d = e
  <2>1. 1 \in 1..MaxFds /\ 2 \in 1..MaxFds
    BY FifoAssumption
  <2>2. ASSUME NEW d \in descriptors
        PROVE  /\ d \in [pcb: Workers, fd: {1, 2}, mode: {"RDONLY", "WRONLY"}, nonblock: {FALSE}]
               /\ d.mode = IF d.fd = 1 THEN "RDONLY" ELSE "WRONLY"
    <3>1. PICK p \in Workers : d \in PipeEnds(p)
      BY DEF PipeInit
    <3>2. CASE d \in [pcb: {p}, fd: {1}, mode: {"RDONLY"}, nonblock: {FALSE}]
      BY <3>2
    <3>3. CASE d \in [pcb: {p}, fd: {2}, mode: {"WRONLY"}, nonblock: {FALSE}]
      <4>1. /\ d.pcb = p /\ d.fd = 2 /\ d.mode = "WRONLY" /\ d.nonblock = FALSE
            /\ d = [pcb |-> d.pcb, fd |-> d.fd, mode |-> d.mode, nonblock |-> d.nonblock]
        BY <3>3
      <4>2. 2 \in {1, 2} /\ 2 # 1
        OBVIOUS
      <4>. QED BY <4>1, <4>2
    <3>. QED BY <3>1, <3>2, <3>3 DEF PipeEnds
  <2>3. \A d \in descriptors :
          d \in [pcb: Workers, fd: 1..MaxFds, mode: {"RDONLY", "WRONLY"}, nonblock: BOOLEAN]
    BY <2>1, <2>2
  <2>4. ASSUME NEW d \in descriptors, NEW e \in descriptors, d.pcb = e.pcb, d.fd = e.fd
        PROVE  d = e
    <3>1. d.mode = e.mode /\ d.nonblock = e.nonblock
      BY <2>2, <2>4
    <3>. QED BY <2>3, <2>4, <3>1
  <2>. QED BY <2>3, <2>4
<1>4. readers_number \in Int /\ writers_number \in Int
  <2>1. IsFiniteSet(descriptors)
    BY <1>3, DescriptorsFinite
  <2>2. /\ Cardinality(Open("RDONLY")) \in Nat /\ Cardinality(Open("WRONLY")) \in Nat
    BY <2>1, FS_Subset, FS_CardinalityType DEF Open
  <2>. QED BY <2>2 DEF PipeInit
<1>5. OpenersOK
  BY <1>4 DEF PipeInit, OpenersOK, OpenersMeet, OpenersReleased
<1>6. DescriptorsOK
  BY <1>1, <1>3, IdleCall DEF PipeInit, DescriptorsOK, FreedUnused
<1>. QED BY <1>1, <1>2, <1>5, <1>6 DEF FifoIInv, PipeInit

-----------------------------------------------------------------------------
(* The theorems.                                                           *)

\* Every step of the kernel preserves the invariant, under any specification that
\* starts in it.
LEMMA FifoIInvStep == FifoIInv /\ [FifoNext]_fifoVars => FifoIInv'
<1>. SUFFICES ASSUME FifoIInv, [FifoNext]_fifoVars PROVE FifoIInv'
  OBVIOUS
<1>1. CASE FifoNext
  <2>1. panic' \in BOOLEAN
    <3>1. CASE panic' = panic \/ panic' = TRUE
      BY <3>1 DEF FifoIInv
    <3>2. CASE \E linkage : Resource_destroy(linkage)
      BY <3>2 DEF Resource_destroy
    <3>3. ASSUME NEW p \in Workers, Resource_open(p)
          PROVE  panic' = panic \/ panic' = TRUE
      BY <3>3 DEF Resource_open, OpenFails, OpenReader, OpenWriter, Opened, Crash
    <3>4. ASSUME NEW p \in Workers, Fifo_read(p)
          PROVE  panic' = panic \/ panic' = TRUE
      BY <3>4 DEF Fifo_read, Ipc_read, Answer, Ipc_lock_reader, Crash, ReadBytes
    <3>5. ASSUME NEW p \in Workers, Fifo_write(p)
          PROVE  panic' = panic \/ panic' = TRUE
      BY <3>5 DEF Fifo_write, Ipc_write, Answer, Ipc_lock_writer, Crash, WriteBytes
    <3>6. ASSUME NEW p \in Workers, Resource_close(p) \/ Resource_unlink(p)
          PROVE  \E linkage : Resource_destroy(linkage)
      BY <3>6 DEF Resource_close, Resource_unlink
    <3>7. ASSUME NEW p \in Workers, EnterOpen(p) \/ EnterTransfer(p) \/ Fifo_mk(p)
          PROVE  panic' = panic
      BY <3>7 DEF EnterOpen, EnterTransfer, Fifo_mk
    <3>8. CASE FifoSchedule
      BY <3>1, <3>8 DEF FifoSchedule, internal_schedule
    <3>. QED BY <1>1, <3>1, <3>2, <3>3, <3>4, <3>5, <3>6, <3>7, <3>8 DEF FifoNext, FifoSyscall
  <2>2. syscall_intermediate_data' \subseteq Procs
    <3>1. CASE UNCHANGED openers
      BY <3>1 DEF openers, FifoIInv
    <3>2. CASE UNCHANGED syscall_intermediate_data
      BY <3>2 DEF FifoIInv
    <3>3. ASSUME NEW p \in Workers,
                 \/ Opened(p, waiting_list_open_reader)
                 \/ Opened(p, waiting_list_open_writer)
          PROVE  syscall_intermediate_data' \subseteq Procs
      <4>1. /\ Met(waiting_list_open_reader) = waiting_list_open_reader
            /\ Met(waiting_list_open_writer) = waiting_list_open_writer
        BY DEF Met
      <4>2. Range(waiting_list_open_reader) \cup Range(waiting_list_open_writer) \subseteq Procs
        BY RunnerAwake DEF FifoIInv, Waiters
      <4>. QED BY <3>3, <4>1, <4>2 DEF Opened, Marked, FifoIInv
    <3>4. ASSUME NEW p \in Workers, Resource_open(p)
          PROVE  syscall_intermediate_data' \subseteq Procs
      BY <3>1, <3>2, <3>3, <3>4 DEF Resource_open, OpenFails, OpenReader, OpenWriter
    <3>5. ASSUME NEW p \in Workers, \/ Fifo_read(p) \/ Fifo_write(p) \/ EnterOpen(p)
                                    \/ EnterTransfer(p) \/ Resource_unlink(p)
          PROVE  UNCHANGED openers
      BY <3>5 DEF Fifo_read, Fifo_write, EnterOpen, EnterTransfer, Resource_unlink
    <3>6. ASSUME NEW p \in Workers, Resource_close(p) \/ Fifo_mk(p)
          PROVE  UNCHANGED syscall_intermediate_data
      BY <3>6 DEF Resource_close, Fifo_mk
    <3>7. CASE FifoSchedule
      BY <3>1, <3>7 DEF FifoSchedule
    <3>. QED BY <1>1, <3>1, <3>2, <3>4, <3>5, <3>6, <3>7 DEF FifoNext, FifoSyscall
  <2>. QED BY <1>1, <2>1, <2>2, CoreStep, BytesStep, OpenersStep, DescriptorsStep DEF FifoIInv
<1>2. CASE UNCHANGED fifoVars
  <2>1. UNCHANGED <<sched, call, size, waiting_list_read, waiting_list_write, panic, fifo,
                    descriptors, readers_number, writers_number, waiting_list_open_reader,
                    waiting_list_open_writer, syscall_intermediate_data, read_pos, write_pos>>
    BY <1>2 DEF fifoVars, vars, openers
  <2>2. Core'
    BY <2>1, StutterCore DEF FifoIInv
  <2>3. BytesOK' /\ OpenersOK'
    BY <2>1 DEF FifoIInv, BytesOK, PositionsAgree, OpenersOK, OpenersMeet, OpenersReleased
  <2>4. DescriptorsOK'
    BY <2>1 DEF FifoIInv, DescriptorsOK, FreedUnused, Waiters, Blocked, Open
  <2>. QED BY <2>1, <2>2, <2>3, <2>4 DEF FifoIInv
<1>. QED BY <1>1, <1>2

\* FifoIInv is an invariant of a named fifo, whoever opens, closes and unlinks it.
THEOREM FifoInvariant == FifoSpec => []FifoIInv
<1>. QED BY InitFifoIInv, FifoIInvStep, PTL DEF FifoSpec

\* It is one of a pipe as well.
THEOREM PipeInvariant ==
  ASSUME MaxFds >= 2
  PROVE  PipeInit /\ [][FifoNext]_fifoVars => []FifoIInv
<1>. QED BY InitPipeIInv, FifoIInvStep, PTL

\* Every variable keeps its type.
THEOREM FifoTypeCorrect == FifoSpec => []FifoTypeOK
<1>1. ASSUME FifoIInv PROVE FifoTypeOK
  <2>1. descriptors \subseteq
          [pcb: Procs, fd: 1..MaxFds, mode: {"RDONLY", "WRONLY"}, nonblock: BOOLEAN]
    BY <1>1 DEF FifoIInv, DescriptorsOK, Procs
  <2>. QED BY <1>1, <2>1 DEF FifoIInv, Core, SchedOK, QueuesOK, BytesOK, OpenersOK,
                            DescriptorsOK, FifoTypeOK
<1>. QED BY <1>1, FifoInvariant, PTL

\* Every process is on exactly one list, once: it runs, is ready, or waits on one of
\* the four waiting lists of the fifo.
THEOREM FifoOneList == FifoSpec => []FifoPlaced
<1>1. ASSUME FifoIInv PROVE FifoPlaced
  <2>. DEFINE lists == <<<<running>>, ready_list, waiting_list_read, waiting_list_write,
                         waiting_list_open_reader, waiting_list_open_writer>>
              state == <<"Running", "Ready", "Waiting", "Waiting", "Waiting", "Waiting">>
  <2>1. /\ DOMAIN lists = 1..6
        /\ lists[1] = <<running>> /\ lists[2] = ready_list
        /\ lists[3] = waiting_list_read /\ lists[4] = waiting_list_write
        /\ lists[5] = waiting_list_open_reader /\ lists[6] = waiting_list_open_writer
    OBVIOUS
  <2>2. /\ state[1] = "Running" /\ state[2] = "Ready"
        /\ \A i \in 3..6 : state[i] = "Waiting"
    OBVIOUS
  <2>3. IsInjective(<<running>>) /\ Range(<<running>>) = {running}
    BY DEF IsInjective, Range
  <2>4. \A i \in 1..6 : IsInjective(lists[i])
    BY <1>1, <2>1, <2>3 DEF FifoIInv, Core, SchedOK, QueuesOK
  <2>. SUFFICES ASSUME NEW p \in Procs
                PROVE  \E i \in DOMAIN lists :
                         /\ \E k \in DOMAIN lists[i] :
                              /\ lists[i][k] = p
                              /\ \A j \in DOMAIN lists : \A l \in DOMAIN lists[j] :
                                   lists[j][l] = p => j = i /\ l = k
                         /\ status[p] = state[i]
    BY DEF FifoPlaced
  <2>. HIDE DEF lists, state
  <2>5. ASSUME NEW i \in 1..6, p \in Range(lists[i]), status[p] = state[i],
               \A j \in 1..6 : j # i => p \notin Range(lists[j])
        PROVE  \E n \in DOMAIN lists :
                 /\ \E k \in DOMAIN lists[n] :
                      /\ lists[n][k] = p
                      /\ \A j \in DOMAIN lists : \A l \in DOMAIN lists[j] :
                           lists[j][l] = p => j = n /\ l = k
                 /\ status[p] = state[n]
    <3>1. PICK k \in DOMAIN lists[i] : lists[i][k] = p
      BY <2>5 DEF Range
    <3>2. ASSUME NEW j \in 1..6, NEW l \in DOMAIN lists[j], lists[j][l] = p
          PROVE  j = i /\ l = k
      <4>1. j = i
        BY <2>5, <3>2 DEF Range
      <4>. QED BY <2>4, <3>1, <3>2, <4>1 DEF IsInjective
    <3>. QED BY <2>1, <2>5, <3>1, <3>2
  <2>6. /\ status[p] \in {"Running", "Ready", "Waiting"}
        /\ status[p] = "Running" <=> p \in Range(lists[1])
        /\ status[p] = "Ready" <=> p \in Range(lists[2])
        /\ status[p] = "Waiting" <=> \E i \in 3..6 : p \in Range(lists[i])
    <3>1. status[p] = "Waiting" <=> p \in Waiters
      BY <1>1 DEF FifoIInv, Core, QueuesOK, Asleep
    <3>2. p \in Waiters <=> \E i \in 3..6 : p \in Range(lists[i])
      BY <2>1 DEF Waiters, Blocked
    <3>. QED BY <1>1, <2>1, <2>3, <3>1, <3>2 DEF FifoIInv, Core, SchedOK
  <2>7. \A i, j \in 3..6 : p \in Range(lists[i]) /\ p \in Range(lists[j]) => i = j
    <3>1. CallsOK
      BY <1>1 DEF FifoIInv, Core
    <3>2. /\ Range(lists[3]) \cap Range(lists[4]) = {}
          /\ Range(lists[3]) \cap Range(lists[5]) = {}
          /\ Range(lists[3]) \cap Range(lists[6]) = {}
          /\ Range(lists[4]) \cap Range(lists[5]) = {}
          /\ Range(lists[4]) \cap Range(lists[6]) = {}
          /\ Range(lists[5]) \cap Range(lists[6]) = {}
      BY <2>1, <3>1, QueuesApart
    <3>. QED BY <3>2
  <2>8. CASE status[p] = "Running"
    <3>1. \A j \in 1..6 : j # 1 => p \notin Range(lists[j])
      BY <2>6, <2>8
    <3>. QED BY <2>2, <2>5, <2>6, <2>8, <3>1
  <2>9. CASE status[p] = "Ready"
    <3>1. \A j \in 1..6 : j # 2 => p \notin Range(lists[j])
      BY <2>6, <2>9
    <3>. QED BY <2>2, <2>5, <2>6, <2>9, <3>1
  <2>10. CASE status[p] = "Waiting"
    <3>1. PICK i \in 3..6 : p \in Range(lists[i])
      BY <2>6, <2>10
    <3>2. \A j \in 1..6 : j # i => p \notin Range(lists[j])
      BY <2>6, <2>7, <2>10, <3>1
    <3>. QED BY <2>2, <2>5, <2>10, <3>1, <3>2
  <2>. QED BY <2>6, <2>8, <2>9, <2>10
<1>. QED BY <1>1, FifoInvariant, PTL

\* A reader and a writer never sleep in open at the same time.
THEOREM OpenersNeverWaitForEachOther == FifoSpec => []OpenersMeet
<1>1. FifoIInv => OpenersMeet
  BY DEF FifoIInv, OpenersOK
<1>. QED BY <1>1, FifoInvariant, PTL

\* Nobody sleeps in open while a process of the other side has the fifo open.
THEOREM OpenersAreReleased == FifoSpec => []OpenersReleased
<1>1. FifoIInv => OpenersReleased
  BY DEF FifoIInv, OpenersOK
<1>. QED BY <1>1, FifoInvariant, PTL

\* A fifo is freed only when nobody has a descriptor of it or waits on it.
THEOREM FreedOnlyUnused == FifoSpec => []FreedUnused
<1>1. FifoIInv => FreedUnused
  BY DEF FifoIInv, DescriptorsOK
<1>. QED BY <1>1, FifoInvariant, PTL

\* Reader and writer agree on where the bytes in the circular buffer are.
THEOREM PositionsStayRight == FifoSpec => []PositionsAgree
<1>1. FifoIInv => PositionsAgree
  BY DEF FifoIInv, BytesOK
<1>. QED BY <1>1, FifoInvariant, PTL
=============================================================================
