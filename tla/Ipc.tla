--------------------------------- MODULE Ipc ---------------------------------
(***************************************************************************)
(* The Ipc base class of disastrOS (disastrOS_ipc.c): one bounded byte     *)
(* channel shared by processes that read and write it through blocking or  *)
(* non-blocking descriptors, on the round-robin scheduler of the kernel.   *)
(*                                                                         *)
(* The kernel has one trap context and masks SIGALRM in it, so a system    *)
(* call runs to completion: it is one action.  A call that has to wait     *)
(* parks its process on a waiting list, returns DSOS_ERESTARTNOINTR, and   *)
(* the user-space wrapper (disastrOS_read, disastrOS_write) issues it      *)
(* again from the start once the process runs again.  The state of that    *)
(* wrapper is call[p].  Between two system calls the timer may switch to   *)
(* another process.                                                        *)
(***************************************************************************)
EXTENDS Integers, Sequences, FiniteSets, Functions

CONSTANTS
  Workers,      \* the processes that hold descriptors of the channel
  Sleepers,     \* processes that never block in the kernel (tester_aux_sleeper)
  SizeMax,      \* ipc->size_max
  Counts,       \* the byte counts processes ask for
  NonBlock      \* the values of DSOS_O_NONBLOCK on their descriptors

Procs == Workers \cup Sleepers

ASSUME ProcsAssumption == IsFiniteSet(Procs) /\ Workers \cap Sleepers = {}
ASSUME SizeAssumption == SizeMax \in Nat \* Ipc_mk accepts size_max = 0
ASSUME CountsAssumption == Counts \subseteq Nat /\ NonBlock \subseteq BOOLEAN

VARIABLES
  running,              \* the running PCB
  ready_list,           \* the PCBs waiting for the cpu, in order
  status,               \* pcb->status
  call,                 \* the user-space wrapper each process is in
  size,                 \* ipc->size: the bytes in the channel
  waiting_list_read,    \* readers waiting for data
  waiting_list_write,   \* writers waiting for space
  panic                 \* the kernel dereferenced an empty ready list

sched == <<running, ready_list, status>>
vars == <<sched, call, size, waiting_list_read, waiting_list_write, panic>>

(***************************************************************************)
(* A wrapper: what it asks for, how much of it a write loop has already    *)
(* transferred (`writted'), and the DSOS_O_NONBLOCK flag of the descriptor.*)
(***************************************************************************)
Calls == [op: {"none", "read", "write"}, count: Nat, done: Nat, nonblock: BOOLEAN]
Idle == [op |-> "none", count |-> 0, done |-> 0, nonblock |-> FALSE]

Left(p) == call[p].count - call[p].done
Free == SizeMax - size

-----------------------------------------------------------------------------
(* Scheduling.                                                             *)

\* The running process leaves the cpu to the head of the ready list.
SwitchFrom(p) ==
  /\ running' = Head(ready_list)
  /\ ready_list' = Tail(ready_list)
  /\ status' = [status EXCEPT ![p] = "Waiting", ![Head(ready_list)] = "Running"]

\* The timer, or disastrOS_preempt: the running process goes to the back of
\* the ready list and its head runs.  With an empty ready list nothing happens.
internal_schedule_Dropped ==
  /\ ~panic
  /\ ready_list # <<>>
  /\ running' = Head(ready_list)
  /\ ready_list' = Tail(ready_list)
  /\ status' = [status EXCEPT ![running] = "Ready", ![Head(ready_list)] = "Running"]
  /\ UNCHANGED <<call, size, waiting_list_read, waiting_list_write, panic>>

internal_schedule ==
  /\ ~panic
  /\ ready_list # <<>>
  /\ running' = Head(ready_list)
  /\ ready_list' = Append(Tail(ready_list), running)
  /\ status' = [status EXCEPT ![running] = "Ready", ![Head(ready_list)] = "Running"]
  /\ UNCHANGED <<call, size, waiting_list_read, waiting_list_write, panic>>

-----------------------------------------------------------------------------
(* The waiting lists.                                                      *)

\* Where List_insert puts a process that starts to wait: behind the last one.
Enqueued_Front(queue, p) == <<p>> \o queue
Enqueued(queue, p) == Append(queue, p)

\* With nobody ready List_detach is given a null item: the kernel dies there.
Crash ==
  /\ ready_list = <<>>
  /\ panic' = TRUE
  /\ UNCHANGED <<sched, call, size, waiting_list_read, waiting_list_write>>

Ipc_lock_reader(p) ==
  \/ /\ ready_list # <<>>
     /\ waiting_list_read' = Enqueued(waiting_list_read, p)
     /\ SwitchFrom(p)
     /\ UNCHANGED <<call, size, waiting_list_write, panic>>
  \/ Crash

Ipc_lock_writer(p) ==
  \/ /\ ready_list # <<>>
     /\ waiting_list_write' = Enqueued(waiting_list_write, p)
     /\ SwitchFrom(p)
     /\ UNCHANGED <<call, size, waiting_list_read, panic>>
  \/ Crash

\* Ipc_unlock_first_reader and _writer, called under a condition: whom they
\* detach from the list, what they leave there, and what they do with them.
Unlocked(queue, when) == IF when /\ queue # <<>> THEN <<Head(queue)>> ELSE <<>>

StillLocked_Undetached(queue, when) == queue
StillLocked(queue, when) == IF when /\ queue # <<>> THEN Tail(queue) ELSE queue

Awake(woken) ==
  /\ ready_list' = ready_list \o woken
  /\ status' = [q \in Procs |-> IF q \in Range(woken) THEN "Ready" ELSE status[q]]
  /\ UNCHANGED running

-----------------------------------------------------------------------------
(* The wrappers, in user space.  A process calls disastrOS_read or _write; *)
(* a result other than DSOS_ERESTARTNOINTR ends the call, except that a    *)
(* write goes on until all its bytes are written.                          *)

Enter(p) ==
  /\ ~panic
  /\ running = p
  /\ call[p] = Idle
  /\ \E op \in {"read", "write"}, n \in Counts, nb \in NonBlock :
       call' = [call EXCEPT ![p] = [op |-> op, count |-> n, done |-> 0, nonblock |-> nb]]
  /\ UNCHANGED <<sched, size, waiting_list_read, waiting_list_write, panic>>

\* The call ends: a read, nothing asked, an error, or DSOS_EAGAIN.
Return(p) == call' = [call EXCEPT ![p] = Idle]

\* n more bytes are written: the loop of disastrOS_write ends or goes on.
Written(p, n) ==
  IF n = Left(p) THEN Return(p) ELSE call' = [call EXCEPT ![p].done = @ + n]

-----------------------------------------------------------------------------
(* The system calls.                                                       *)

\* A count of 0 is answered at once, and so is a non-blocking call that
\* would have to wait.
Answer(p, wouldBlock) ==
  /\ Left(p) = 0 \/ (wouldBlock /\ call[p].nonblock)
  /\ Return(p)
  /\ UNCHANGED <<sched, size, waiting_list_read, waiting_list_write, panic>>

\* Ipc_read takes what there is, lets one writer go, and passes the wakeup on
\* to the next reader if data is left.
MoreData_OffByOne(left) == left > 1
MoreData(left) == left > 0

ReadBytes(p) ==
  LET n == IF size < Left(p) THEN size ELSE Left(p)
      more == MoreData(size - n)
  IN /\ size' = size - n
     /\ waiting_list_write' = StillLocked(waiting_list_write, TRUE)
     /\ waiting_list_read' = StillLocked(waiting_list_read, more)
     /\ Awake(Unlocked(waiting_list_write, TRUE) \o Unlocked(waiting_list_read, more))
     /\ Return(p)
     /\ UNCHANGED panic

Ipc_read_IgnoresFlag(p) ==
  /\ call[p].op = "read"
  /\ \/ Answer(p, FALSE)
     \/ Left(p) > 0 /\ size = 0 /\ Ipc_lock_reader(p)
     \/ Left(p) > 0 /\ size > 0 /\ ReadBytes(p)

Ipc_read(p) ==
  /\ call[p].op = "read"
  /\ \/ Answer(p, size = 0)
     \/ Left(p) > 0 /\ size = 0 /\ ~call[p].nonblock /\ Ipc_lock_reader(p)
     \/ Left(p) > 0 /\ size > 0 /\ ReadBytes(p)

\* A blocking write waits for any space, and for all the space it needs when
\* the whole of it could ever fit.
MustWait_OffByOne(p) == Free = 0 \/ (Left(p) <= SizeMax /\ Free <= Left(p))
MustWait_AnySpace(p) == Free = 0
MustWait(p) == Free = 0 \/ (Left(p) <= SizeMax /\ Free < Left(p))

\* How much Ipc_write puts into the channel.
Writable_Unbounded(p) == Left(p)
Writable(p) == IF Free >= Left(p) THEN Left(p) ELSE Free

\* Ipc_write lets one reader go, and the next writer if space is left.
WriteBytes(p) ==
  LET n == Writable(p)
      more == Free - n > 0
  IN /\ size' = size + n
     /\ waiting_list_read' = StillLocked(waiting_list_read, TRUE)
     /\ waiting_list_write' = StillLocked(waiting_list_write, more)
     /\ Awake(Unlocked(waiting_list_read, TRUE) \o Unlocked(waiting_list_write, more))
     /\ Written(p, n)
     /\ UNCHANGED panic

Ipc_write(p) ==
  /\ call[p].op = "write"
  /\ \/ Answer(p, Free = 0)
     \/ Left(p) > 0 /\ ~call[p].nonblock /\ MustWait(p) /\ Ipc_lock_writer(p)
     \/ /\ Left(p) > 0
        /\ IF call[p].nonblock THEN Free > 0 ELSE ~MustWait(p)
        /\ WriteBytes(p)

\* disastrOS_syscall and disastrOS_trap.
Syscall(p) == ~panic /\ running = p /\ (Ipc_read(p) \/ Ipc_write(p))

-----------------------------------------------------------------------------
\* The permutations of S: the orders in which the scheduler may have left it.
Orderings(S) == {s \in [1..Cardinality(S) -> S] : IsInjective(s) /\ Range(s) = S}

\* A fresh channel, on processes the scheduler has run for a while.
Init ==
  /\ running \in Procs
  /\ ready_list \in Orderings(Procs \ {running})
  /\ status = [p \in Procs |-> IF p = running THEN "Running" ELSE "Ready"]
  /\ call = [p \in Procs |-> Idle]
  /\ size = 0
  /\ waiting_list_read = <<>>
  /\ waiting_list_write = <<>>
  /\ panic = FALSE

Next == internal_schedule \/ \E p \in Workers : Enter(p) \/ Syscall(p)

Spec == Init /\ [][Next]_vars

\* The interval timer fires for ever, and its period (100 ms) is long enough
\* for a process that gets the cpu over and over to reach its system call.
Fairness ==
  /\ WF_vars(internal_schedule)
  /\ \A p \in Workers : SF_vars(Syscall(p))

FairSpec == Spec /\ Fairness

-----------------------------------------------------------------------------
(* Properties.                                                             *)

Blocked == Range(waiting_list_read) \cup Range(waiting_list_write)

\* The channel never holds more than size_max bytes nor fewer than none
\* (disastrOS_ipc.c keeps `size' by two separate minima), and every variable
\* has its type.
TypeOK ==
  /\ running \in Procs
  /\ ready_list \in Seq(Procs)
  /\ status \in [Procs -> {"Running", "Ready", "Waiting"}]
  /\ call \in [Procs -> Calls]
  /\ size \in 0..SizeMax
  /\ waiting_list_read \in Seq(Procs)
  /\ waiting_list_write \in Seq(Procs)
  /\ panic \in BOOLEAN

\* A PCB is an element of an intrusive list: it is on exactly one of them, once,
\* and its status says which.  (A PCB inserted twice corrupts both lists.)
PlacedByStatus ==
  /\ \A p \in Procs :
       /\ status[p] = "Running" <=> p = running
       /\ status[p] = "Ready" <=> p \in Range(ready_list)
       /\ status[p] = "Waiting" <=> p \in Blocked
  /\ Range(waiting_list_read) \cap Range(waiting_list_write) = {}
  /\ IsInjective(ready_list)
  /\ IsInjective(waiting_list_read)
  /\ IsInjective(waiting_list_write)

\* Whoever is on a waiting list is inside the blocking call of that list, with
\* bytes still to transfer: it will issue it again when it is woken.
WaitersCall ==
  /\ \A p \in Procs : 0 <= Left(p)
  /\ \A p \in Sleepers : call[p] = Idle
  /\ \A p \in Range(waiting_list_read) :
       call[p].op = "read" /\ Left(p) > 0 /\ ~call[p].nonblock
  /\ \A p \in Range(waiting_list_write) :
       call[p].op = "write" /\ Left(p) > 0 /\ ~call[p].nonblock

\* The processes that cannot go on by themselves: asleep, or the one that died
\* on its way to sleep.
Stuck == Blocked \cup {p \in {running} : panic}

\* The processes that are about to issue op, for at least one byte.
About(op) == {p \in Procs \ Stuck : call[p].op = op /\ Left(p) > 0}

\* No lost wakeup of a reader: while data is in the channel and a reader sleeps,
\* some reader is awake and on its way to Ipc_read, and wakes the next one.
NoLostReaderWakeup ==
  size > 0 /\ waiting_list_read # <<>> => About("read") # {}

\* No lost wakeup of a writer: while the channel is empty and a writer sleeps,
\* some writer is awake and on its way to Ipc_write.  (With some space left a
\* writer may rightly sleep until its whole request fits.)
NoLostWriterWakeup ==
  size = 0 /\ SizeMax > 0 /\ waiting_list_write # <<>> => About("write") # {}

\* Readers and writers never wait for each other with nobody left to act: when
\* a reader and a writer are stuck, somebody else is about to transfer bytes.  So
\* when the kernel dies with nobody ready, all who sleep wait for the same thing.
NoMutualBlock ==
  SizeMax > 0 =>
    \A r, w \in Stuck :
      call[r].op = "read" /\ call[w].op = "write" => About("read") \cup About("write") # {}

\* A write of at most size_max bytes on a blocking descriptor is atomic: it has
\* transferred all of its bytes or none (disastrOS_ipc.c, Ipc_write, step 5).
BlockingWriteAtomic ==
  \A p \in Procs :
    call[p].op = "write" /\ ~call[p].nonblock /\ call[p].count <= SizeMax => call[p].done = 0

\* The same promise as README.txt makes it, for every write up to PIPE_BUF.
WriteAtomic ==
  \A p \in Procs : call[p].op = "write" /\ call[p].count <= SizeMax => call[p].done = 0

\* With a process that never blocks, the ready list is never empty when a call
\* has to wait (the assertions of Ipc_lock_reader and Ipc_lock_writer).
NoPanic == ~panic

\* Data in the channel reaches a sleeping reader, and an empty channel a
\* sleeping writer: the wakeups are acted upon, not only sent.
WakeupsServed ==
  /\ (size > 0 /\ waiting_list_read # <<>>) ~> (size = 0 \/ waiting_list_read = <<>>)
  /\ (size = 0 /\ waiting_list_write # <<>>) ~> (size > 0 \/ waiting_list_write = <<>>)

\* While bytes keep being written, no reader sleeps for ever (the waiting list
\* is first in, first out), and likewise writers while bytes keep being read.
\* A woken one may still find the bytes taken, and sleep again, any number of
\* times.
ReadersNotStarved ==
  []<><<size' > size>>_vars =>
    \A p \in Workers : p \in Range(waiting_list_read) ~> p \notin Range(waiting_list_read)

WritersNotStarved ==
  []<><<size' < size>>_vars =>
    \A p \in Workers : p \in Range(waiting_list_write) ~> p \notin Range(waiting_list_write)

=============================================================================
