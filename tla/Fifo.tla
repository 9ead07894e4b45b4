--------------------------------- MODULE Fifo ---------------------------------
(***************************************************************************)
(* The Fifo class of disastrOS (disastrOS_fifo.c) over the Ipc class: one  *)
(* named fifo, or one anonymous pipe, with its descriptors.  Opening for   *)
(* reading waits for a writer and the other way round; closing the last    *)
(* descriptor of one side tells the processes blocked on the other.        *)
(*                                                                         *)
(* The model follows one block of the pool of fifos: the next fifo made in *)
(* it is made after the last one was freed.  Descriptors are those of this *)
(* fifo.  The bytes themselves are left out, their positions in the        *)
(* circular buffer are kept.                                               *)
(***************************************************************************)
EXTENDS Ipc

CONSTANTS
  OpenModes,            \* the access modes processes pass to disastrOS_open
  MaxFds,               \* MAX_NUM_DESCRIPTORS_PER_PROCESS
  MaxDescriptors,       \* the blocks of the descriptor pool
  UnlinkDuringOpen,     \* may unlink be called while somebody is in an open?
  MaxCount              \* bound: no open starts with a counter beyond it

ASSUME FifoAssumption ==
  /\ OpenModes \subseteq {"RDONLY", "WRONLY", "RDWR"}
  /\ MaxFds \in Nat /\ MaxDescriptors \in Nat /\ MaxCount \in Nat
  /\ UnlinkDuringOpen \in BOOLEAN
  /\ SizeMax > 0 \* DSOS_PIPE_BUF

VARIABLES
  fifo,                         \* "absent", "linked" (on resources_list), "unlinked"
  descriptors,                  \* resource->descriptors_ptrs
  readers_number,
  writers_number,
  waiting_list_open_reader,
  waiting_list_open_writer,
  syscall_intermediate_data,    \* the processes whose PCB has it set to 1
  read_pos,
  write_pos

openers == <<readers_number, writers_number, waiting_list_open_reader,
             waiting_list_open_writer, syscall_intermediate_data>>
fifoVars == <<vars, fifo, descriptors, openers, read_pos, write_pos>>

\* A process inside disastrOS_open has the access mode as the op of its call.
Openers == {p \in Procs : call[p].op \in {"RDONLY", "WRONLY", "RDWR"}}
Open(mode) == {d \in descriptors : d.mode = mode}
FreeFds(p) == {fd \in 1..MaxFds : \A d \in descriptors : ~(d.pcb = p /\ d.fd = fd)}

-----------------------------------------------------------------------------
(* User space: a process issues its calls one at a time.                   *)

Issues(p) == ~panic /\ running = p /\ call[p] = Idle

EnterOpen(p) ==
  /\ Issues(p)
  /\ readers_number <= MaxCount /\ writers_number <= MaxCount
  /\ \E mode \in OpenModes, nb \in NonBlock :
       call' = [call EXCEPT ![p] = [op |-> mode, count |-> 0, done |-> 0, nonblock |-> nb]]
  /\ UNCHANGED <<sched, size, waiting_list_read, waiting_list_write, panic,
                 fifo, descriptors, openers, read_pos, write_pos>>

\* Virtual_read and Virtual_write refuse a descriptor of the other mode.
EnterTransfer(p) ==
  /\ Issues(p)
  /\ \E d \in descriptors, n \in Counts :
       /\ d.pcb = p
       /\ call' = [call EXCEPT ![p] =
                     [op |-> IF d.mode = "RDONLY" THEN "read" ELSE "write",
                      count |-> n, done |-> 0, nonblock |-> d.nonblock]]
  /\ UNCHANGED <<sched, size, waiting_list_read, waiting_list_write, panic,
                 fifo, descriptors, openers, read_pos, write_pos>>

-----------------------------------------------------------------------------
(* Open.  Resource_open makes a descriptor, calls Fifo_onopen and destroys *)
(* the descriptor again unless that succeeds.                              *)

\* DSOS_ENOENT, DSOS_EMFILE, DSOS_ENFILE, and DSOS_EINVAL for DSOS_O_RDWR.
OpenFails(p) ==
  /\ \/ fifo # "linked"
     \/ FreeFds(p) = {}
     \/ Cardinality(descriptors) >= MaxDescriptors
     \/ call[p].op = "RDWR"
  /\ Return(p)
  /\ UNCHANGED <<sched, size, waiting_list_read, waiting_list_write, panic,
                 fifo, descriptors, openers, read_pos, write_pos>>

\* The descriptor of an open that succeeds.  (The code numbers them from last_fd
\* and never again alike; here a free place of the process stands for the number.)
Descriptor_mk(p) ==
  descriptors' = descriptors \cup
    {[pcb |-> p, fd |-> CHOOSE fd \in FreeFds(p) : TRUE,
      mode |-> call[p].op, nonblock |-> call[p].nonblock]}

\* The opener itself counts once: not again if it was counted when woken.
Own_Always(p) == 1
Own_Never(p) == 0
Own(p) == IF p \in syscall_intermediate_data THEN 0 ELSE 1

\* Whom a successful open wakes among the openers of the other side.
Met_First(queue) == IF queue = <<>> THEN <<>> ELSE <<Head(queue)>>
Met(queue) == queue

StillOpening(queue) == SubSeq(queue, Len(Met(queue)) + 1, Len(queue))

\* The PCBs with syscall_intermediate_data set after p opened and met others.
Marked_Unreset(p, met) == syscall_intermediate_data \cup Range(met)
Marked(p, met) == (syscall_intermediate_data \ {p}) \cup Range(met)

\* The descriptor exists, the waiting openers of the other side are released
\* and marked as already counted.
Opened(p, queue) ==
  /\ Descriptor_mk(p)
  /\ Awake(Met(queue))
  /\ syscall_intermediate_data' = Marked(p, Met(queue))
  /\ Return(p)
  /\ UNCHANGED <<size, waiting_list_read, waiting_list_write, panic, fifo, read_pos, write_pos>>

WriterThere_IgnoresWaiting(p) == writers_number > 0 \/ call[p].nonblock
WriterThere(p) ==
  writers_number > 0 \/ waiting_list_open_writer # <<>> \/ call[p].nonblock

ReaderThere == readers_number > 0 \/ waiting_list_open_reader # <<>>

OpenReader(p) ==
  /\ call[p].op = "RDONLY"
  /\ \/ /\ WriterThere(p)
        /\ Opened(p, waiting_list_open_writer)
        /\ waiting_list_open_writer' = StillOpening(waiting_list_open_writer)
        /\ writers_number' = writers_number + Len(Met(waiting_list_open_writer))
        /\ readers_number' = readers_number + Own(p)
        /\ UNCHANGED waiting_list_open_reader
     \/ /\ ~WriterThere(p) /\ ready_list # <<>>
        /\ waiting_list_open_reader' = Enqueued(waiting_list_open_reader, p)
        /\ SwitchFrom(p)
        /\ UNCHANGED <<call, size, waiting_list_read, waiting_list_write, panic, fifo, descriptors,
                       readers_number, writers_number, waiting_list_open_writer,
                       syscall_intermediate_data, read_pos, write_pos>>
     \/ /\ ~WriterThere(p) /\ Crash
        /\ UNCHANGED <<fifo, descriptors, openers, read_pos, write_pos>>

OpenWriter(p) ==
  /\ call[p].op = "WRONLY"
  /\ \/ /\ ReaderThere
        /\ Opened(p, waiting_list_open_reader)
        /\ waiting_list_open_reader' = StillOpening(waiting_list_open_reader)
        /\ readers_number' = readers_number + Len(Met(waiting_list_open_reader))
        /\ writers_number' = writers_number + Own(p)
        /\ UNCHANGED waiting_list_open_writer
     \/ /\ ~ReaderThere /\ call[p].nonblock     \* DSOS_ENXIO
        /\ Return(p)
        /\ UNCHANGED <<sched, size, waiting_list_read, waiting_list_write, panic,
                       fifo, descriptors, openers, read_pos, write_pos>>
     \/ /\ ~ReaderThere /\ ~call[p].nonblock /\ ready_list # <<>>
        /\ waiting_list_open_writer' = Enqueued(waiting_list_open_writer, p)
        /\ SwitchFrom(p)
        /\ UNCHANGED <<call, size, waiting_list_read, waiting_list_write, panic, fifo, descriptors,
                       readers_number, writers_number, waiting_list_open_reader,
                       syscall_intermediate_data, read_pos, write_pos>>
     \/ /\ ~ReaderThere /\ ~call[p].nonblock /\ Crash
        /\ UNCHANGED <<fifo, descriptors, openers, read_pos, write_pos>>

Resource_open(p) ==
  \/ p \in Openers /\ OpenFails(p)
  \/ /\ fifo = "linked" /\ FreeFds(p) # {} /\ Cardinality(descriptors) < MaxDescriptors
     /\ OpenReader(p) \/ OpenWriter(p)

-----------------------------------------------------------------------------
(* Read and write: end of file and broken pipe, else the Ipc call and the  *)
(* position in the circular buffer after the bytes it transferred.         *)

Advanced_NoWrap(pos, n) == pos + n
Advanced(pos, n) == (pos + n) % SizeMax

Fifo_read(p) ==
  /\ call[p].op = "read"
  /\ \/ /\ size = 0 /\ writers_number = 0
        /\ Return(p)
        /\ UNCHANGED <<sched, size, waiting_list_read, waiting_list_write, panic, read_pos>>
     \/ /\ ~(size = 0 /\ writers_number = 0)
        /\ Ipc_read(p)
        /\ read_pos' = Advanced(read_pos, size - size')
  /\ UNCHANGED <<fifo, descriptors, openers, write_pos>>

Fifo_write(p) ==
  /\ call[p].op = "write"
  /\ \/ /\ readers_number = 0
        /\ Return(p)
        /\ UNCHANGED <<sched, size, waiting_list_read, waiting_list_write, panic, write_pos>>
     \/ /\ readers_number # 0
        /\ Ipc_write(p)
        /\ write_pos' = Advanced(write_pos, size' - size)
  /\ UNCHANGED <<fifo, descriptors, openers, read_pos>>

FifoSyscall(p) == ~panic /\ running = p /\ (Resource_open(p) \/ Fifo_read(p) \/ Fifo_write(p))

-----------------------------------------------------------------------------
(* Close, unlink and mkfifo never wait: entering one and running it is one *)
(* step.                                                                   *)

\* The end of Resource_close and Resource_unlink: an unlinked fifo without
\* descriptors is freed, and Fifo_desetter asserts that nobody waits on it.
Waiters ==
  Blocked \cup Range(waiting_list_open_reader) \cup Range(waiting_list_open_writer)

Resource_destroy_Early(linkage) ==
  LET last == linkage = "unlinked"
  IN /\ fifo' = IF last /\ Waiters' = {} THEN "absent" ELSE linkage
     /\ panic' = (last /\ Waiters' # {})

Resource_destroy(linkage) ==
  LET last == linkage = "unlinked" /\ descriptors' = {}
  IN /\ fifo' = IF last /\ Waiters' = {} THEN "absent" ELSE linkage
     /\ panic' = (last /\ Waiters' # {})

\* Fifo_onclose: whom the close of the last descriptor of a side wakes.
Hangup_First(count, queue) ==
  IF count = 0 /\ queue # <<>> THEN <<Head(queue)>> ELSE <<>>
Hangup(count, queue) == IF count = 0 THEN queue ELSE <<>>

Unhung_Kept(count, queue) == queue
Unhung(count, queue) == SubSeq(queue, Len(Hangup(count, queue)) + 1, Len(queue))

CloseReader_Uncounted(d) ==
  /\ d.mode = "RDONLY"
  /\ UNCHANGED <<sched, readers_number, writers_number, waiting_list_read, waiting_list_write>>

CloseReader(d) ==
  /\ d.mode = "RDONLY"
  /\ readers_number' = readers_number - 1
  /\ Awake(Hangup(readers_number', waiting_list_write))
  /\ waiting_list_write' = Unhung(readers_number', waiting_list_write)
  /\ UNCHANGED <<writers_number, waiting_list_read>>

CloseWriter(d) ==
  /\ d.mode = "WRONLY"
  /\ writers_number' = writers_number - 1
  /\ Awake(Hangup(writers_number', waiting_list_read))
  /\ waiting_list_read' = Unhung(writers_number', waiting_list_read)
  /\ UNCHANGED <<readers_number, waiting_list_write>>

Resource_close(p) ==
  /\ Issues(p)
  /\ \E d \in descriptors :
       /\ d.pcb = p
       /\ descriptors' = descriptors \ {d}
       /\ CloseReader(d) \/ CloseWriter(d)
  /\ UNCHANGED <<waiting_list_open_reader, waiting_list_open_writer>>
  /\ Resource_destroy(fifo)
  /\ UNCHANGED <<call, size, syscall_intermediate_data, read_pos, write_pos>>

Resource_unlink(p) ==
  /\ Issues(p)
  /\ fifo = "linked"
  /\ UnlinkDuringOpen \/ Openers = {}
  /\ UNCHANGED <<sched, call, size, waiting_list_read, waiting_list_write,
                 descriptors, openers, read_pos, write_pos>>
  /\ Resource_destroy("unlinked")

\* Otherwise DSOS_EEXIST, or the next block of the pool.
Fifo_mk(p) ==
  /\ Issues(p)
  /\ fifo = "absent"
  /\ fifo' = "linked"
  /\ size' = 0 /\ waiting_list_read' = <<>> /\ waiting_list_write' = <<>>
  /\ readers_number' = 0 /\ writers_number' = 0
  /\ waiting_list_open_reader' = <<>> /\ waiting_list_open_writer' = <<>>
  /\ read_pos' = 0 /\ write_pos' = 0
  /\ UNCHANGED <<sched, call, panic, descriptors, syscall_intermediate_data>>

-----------------------------------------------------------------------------
FifoSchedule ==
  internal_schedule /\ UNCHANGED <<fifo, descriptors, openers, read_pos, write_pos>>

\* Nothing made yet.
FifoInit ==
  /\ Init
  /\ fifo = "absent"
  /\ descriptors = {}
  /\ readers_number = 0 /\ writers_number = 0
  /\ waiting_list_open_reader = <<>> /\ waiting_list_open_writer = <<>>
  /\ syscall_intermediate_data = {}
  /\ read_pos = 0 /\ write_pos = 0

\* A pipe: Pipe_mk gave its creator both ends, disastrOS_spawn_withfd cloned
\* them into its children (Fifo_onclone counts the copies), and each process
\* closed the ends it does not use.  It is unlinked from the start.
PipeEnds(p) == [pcb: {p}, fd: {1}, mode: {"RDONLY"}, nonblock: {FALSE}]
                 \cup [pcb: {p}, fd: {2}, mode: {"WRONLY"}, nonblock: {FALSE}]

PipeInit ==
  /\ Init
  /\ fifo = "unlinked"
  /\ descriptors \in (SUBSET UNION {PipeEnds(p) : p \in Workers}) \ {{}}
  /\ readers_number = Cardinality(Open("RDONLY"))
  /\ writers_number = Cardinality(Open("WRONLY"))
  /\ waiting_list_open_reader = <<>> /\ waiting_list_open_writer = <<>>
  /\ syscall_intermediate_data = {}
  /\ read_pos = 0 /\ write_pos = 0

FifoNext ==
  \/ FifoSchedule
  \/ \E p \in Workers :
       \/ EnterOpen(p) \/ EnterTransfer(p) \/ FifoSyscall(p)
       \/ Resource_close(p) \/ Resource_unlink(p) \/ Fifo_mk(p)

FifoSpec == FifoInit /\ [][FifoNext]_fifoVars

\* As for Ipc: the timer fires for ever and leaves time to reach the trap.
PipeFairSpec ==
  /\ PipeInit /\ [][FifoNext]_fifoVars
  /\ WF_fifoVars(FifoSchedule)
  /\ \A p \in Workers : SF_fifoVars(FifoSyscall(p))

-----------------------------------------------------------------------------
(* Properties.                                                             *)

\* Every variable has its type, `size' within DSOS_PIPE_BUF and the positions
\* inside the buffer.
FifoTypeOK ==
  /\ running \in Procs
  /\ status \in [Procs -> {"Running", "Ready", "Waiting"}]
  /\ \A q \in {ready_list, waiting_list_read, waiting_list_write,
               waiting_list_open_reader, waiting_list_open_writer} : q \in Seq(Procs)
  /\ size \in 0..SizeMax /\ read_pos \in 0..(SizeMax - 1) /\ write_pos \in 0..(SizeMax - 1)
  /\ panic \in BOOLEAN
  /\ fifo \in {"absent", "linked", "unlinked"}
  /\ descriptors \subseteq
       [pcb: Procs, fd: 1..MaxFds, mode: {"RDONLY", "WRONLY"}, nonblock: BOOLEAN]
  /\ readers_number \in Int /\ writers_number \in Int
  /\ syscall_intermediate_data \subseteq Procs

\* A PCB is on exactly one list: the ready list or one of the four waiting lists
\* of the fifo, whatever wakes it (data, space, a counterpart or a hangup).
FifoPlaced ==
  LET lists == <<<<running>>, ready_list, waiting_list_read, waiting_list_write,
                 waiting_list_open_reader, waiting_list_open_writer>>
      state == <<"Running", "Ready", "Waiting", "Waiting", "Waiting", "Waiting">>
  IN \A p \in Procs : \E i \in DOMAIN lists :
       /\ \E k \in DOMAIN lists[i] :
            /\ lists[i][k] = p
            /\ \A j \in DOMAIN lists : \A l \in DOMAIN lists[j] :
                 lists[j][l] = p => j = i /\ l = k
       /\ status[p] = state[i]

\* A reader and a writer never sleep in open waiting for each other.
OpenersMeet == waiting_list_open_reader = <<>> \/ waiting_list_open_writer = <<>>

\* Nobody sleeps in open while the other side is open: whoever opens wakes all
\* who wait for it.
OpenersReleased ==
  /\ waiting_list_open_reader # <<>> => writers_number <= 0
  /\ waiting_list_open_writer # <<>> => readers_number <= 0

\* A freed fifo is used by nobody: no descriptor points to it, nobody waits on it.
FreedUnused == fifo = "absent" => descriptors = {} /\ Waiters = {}

\* The assertions of Fifo_desetter and Ipc_desetter hold: the kernel never dies
\* in close or unlink (it may, in a blocking call, with nobody else to run).
AssertionsHold == panic => call[running] # Idle

\* Reader and writer agree on where the data is in the circular buffer.
PositionsAgree == write_pos = (read_pos + size) % SizeMax

\* No descriptor is missing from the counters, nor a process that was woken in
\* open and counted there: end of file and broken pipe are never answered while
\* the other side is open.
Counted(mode) == {p \in syscall_intermediate_data : call[p].op = mode}
NeverUndercounts ==
  /\ readers_number >= Cardinality(Open("RDONLY")) + Cardinality(Counted("RDONLY"))
  /\ writers_number >= Cardinality(Open("WRONLY")) + Cardinality(Counted("WRONLY"))

\* On a pipe, where nobody opens, the counters are exact.
CountsExact ==
  /\ readers_number = Cardinality(Open("RDONLY"))
  /\ writers_number = Cardinality(Open("WRONLY"))

\* The same of a fifo whenever nobody is in the middle of an open: what the
\* counters are for.
CountsSettle == fifo = "linked" /\ Openers = {} => CountsExact

\* Nobody sleeps on a fifo the other side has left: a reader would miss the end
\* of file, a writer the broken pipe.
HangupWakesAll ==
  /\ writers_number = 0 => waiting_list_read = <<>>
  /\ readers_number = 0 => waiting_list_write = <<>>

\* syscall_intermediate_data is 0 again when the system call that used it is over
\* (the contract of disastrOS_pcb.h and README.txt).
IntermediateReset == \A p \in Procs : call[p] = Idle => p \notin syscall_intermediate_data

\* Once the other side of a pipe has no descriptor left, a read and a write come
\* back, with what is left, end of file or DSOS_EPIPE, even if they slept.
PeerGoneEndsCall ==
  \A p \in Workers :
    /\ (call[p].op = "read" /\ Open("WRONLY") = {}) ~> (call[p].op # "read")
    /\ (call[p].op = "write" /\ Open("RDONLY") = {}) ~> (call[p].op # "write")

=============================================================================
