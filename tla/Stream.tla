-------------------------------- MODULE Stream --------------------------------
(***************************************************************************)
(* Whole runs of the kernel: the integration tests of                      *)
(* tester_itest_pipe.c and tester_itest_fifo.c, in which init makes a pipe *)
(* or a fifo and spawns writers and readers, which transfer a text or      *)
(* packets through it, sleep, close it and exit, while init waits for      *)
(* them.  It is Fifo with the bytes in the circular buffer, the programs   *)
(* of the processes, and spawn, sleep, wait and exit.                      *)
(*                                                                         *)
(* A step is a system call with the user code that follows it up to the    *)
(* next one, or that user code alone where a blocking call begins.  The    *)
(* timer may come between any two steps.                                   *)
(***************************************************************************)
EXTENDS Fifo, CircularBuffer, SequencesExt

CONSTANTS
  Init_pcb,         \* the first process, which runs a test
  Writers, Readers, \* the children a test with N of a kind spawns, in order
  Tests,            \* the tests that are run
  PacketSize,       \* the length of a packet
  TextLen,          \* the length of the text
  ToSend,           \* the packets a writer sends in a test with N writers
  SleepRate         \* a process sleeps after so many packets

ASSUME StreamAssumption ==
  /\ Writers \in Seq(Workers) /\ Readers \in Seq(Workers)
  /\ Workers = {Init_pcb} \cup ToSet(Writers) \cup ToSet(Readers)
  /\ IsInjective(Writers \o Readers) /\ Init_pcb \notin ToSet(Writers \o Readers)
  /\ Writers # <<>> /\ Readers # <<>>
  /\ PacketSize \in 1..SizeMax                  \* a packet is 6 bytes, DSOS_PIPE_BUF 512
  /\ TextLen \in Nat /\ TextLen > 2 * SizeMax   \* as the tests print
  /\ ToSend \in Nat \ {0} /\ SleepRate \in Nat \ {0}
  /\ MaxFds > 1                                 \* 32: both ends of a pipe
  /\ MaxDescriptors >= 2 * Cardinality(Workers) \* 32 for each of 1024 processes
  /\ NonBlock = {FALSE}

VARIABLES
  test,             \* the test this run is
  at,               \* where each process is in its program
  step,             \* the children init has spawned, or waited for
  buffer,           \* fifo->buffer
  sent,             \* the bytes each writer has written
  got,              \* the bytes each reader has read
  asleep            \* timer_list

progVars == <<test, at, step, sent, got>>
streamVars == <<fifoVars, progVars, buffer, asleep>>

-----------------------------------------------------------------------------
(* The tests, by the children they spawn and the programs these run.       *)

Test(medium, data, ws, rs, to_send) ==
  [medium |-> medium, data |-> data, writers |-> ws, readers |-> rs, to_send |-> to_send]

One(children) == <<Head(children)>>

\* A text from one writer to one reader; the writer's one write is longer than
\* twice the buffer.
test_itest_pipe1_init == Test("pipe", "text", One(Writers), One(Readers), 1)
test_itest_fifo1_init == Test("fifo", "text", One(Writers), One(Readers), 1)

\* Packets from one writer to N readers, from N writers to one reader, and from
\* N to N (over a pipe only).
test_itest_pipe2_init == Test("pipe", "packets", One(Writers), Readers, ToSend * Len(Readers))
test_itest_fifo2_init == Test("fifo", "packets", One(Writers), Readers, ToSend * Len(Readers))
test_itest_pipe3_init == Test("pipe", "packets", Writers, One(Readers), ToSend)
test_itest_fifo3_init == Test("fifo", "packets", Writers, One(Readers), ToSend)
test_itest_pipe4_init == Test("pipe", "packets", Writers, Readers, ToSend)

ASSUME TestsAssumption ==
  Tests \subseteq {test_itest_pipe1_init, test_itest_pipe2_init, test_itest_pipe3_init,
                   test_itest_pipe4_init, test_itest_fifo1_init, test_itest_fifo2_init,
                   test_itest_fifo3_init}

Children == test.writers \o test.readers

\* How much a writer writes at a time, and in all; how much a reader asks for.
Chunk == IF test.data = "text" THEN TextLen ELSE PacketSize
Total == test.to_send * Chunk
Wanted(p) == IF test.data = "text" THEN TextLen - Len(got[p]) ELSE PacketSize

-----------------------------------------------------------------------------
(* The kernel: processes that are born, sleep and end.                     *)

UnchangedFifo == UNCHANGED <<fifo, descriptors, openers, read_pos, write_pos>>
UnchangedIpc == UNCHANGED <<call, size, waiting_list_read, waiting_list_write, panic>>

\* The run is followed no further once the kernel died or a child exits with -1
\* (which closes its descriptors, and makes init give up the test).
Stopped == panic \/ \E p \in Workers : at[p] = "failed"

Runs(p, where) == ~Stopped /\ Issues(p) /\ at[p] = where
Goes(p, where) == at' = [at EXCEPT ![p] = where]

\* disastrOS_spawn, and disastrOS_spawn_withfd, which clones the descriptors.
Cloned(child) == {[d EXCEPT !.pcb = child] : d \in {d \in descriptors : d.pcb = Init_pcb}}

\* Fifo_onclone for each of them.
Onclone_Uncounted(child, mode) == 0
Onclone(child, mode) == Cardinality({d \in Cloned(child) : d.mode = mode})

Spawn(child) ==
  /\ ready_list' = Append(ready_list, child)
  /\ status' = [status EXCEPT ![child] = "Ready"]
  /\ descriptors' = descriptors \cup Cloned(child)
  /\ readers_number' = readers_number + Onclone(child, "RDONLY")
  /\ writers_number' = writers_number + Onclone(child, "WRONLY")
  /\ UnchangedIpc
  /\ UNCHANGED <<running, fifo, waiting_list_open_reader, waiting_list_open_writer,
                 syscall_intermediate_data, read_pos, write_pos, buffer, asleep>>

\* internal_sleep and internal_wait: p leaves the cpu.
Leaves(p) ==
  /\ ready_list # <<>>
  /\ running' = Head(ready_list)
  /\ ready_list' = Tail(ready_list)
  /\ status' = [status EXCEPT ![p] = "Waiting"]

\* p is about to enter a wrapper.
Entering(p) ==
  /\ p \in Workers /\ call[p] = Idle
  /\ at[p] \in {"read", "write"} \/ (at[p] = "setup" /\ fifo # "unlinked")

\* internal_schedule, at which the timers of some processes have elapsed.
StreamSchedule(elapsed) ==
  LET woken == SelectSeq(asleep, LAMBDA p : p \in elapsed)
      queue == ready_list \o woken
  IN /\ ~Stopped /\ queue # <<>> /\ ~Entering(running)
     /\ running' = Head(queue)
     /\ ready_list' = Append(Tail(queue), running)
     /\ status' = [p \in Procs |-> CASE p = Head(queue) -> "Running"
                                     [] p = running \/ p \in ToSet(woken) -> "Ready"
                                     [] OTHER -> status[p]]
     /\ asleep' = SelectSeq(asleep, LAMBDA p : p \notin elapsed)
     /\ UnchangedIpc /\ UnchangedFifo
     /\ UNCHANGED <<progVars, buffer>>

-----------------------------------------------------------------------------
(* The programs of the children.                                           *)

\* A call of the wrapper begins.
Begins(p, op, count) ==
  /\ Runs(p, op)
  /\ call' = [call EXCEPT ![p] = [op |-> op, count |-> count, done |-> 0, nonblock |-> FALSE]]
  /\ UNCHANGED <<sched, size, waiting_list_read, waiting_list_write, panic>>
  /\ UnchangedFifo
  /\ UNCHANGED <<progVars, buffer, asleep>>

In(p, op) == ~Stopped /\ running = p /\ call[p].op = op

\* The head of a loop: a writer stops when it has sent all, a reader at the end
\* of file.  After SleepRate packets it sleeps before it comes there.
LoopHead(p, all) == IF p \in ToSet(test.readers) THEN "read" ELSE IF all THEN "close" ELSE "write"

AfterChunk(p, bytes) ==
  IF test.data = "packets" /\ (bytes \div PacketSize) % SleepRate = 0 THEN "sleep"
  ELSE LoopHead(p, bytes = Total)

\* disastrOS_write; a packet writer exits with -1 unless it wrote all of it.
Write(p) ==
  \/ Begins(p, "write", Chunk)
  \/ /\ In(p, "write")
     /\ Fifo_write(p)
     /\ LET n == size' - size
            new == [i \in 1..n |-> <<p, sent[p] + i>>]
        IN /\ sent' = [sent EXCEPT ![p] = @ + n]
           /\ buffer' = Circular_buffer_write(new, buffer, SizeMax, write_pos)
           /\ IF call'[p] # Idle THEN UNCHANGED at
              ELSE Goes(p, IF n = Left(p) THEN AfterChunk(p, sent'[p])
                           ELSE IF test.data = "text" THEN "close" ELSE "failed")
     /\ UNCHANGED <<test, step, got, asleep>>

\* disastrOS_read; a packet reader exits with -1 unless it got a packet or the end.
Read(p) ==
  \/ Begins(p, "read", Wanted(p))
  \/ /\ In(p, "read")
     /\ Fifo_read(p)
     /\ LET n == size - size'
            new == Circular_buffer_read(buffer, n, SizeMax, read_pos)
            packet == n = PacketSize /\ \A i \in 1..n : new[i][2] % PacketSize = i % PacketSize
        IN /\ got' = [got EXCEPT ![p] = @ \o new]
           /\ IF call'[p] # Idle THEN UNCHANGED at
              ELSE Goes(p, IF n = 0 THEN "close"
                           ELSE IF test.data = "text" \/ packet THEN AfterChunk(p, Len(got'[p]))
                           ELSE "failed")
     /\ UNCHANGED <<test, step, sent, buffer, asleep>>

Sleep(p) ==
  /\ Runs(p, "sleep")
  /\ Leaves(p)
  /\ asleep' = Append(asleep, p)
  /\ Goes(p, LoopHead(p, sent[p] = Total))
  /\ UnchangedIpc /\ UnchangedFifo
  /\ UNCHANGED <<test, step, buffer, sent, got>>

\* disastrOS_close of the process's descriptor of that mode.
Close(p, where, mode, next) ==
  /\ Runs(p, where)
  /\ Resource_close(p)
  /\ \A d \in descriptors \ descriptors' : d.mode = mode
  /\ Goes(p, next)
  /\ UNCHANGED <<test, step, buffer, sent, got, asleep>>

\* disastrOS_open, after which the process has its descriptor or exits with -1.
Opening(p, mode, next) ==
  \/ /\ Runs(p, "setup") /\ fifo # "absent"
     /\ call' = [call EXCEPT ![p] = [op |-> mode, count |-> 0, done |-> 0, nonblock |-> FALSE]]
     /\ UNCHANGED <<sched, size, waiting_list_read, waiting_list_write, panic>>
     /\ UnchangedFifo
     /\ UNCHANGED <<progVars, buffer, asleep>>
  \/ /\ In(p, mode)
     /\ Resource_open(p)
     /\ IF call'[p] # Idle THEN UNCHANGED at
        ELSE Goes(p, IF \E d \in descriptors' : d.pcb = p THEN next ELSE "failed")
     /\ UNCHANGED <<test, step, buffer, sent, got, asleep>>

\* disastrOS_exit: init runs at once if it waits for this child.
Exit_NoSignal(p) ==
  /\ Runs(p, "exit")
  /\ ready_list # <<>>
  /\ running' = Head(ready_list) /\ ready_list' = Tail(ready_list)
  /\ status' = [status EXCEPT ![p] = "Zombie", ![Head(ready_list)] = "Running"]
  /\ Goes(p, "zombie")
  /\ UnchangedIpc /\ UnchangedFifo
  /\ UNCHANGED <<test, step, buffer, sent, got, asleep>>

Exit(p) ==
  /\ Runs(p, "exit")
  /\ \/ /\ at[Init_pcb] = "waiting" /\ Children[step + 1] = p
        /\ running' = Init_pcb
        /\ status' = [status EXCEPT ![p] = "Zombie", ![Init_pcb] = "Running"]
        /\ at' = [at EXCEPT ![p] = "gone", ![Init_pcb] = "wait"]
        /\ step' = step + 1
        /\ UNCHANGED ready_list
     \/ /\ ~(at[Init_pcb] = "waiting" /\ Children[step + 1] = p)
        /\ ready_list # <<>>
        /\ running' = Head(ready_list) /\ ready_list' = Tail(ready_list)
        /\ status' = [status EXCEPT ![p] = "Zombie", ![Head(ready_list)] = "Running"]
        /\ Goes(p, "zombie")
        /\ UNCHANGED step
  /\ UnchangedIpc /\ UnchangedFifo
  /\ UNCHANGED <<test, buffer, sent, got, asleep>>

\* The programs: over a pipe a child first closes the end it does not use.
test_itest_pipe_text_writer(p) ==
  Close(p, "setup", "RDONLY", "write") \/ Write(p) \/ Close(p, "close", "WRONLY", "exit") \/ Exit(p)

test_itest_pipe_text_reader(p) ==
  Close(p, "setup", "WRONLY", "read") \/ Read(p) \/ Close(p, "close", "RDONLY", "exit") \/ Exit(p)

test_itest_pipe_packet_writer(p) == test_itest_pipe_text_writer(p) \/ Sleep(p)
test_itest_pipe_packet_reader(p) == test_itest_pipe_text_reader(p) \/ Sleep(p)

\* Over a fifo it opens it, which may wait for the other side.
test_itest_fifo_text_writer(p) ==
  Opening(p, "WRONLY", "write") \/ Write(p) \/ Close(p, "close", "WRONLY", "exit") \/ Exit(p)

test_itest_fifo_text_reader(p) ==
  Opening(p, "RDONLY", "read") \/ Read(p) \/ Close(p, "close", "RDONLY", "exit") \/ Exit(p)

test_itest_fifo_packet_writer(p) == test_itest_fifo_text_writer(p) \/ Sleep(p)
test_itest_fifo_packet_reader(p) == test_itest_fifo_text_reader(p) \/ Sleep(p)

\* What child p runs in this test.
Child(p) ==
  /\ p = running /\ p \in ToSet(Children)
  /\ LET runs(medium, data, role) == test.medium = medium /\ test.data = data /\ p \in ToSet(role)
     IN \/ runs("pipe", "text", test.writers) /\ test_itest_pipe_text_writer(p)
        \/ runs("pipe", "text", test.readers) /\ test_itest_pipe_text_reader(p)
        \/ runs("pipe", "packets", test.writers) /\ test_itest_pipe_packet_writer(p)
        \/ runs("pipe", "packets", test.readers) /\ test_itest_pipe_packet_reader(p)
        \/ runs("fifo", "text", test.writers) /\ test_itest_fifo_text_writer(p)
        \/ runs("fifo", "text", test.readers) /\ test_itest_fifo_text_reader(p)
        \/ runs("fifo", "packets", test.writers) /\ test_itest_fifo_packet_writer(p)
        \/ runs("fifo", "packets", test.readers) /\ test_itest_fifo_packet_reader(p)

-----------------------------------------------------------------------------
(* The program of init, the same in all the tests but for the children.    *)

\* The children are spawned in order; then init closes its ends of a pipe.
SpawnNext ==
  LET child == Children[step + 1]
      last  == step + 1 = Len(Children)
  IN /\ Runs(Init_pcb, "spawn")
     /\ Spawn(child)
     /\ step' = IF last THEN 0 ELSE step + 1
     /\ at' = [at EXCEPT ![child] = "setup",
                         ![Init_pcb] = IF ~last THEN "spawn"
                                       ELSE IF test.medium = "pipe" THEN "close reader" ELSE "wait"]
     /\ UNCHANGED <<test, sent, got>>

\* It waits for the children in the same order, and sleeps unless the next one
\* is a zombie already.
WaitNext ==
  /\ Runs(Init_pcb, "wait")
  /\ step < Len(Children)
  /\ \/ /\ at[Children[step + 1]] = "zombie"
        /\ Goes(Children[step + 1], "gone")
        /\ step' = step + 1
        /\ UNCHANGED sched
     \/ /\ at[Children[step + 1]] # "zombie"
        /\ Goes(Init_pcb, "waiting")
        /\ Leaves(Init_pcb)
        /\ UNCHANGED step
  /\ UnchangedIpc /\ UnchangedFifo
  /\ UNCHANGED <<test, buffer, sent, got, asleep>>

EndTest ==
  /\ Runs(Init_pcb, "wait")
  /\ step = Len(Children)
  /\ Goes(Init_pcb, "done")
  /\ UnchangedIpc /\ UnchangedFifo
  /\ UNCHANGED <<sched, test, step, buffer, sent, got, asleep>>

Parent ==
  \/ SpawnNext
  \/ Close(Init_pcb, "close reader", "RDONLY", "close writer")
  \/ Close(Init_pcb, "close writer", "WRONLY", "wait")
  \/ WaitNext
  \/ EndTest

-----------------------------------------------------------------------------
\* The sleeper is spawned and the pipe or the fifo made.
StreamInit ==
  /\ test \in Tests
  /\ running = Init_pcb
  /\ ready_list \in Orderings(Sleepers)
  /\ status = [p \in Procs |-> IF p = Init_pcb THEN "Running"
                               ELSE IF p \in Sleepers THEN "Ready" ELSE "Invalid"]
  /\ call = [p \in Procs |-> Idle]
  /\ size = 0 /\ waiting_list_read = <<>> /\ waiting_list_write = <<>> /\ panic = FALSE
  /\ fifo = (IF test.medium = "pipe" THEN "unlinked" ELSE "linked")
  /\ descriptors = (IF test.medium = "pipe" THEN PipeEnds(Init_pcb) ELSE {})
  /\ readers_number = Cardinality(Open("RDONLY"))
  /\ writers_number = Cardinality(Open("WRONLY"))
  /\ waiting_list_open_reader = <<>> /\ waiting_list_open_writer = <<>>
  /\ syscall_intermediate_data = {}
  /\ read_pos = 0 /\ write_pos = 0
  /\ buffer = [i \in 0..(SizeMax - 1) |-> <<>>]
  /\ at = [p \in Workers |-> IF p = Init_pcb THEN "spawn" ELSE "unborn"]
  /\ step = 0
  /\ sent = [w \in ToSet(Writers) |-> 0]
  /\ got = [r \in ToSet(Readers) |-> <<>>]
  /\ asleep = <<>>

StreamNext ==
  \/ \E elapsed \in SUBSET ToSet(asleep) : StreamSchedule(elapsed)
  \/ Parent
  \/ \E p \in Workers : Child(p)

\* The timer fires for ever, sleeps end, and its period leaves time for some
\* process to reach its next system call.
StreamFairness ==
  /\ WF_streamVars(StreamSchedule({}))
  /\ WF_streamVars(\E p \in ToSet(asleep) : StreamSchedule({p}))
  /\ SF_streamVars(Parent \/ \E p \in Workers : Child(p))

StreamSpec == StreamInit /\ [][StreamNext]_streamVars /\ StreamFairness

-----------------------------------------------------------------------------
(* Properties.                                                             *)

\* Descriptors, counters, waiting lists, wakeups, positions and copies together
\* are a bounded queue of bytes: every byte read is the oldest one written that
\* nobody has read yet, whoever writes and reads in between.
Bytes == INSTANCE Channel WITH
  Senders   <- ToSet(Writers),
  Receivers <- ToSet(Readers),
  Capacity  <- SizeMax,
  content   <- Content(buffer, size, SizeMax, read_pos),
  accepted  <- sent,
  delivered <- got

IsChannel == Bytes!ChannelSpec

\* The tests that depend on no schedule.  A fifo opened by several processes of
\* one side is not one: the other side may be gone before the last of them opens
\* it (it then waits for ever) or writes (it then exits with -1).
Reliable == test.medium = "pipe" \/ test.data = "text"

\* Packets arrive whole although several processes write and read them through a
\* buffer whose size is not a multiple of theirs, and no child of a reliable test
\* exits with -1.
PacketsWhole ==
  /\ Reliable => \A p \in Workers : at[p] # "failed"
  /\ test.data = "packets" =>
       \A r \in ToSet(test.readers) : \A i \in DOMAIN got[r] :
         i % PacketSize # 1 % PacketSize =>
           got[r][i] = <<got[r][i - 1][1], got[r][i - 1][2] + 1>>

\* "At the end the number of produced packet will be the same of the total
\* consumption packet" (tester_itest_pipe.c): a reliable test that ends has
\* transferred everything, and the pipe is freed.
AllDelivered ==
  Reliable /\ at[Init_pcb] = "done" =>
    /\ \A w \in ToSet(test.writers) : sent[w] = Total
    /\ UNION {ToSet(got[r]) : r \in ToSet(Readers)} = ToSet(test.writers) \X (1..Total)
    /\ descriptors = {} /\ (test.medium = "pipe" => fifo = "absent")

\* The tests of pipes end, and so does the one that sends a text through a fifo:
\* end of file reaches every reader, and every wait its child.
TestsEnd == Reliable ~> (at[Init_pcb] = "done")
================================================================================
