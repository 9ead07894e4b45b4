# A TLA+ model of disastrOS

disastrOS is a teaching kernel that runs as one Linux process: its processes are
`ucontext` coroutines, its timer is `SIGALRM`, its system calls switch to a single
trap context. This repository adds POSIX-like resources to it: descriptors,
`unlink`, a blocking channel (`Ipc`), named fifos and pipes. The modules here
model that part, whose difficulty is in the order in which processes block, wake,
open and close; the processes, timers, tables and pools below it; and, above it, the
integration tests as programs that run on all of them.

## 1. The system

| component | source | state | operations |
|---|---|---|---|
| processes | `disastrOS_pcb.c`, `_spawn.c`, `_wait.c`, `_exit.c`, `_fork.c` | PCB pool, parent and children, zombie list | spawn, spawn_withfd, wait, exit |
| scheduler | `_schedule.c`, `_preempt.c` | `running`, `ready_list`, `status` | `internal_schedule`, from the timer or from preempt |
| sleep, timers | `_sleep.c`, `_timer.c` | `waiting_list`, `timer_list` | sleep, waking at each tick |
| trap | `disastrOS.c` | saved contexts, signal masks | `disastrOS_syscall`, `disastrOS_trap`, `timerHandler`, restarting wrappers |
| resources | `_resource.c`, `_syscalls_resource.c` | `resources_list`, `unlinked` | mk, open, read, write, close, unlink, destroy |
| descriptors | `_descriptor.c` | descriptors per process and per resource, two pools | `Descriptor_mk`, `_destroy`, cloning in spawn_withfd |
| Ipc | `_ipc.c` | `size`, two waiting lists | `Ipc_read`, `Ipc_write`, lock and unlock |
| Fifo | `_fifo.c` | counters, two more waiting lists, positions, buffer | mk, onopen, onclose, onclone, read, write, free |
| circular buffer | `circular_buffer.c` | the bytes and a position | read, write |
| integration tests | `tester_itest_pipe.c`, `_fifo.c` | the programs of init, writers and readers | spawn, transfer, sleep, close, exit, wait |
| lists, pools | `linked_list.c`, `pool_allocator.c` | intrusive links, free list | insert, detach; get and release a block |

How they interact. A user process calls a wrapper (`disastrOS_read`), which traps; the
trap calls `internal_read`, `Virtual_read`, and through the resource's method table
`Fifo_read`, which calls `Ipc_read` and then copies the bytes. There is one trap
context and `SIGALRM` is masked in it, so a system call runs to completion. A call
that must wait therefore cannot be suspended in the kernel: it puts its PCB on a
waiting list, makes the first ready process run, and returns `DSOS_ERESTARTNOINTR`; when
its process runs again the wrapper issues the call again from the start. Everything
the call had found out by then may have changed. That is the hard part, and these
are its consequences:

- a wakeup is only a hint: the woken process can lose the race and sleep again. The
  wakeup must then have been passed on, or data and a sleeping reader stay together
  for ever;
- a reader and a writer that open a fifo wait for each other, and the first one is in no
  counter yet when the second arrives;
- a woken opener has been counted by its waker, and is marked
  (`syscall_intermediate_data`) so as not to be counted again; much may happen
  before it runs;
- the counters of readers and writers duplicate the descriptors and decide on end of file,
  broken pipe and hangups;
- an unlinked fifo lives until its last descriptor is closed, but a process that sleeps in
  `open` has none;
- a call that has to wait when nobody is ready dereferences a null pointer;
- a block of a pool that is freed is the first to be given out again, so a stale pointer to a
  process, a descriptor or a resource names another one;
- the pools are small, and hardly any caller survives an empty one.

What makes each part correct: every PCB on one list, whose kind its status names; no
lost wakeup; no mutual wait; atomic writes up to `DSOS_PIPE_BUF` (Ipc). Openers meet,
counters agree with descriptors, a hangup reaches everybody, memory is freed only
when unused (Fifo). First in, first out, and positions that agree (buffer). A
descriptor on exactly the lists of its process and of its resource (descriptors). Every zombie can be
waited for by a live parent, every sleeper wakes (processes).

## 2. The modules

| module | what it is |
|---|---|
| `Ipc` | `disastrOS_ipc.c` with the scheduler and the restarting wrappers |
| `Fifo` | extends `Ipc` with `disastrOS_fifo.c` and the parts of resource and descriptor it needs |
| `PoolAllocator` | `pool_allocator.c`: a pool as a record, with the links of its free list |
| `Process` | PCBs, spawn, wait, exit, sleep, timers and the scheduler, on a pool of PCBs |
| `Descriptors` | descriptors, their pointers and resources, on their pools; open, close, unlink, `mkpipe`, `spawn_withfd`, exit |
| `CircularBuffer` | the two copies of `circular_buffer.c` |
| `Channel` | abstract: a bounded queue of bytes with several senders and receivers |
| `Stream` | extends `Fifo` and `CircularBuffer` with spawn, sleep, wait, exit and the programs of the integration tests; implements `Channel` |
| `Lists` | removing an item from a list, for `Process` and `Descriptors` |
| `ListProofs`, `PoolProofs` | lemmas about lists; theorems about `PoolAllocator` |
| `IpcProofs` | theorems about `Ipc` and their proofs |
| `FifoProofs`, `FifoCountProofs` | about `Fifo`: lists, positions, openers and freeing; counters and wakeups |
| `ProcessProofs` | about `Process` |
| `DescriptorProofs` | about `Descriptors` |
| `StreamProofs` | about `CircularBuffer`; that `Stream` implements `Channel`, and its packets arrive whole |
| `MCIpc`, `MCFifo`, `MCProcess`, `MCDescriptors`, `MCStream` | instances for TLC |

They overlap on purpose. `Ipc` and `Fifo` have every interleaving of arbitrary calls on one
fifo, but processes that live for ever and no bytes. `Process` has the life of
processes and nothing they do in between. `Descriptors` has many resources and every pool, but no
waiting. `Stream` joins them, bytes included, for the programs the repository has.

**Ipc and Fifo.** `running`, `ready_list`, `status`, `size`, `waiting_list_*`,
`readers_number`, `writers_number`, `read_pos`, `write_pos` are the variables of the
code. Lists are sequences of processes. `call[p]` is the wrapper a process is in: its
operation, the bytes asked for, those already written (`writted`) and the flag of the
descriptor. `syscall_intermediate_data` is the set of processes whose field is 1.
`descriptors` are those of the one fifo the model follows. `panic` is set when the
kernel dies, by a null dereference (`Crash`) or by an assertion of
`Fifo_desetter` or `Ipc_desetter`; after that nothing moves.

One system call is one action, from the trap to the switch to the next process:
`Ipc_read` and `Ipc_write` with their unlocking, `Resource_open` with `Fifo_onopen`,
`Fifo_read` and `Fifo_write`, `Resource_close` with `Fifo_onclose` and
`Resource_destroy`, `Resource_unlink`, `Fifo_mk`. `Enter`, `EnterOpen` and `EnterTransfer` are a
process calling a wrapper, and `internal_schedule` is the timer or a preempt. It
can come between any two of them, so between every wakeup and the
restart of the woken call. Calls that never wait are entered and run in
one step: with nothing in between to observe, splitting them would only add states.
A process goes on with its wrapper until the call is answered, and `Return` does not
keep the answer, since no property depends on it. Left out: the bytes, arguments out
of range, and lookups that cannot fail for a process that uses its own
descriptors. `last_fd` is abstracted to a free place. A sleeper stands for
`tester_aux_sleeper`: a process that never blocks in the kernel.

**Process.** A process is a block of the pool of PCBs, so a pointer (`parent`, an entry of
`children`, of a list or of a timer) is the index of a block, and goes stale as in the
code. `pcb[b].waits` is what the process asked `disastrOS_wait` for, the only part of the
system call's arguments that the kernel looks at later. `ptrs` counts the free
blocks of the pool of PCB pointers: their order is never observable, their number is, because
`internal_exit` loses one. A timer keeps the ticks left instead of an absolute time.
`timerInterrupt` counts a tick and schedules, `internal_preempt` only schedules; spawn, wait, sleep
and exit are one action each. `panic` is a null pointer, and also the case in which
`running` becomes 0: `disastrOS_trap` then returns into the middle of
`disastrOS_start`, which makes a second first process on the old tables. Init never
exits; it shuts down, which ends the program. Signals are set and never delivered, and left out.

**Descriptors.** `tables` is a record with the pools, what each block holds, the lists of
each process and of each resource, and `resources_list`; an action composes the operators that stand for
the functions the call goes through, in their order, failure paths included. `panic` is an assertion of
`internal_spawn_withfd`, and the roll back of `Pipe_mk`, which destroys a descriptor that is null or
was never initialised. Calls answered by an error that changes nothing are left out.
`Ipc_mk` is no action, because no system call makes a bare `Ipc`, and an open of a fifo that
would wait is in `Fifo`.

**Stream.** `test` is the test a run follows, `at[p]` the place of a process in its program,
`sent` and `got` the bytes of each process, `buffer` the circular buffer. A byte is the pair of its
writer and its number, so that a lost, repeated or swapped one shows. A process's step is a system call of `Fifo`
with the user code behind it; where a blocking call begins, the entry into its wrapper is a step of its own,
before which no timer comes: it changes only that process's `call`, so that a timer before and one after it lead
to the same states. Sleeps end in any order at a schedule, which allows more than the timers of
`Process`. Init's and the children's programs are those of the
tests, `test_itest_pipe1_init` to `pipe4` and `fifo1` to `fifo3`. A run is followed no further once a
child exits with -1.

**Channel.** `Bytes` in `Stream` instantiates it: the content is what the buffer holds from
`read_pos` on, `size` bytes around its end. Every step of `Stream` is a `Send`, a `Receive` or a stutter.

## 3. The runs

| run | expects | shows |
|---|---|---|
| `ipc_safety` | pass | on any interleaving of four processes: lists, wakeups, no mutual wait, atomic blocking writes |
| `ipc_live` | pass | with one process that never blocks: no null ready list, wakeups are served, no starvation |
| `ipc_nonblock_write` | violation | a non-blocking write below `DSOS_PIPE_BUF` is not atomic |
| `fifo_named` | pass | the life of a named fifo: opening, counting, hangup, freeing, positions |
| `fifo_pipe` | pass | a pipe: exact counters, and calls end after the peer has gone |
| `fifo_reopen` | violation | a woken opener that sleeps again is counted twice |
| `fifo_stale_intermediate` | violation | a woken opener that fails stays marked |
| `fifo_unlink_open` | violation | unlink under a sleeping opener trips an assertion |
| `process` | pass | PCBs on one list, a consistent tree, no missed child, timers in order, sleepers wake, and what the kernel dies of |
| `process_orphan` | violation | init sleeps on in wait when a child it inherited ends |
| `descriptors` | pass | lists, pools and counters agree after every call, with every pool at its limit |
| `streams` | pass | the integration tests: the kernel implements `Channel`, packets stay whole, the reliable tests end with everything delivered |

**Bounds.** In `ipc_safety`, four processes are enough for two readers and two writers,
one of each asleep and one on its way, which is where a wakeup is lost or
passed on. A capacity of 2 with counts 0 to 3 gives an empty, a partly filled
and a full channel, and writes below, at and above the capacity (the three cases
of the condition in `Ipc_write`). `ipc_live` uses three workers, so that one can
overtake another, and blocking calls only: a non-blocking one never waits.
`fifo_named` has a capacity of 3 and transfers of 2, so that transfers are partial and
positions wrap around in the middle of one; three processes with a descriptor each, so that
a second fails with `DSOS_EMFILE`; and no open starts with a counter above
`MaxCount` = 1, which bounds the drift described under *Findings* and still lets
counters reach 3. `fifo_pipe` starts from every distribution of the two ends over
three processes, with a capacity of 1 and transfers of 2, so that every write
is interrupted half way. The runs that
only look for a counterexample use two workers and a sleeper.

`process` has three PCBs. Without the sleeper they are init, a child and a grandchild, or init and two
children; with it, init, the sleeper and one block that is used again and again. No spawn
is made once pid `LastPid` = 5 has been given: by then the leak of pointers can have emptied
their pool, and a block can have had several owners. Sleeps of 0 and 2 ticks make later timers
overtake earlier ones. `Orphans` is FALSE: no process exits before its children, since the
finding of `process_orphan` (four PCBs, so that a parent, a child and the sleeper fit beside init)
breaks `NoMissedChild` otherwise.

`descriptors` has init and one other process, two descriptors per process, four in each pool, one block for
each kind of resource, one id, and no call that could give an fd above `LastFd` = 2. So a
process is at its limit, a pool runs empty, an id is reused after an unlink while
the old resource is still open, and a child inherits and exceeds its parent's
numbers. In the code the descriptor pools have `MAX_NUM_PROCESSES` blocks although
their buffers are sized for all descriptors (`disastrOS_descriptor.c:29-43`), so that empty pools are
not a matter of size only.

`streams` has two writers and two readers, one packet for each, packets of 2 bytes in a buffer of 3, so that a packet
lies across its end and a second does not fit beside the first; and a text of 7 bytes, longer than twice
the buffer, as the tests print of theirs. Whoever has sent or got `SleepRate` = 2 packets sleeps. `test_itest_fifo4_init`
is left out: with it the states nearly double, and the run takes longer than the rest together.

**Symmetry** is used for the invariants of `Ipc` and `Fifo` only, over the workers, which all
actions treat alike.

**`CHECK_DEADLOCK FALSE`.** The program may really stop: a process that waits for
bytes nobody will write sleeps for ever, the kernel dies when nobody is ready to run, and a test ends. That
it does not stop wrongly is what `NoMutualBlock`, `WakeupsServed`, `HangupWakesAll`,
`PeerGoneEndsCall`, `NoMissedChild` and `TestsEnd` are about.

**Fairness.** `FairSpec` and `PipeFairSpec` of `Ipc` and `Fifo`: weak fairness of
`internal_schedule`, because the interval timer of `setupSignals` fires for ever, and strong
fairness of each process's system call: a process that is given the cpu again and again gets to
its trap, because a wrapper is a few instructions and a slice 100 ms; it must be strong because the
timer takes the cpu away in between. No fairness makes a process start a call.
`Process`: weak fairness of `timerInterrupt` alone. `StreamSpec`: weak fairness of
the scheduler and of the end of some sleep, and strong fairness of the user steps taken
together: *some* process reaches its next call. That is weaker than fairness for each of them; that
each gets its turn follows from the ready list being first in, first out.

**Unlink.** `UnlinkDuringOpen` is FALSE in `fifo_named`: a fifo is unlinked only while
nobody is inside `open`. Without that discipline, which nothing in the code enforces,
`AssertionsHold` and `IntermediateReset` fail, as the two runs with TRUE show.

**Tests that depend on the schedule.** `Reliable` holds of the tests over a pipe and of the text over
a fifo. With several openers of one side of a fifo, the other side may have come, transferred all it
had and gone before the last of them opens, which then waits for ever, or writes,
which then exits with -1. The tests count on the schedule for what
`tester_itest_fifo.c:321` says, that as many packets are consumed as produced. `AllDelivered` and
`TestsEnd` are stated of reliable tests; `PacketsWhole` (but for the exit) and `IsChannel` of all.

## 4. Findings

1. *Non-blocking writes are not atomic.* README.txt promises atomic writes up to `PIPE_BUF`;
   `Ipc_write` transfers what fits when the descriptor is non-blocking. Blocking writes are
   atomic (`BlockingWriteAtomic`, checked and proved).
2. *Counting an opener twice.* A reader sleeps in open; a writer opens, which counts and marks the
   reader, and closes again; the reader runs, finds no writer and sleeps again, still marked. The next
   writer counts it once more. `readers_number` is then one too high for ever, and a
   writer that should get `DSOS_EPIPE` sleeps instead. `NeverUndercounts` shows that the
   error goes in this direction only, as long as no woken open fails.
3. *A mark that outlives its call.* If the restarted open fails, the mark stays, and the
   next open of that process is not counted at all.
4. *Unlink under an opener.* A process that sleeps in open has no descriptor, so unlink frees the
   fifo and the assertion on its waiting lists fails.
5. *A child nobody hears end.* `internal_exit` hands children over to init's list and leaves their parent pointer
   alone. When such a child exits, the kernel looks at the stale pointer only: init, asleep in
   wait for any child, is not woken, and the zombie stays.

Met while modelling, and visible in the model without a run of their own: wait for a pid that is no
child falls through to the last child (`disastrOS_wait.c:32-34`, `Awaited`); a parent that waits loses a
pointer block for each child it is woken by (`disastrOS_exit.c:63-64`; `disastrOS_wait.c:46-47` frees it), after
which spawn writes through a null pointer; a full pool of PCBs kills the kernel in spawn before its error is
given (`disastrOS_pcb.c:43`); when the second descriptor of a pipe cannot be made, `Pipe_mk` destroys that one,
null or never set, instead of the first (`disastrOS_fifo.c:98-103`), where `tester_utest_pipe_mk3` expects
`DSOS_EMFILE`. `DiesOnlyWhen` and `DiesOnlyFull` say when the kernel may die: they permit these deaths, and
exclude others.

A woken reader or writer that finds the bytes or the space taken sleeps again, at the end of the list, and may lose
that race every time, however fair the scheduler is. `WakeupsServed`, `ReadersNotStarved` and `WritersNotStarved` say
that a sleeper is woken and runs, not that its call ends.

## 5. The proofs

Every safety invariant of the passing runs is a theorem, for every value of the
constants that the named assumptions of the modules allow, and so is the refinement of `Channel`.
Further hypotheses stand in the theorems themselves, and below.

| module | theorem | property | hypotheses |
|---|---|---|---|
| `IpcProofs` | `TypeCorrect`, `OneList`, `WaitersInTheirCall`, `NoLostWakeup`, `AtomicWrites`, `NoDeadlock` | `TypeOK`, `PlacedByStatus`, `WaitersCall`, `NoLostReaderWakeup`, `BlockingWriteAtomic`, `NoMutualBlock` | |
| | `SleeperPreventsPanic` | `NoPanic` | a sleeper |
| `FifoProofs` | `FifoTypeCorrect`, `FifoOneList`, `OpenersNeverWaitForEachOther`, `OpenersAreReleased`, `FreedOnlyUnused`, `PositionsStayRight` | `FifoTypeOK`, `FifoPlaced`, `OpenersMeet`, `OpenersReleased`, `FreedUnused`, `PositionsAgree` | |
| `FifoCountProofs` | `AssertionsNeverFail` | `AssertionsHold` | no unlink under an open |
| | `IntermediateIsReset`, `CountersNeverShort`, `NobodyMissesHangup`, `FifoNoLostWakeup`, `FifoNoDeadlock` | `IntermediateReset`, `NeverUndercounts`, `HangupWakesAll`, `NoLostWriterWakeup`, `NoMutualBlock` | the same, and `PoolSuffices` |
| | `PipeCountsExact` | `CountsExact` | from `PipeInit`; room for both ends; no open |
| `ProcessProofs` | `ProcessTypeCorrect`, `ProcessOnePlace`, `ProcessTimersServed` | `ProcessTypeOK`, `OnePlace`, `TimersServed` | |
| | `ProcessTreeConsistent`, `ProcessNoMissedChild`, `ProcessDiesOnlyWhen` | `TreeConsistent`, `NoMissedChild`, `DiesOnlyWhen` | no process exits before its children |
| `DescriptorProofs` | `DescriptorsTypeCorrect`, `ListsAlwaysAgree`, `FreedExactlyWhenUnused`, `CountersAlwaysFollow`, `FdsAlwaysUnique`, `DescriptorsDiesOnlyFull` | `DescriptorsTypeOK`, `ListsAgree`, `FreedWhenUnused`, `CountersFollow`, `FdsUnique`, `DiesOnlyFull` | |
| | `NeverHalfMade` | | |
| `PoolProofs` | `TakenPool`, `ReleasedPool`, `PoolWellFormed`, `PoolCounts` | | |
| `StreamProofs` | `ReadTakesOldest`, `ReadLeavesTheRest`, `WriteAppends` | | |
| | `StreamIsChannel` | `IsChannel` | |
| | `PacketsArriveWhole`, `EverythingArrives` | `PacketsWhole`, `AllDelivered` | |

The hypotheses are what the violation runs show to be needed: unlink under an opener trips the assertion
(`fifo_unlink_open`) and, with `PoolSuffices`, a woken open that fails keeps its mark
(`fifo_stale_intermediate`); an orphan breaks the tree (`process_orphan`).

### Ipc

The inductive invariant `IInv` joins the type, `PlacedByStatus`, `WaitersCall`, the two
lost-wakeup properties and `BlockingWriteAtomic`. They need each other: that
a woken reader really is on its way to `Ipc_read` needs `WaitersCall` (who sleeps on a list is
inside the call of that list); that the reader just woken is not asleep any more needs `PlacedByStatus` (it was
on one list, once); and that a writer sleeping on an empty channel would
fit needs the done part of its request to be zero. The proof goes action by action:
`ScheduleStep`, `EnterStep`, `AnswerStep`, `CrashStep`, `SleepStep` (both locks),
`ReadBytesStep`, `WriteBytesStep`, over lemmas on sequences and their ranges, which
`ListProofs` and `IpcProofs` hold. `NoDeadlock` follows from the two lost-wakeup properties
and from `DiedWaiting`, a small invariant on the state in which the kernel dies: if the channel
holds bytes, a stuck reader is a lost wakeup, and if it is empty a stuck writer is.

### Fifo

`FifoIInv` is a conjunction of parts, each about a few variables with step lemmas of its own:
`SchedOK` (running process, ready list and statuses), `QueuesOK` (the four waiting lists together
hold exactly the processes whose status is waiting) and `CallsOK` (each of them is inside the call of
its list) make up `Core`, from which `FifoPlaced` follows: the statuses say which list, the calls which of
the four. `BytesOK` ties the two positions to `size` (`PositionsAgree`), `OpenersOK` is `OpenersMeet` and
`OpenersReleased`, `DescriptorsOK` types the descriptors and holds `FreedUnused`. None of that depends on when a fifo
is unlinked, so that these theorems hold for either value of `UnlinkDuringOpen`.

`CountIInv` adds the counters. `NeverUndercounts` has a counter stand for the
descriptors of its side *and* for the openers of that side which were woken and counted but have no
descriptor yet. That is inductive only if a woken opener finds its place when it tries again:
`OpeningOK` says that whoever sleeps or was woken in open has a free fd and a fifo that is still linked. It has
a block of the pool too if `PoolSuffices`: blocks for `MaxFds` descriptors of every worker. The
code gives the pool `MAX_NUM_PROCESSES` = 1024 blocks (`disastrOS_descriptor.c:29-43`) and each process 32 fds, so that
the hypothesis holds of up to 32 processes with full tables, or of any number that hold fewer; beyond it the mark of
finding 3 can be left behind in this way too. `AssertionsNeverFail` needs only that nobody unlinks
under an open: then nobody waits for a fifo that is not linked (`OpeningLinked`), and whoever is blocked in a transfer has its
descriptor.

The wakeups of `Ipc` are proved again for `Fifo` (`WakeupsOK`), because `Fifo` adds ways to leave the
waiting lists: a hangup wakes a whole list, end of file and broken pipe answer a woken call
without passing the wakeup on, which is harmless only because then everybody on
that list was woken (`HangupWakesAll`).

### Pools and lists

Induction over data is out of reach, but the least number with a property is not: `Least` of
`ListProofs` takes it from the well-foundedness of `<`, and `Upwards` turns it into what an
induction gives for one given set. With it `PoolAllocator` is proved although `FreeChain`, `WellFormed`'s walk along the links, is a
recursive function: `FreeList(a, q)` says that the links from the head on are the sequence `q`,
`TakenPool` and `ReleasedPool` that getBlock and releaseBlock take from and put to its front, `PoolWellFormed` that the
walk over such links is `q`. `Without` (removal from a list), `Cloned` and `Exited` are
proved about in the same way.

### Process

`ProcessInv` has ten parts. `Placed`: the running process, `ready_list`, `waiting_list` and `zombie_list` hold each block in
use once; with the pool's theorems a block just given is on none of them. `PidsOK`: pids are distinct.
`StatusesOK` ties the status of a block to its list. `TimersOK`: the processes that wait for nothing
are those with a timer, one each, in the order of their ticks. `FamiliesOK` holds whatever the orphans do: the children of
a process are blocks in use, on one list of children. `KinOK`, `MissedOK` and `DeathOK` hold without
orphans: parent and children name each other, nobody waits for a child that has ended, and
the kernel dies of the causes `DiesOnlyWhen` names only. `SleeperAwake`: the sleeper is running or ready.
With orphans `TreeConsistent` and `NoMissedChild` are false (finding 5).

### Descriptors

One call of `Descriptors` composes several functions of the code, and between them some part of the
invariant does not hold: after `Descriptor_mk` the counter is one short, after `Resource_mk` a resource
is in use that nobody has open. So the parts are stated of a value `k` of the tables, not of the
variable, and take the exception as a parameter: `CountsOff(k, r, mode, more)` (counters right but for `more` descriptors of
`r`), `HeldOK(k, rs)` (resources of `rs` are in use only when they should be), `FdsOK(k, limit)` (fds below a limit, which a clone
exceeds). Each function of the code is described by what it does to the tables (`Adds`, `Drops`, `Makes`, `Frees`,
`Unlinks`, `Recounts`, `Renumbers`) and has one lemma per part; a call is a chain of them.
`Cloned` and `Exited`, which clone or close descriptor after descriptor, keep `Whole` at every point of
their recursion.

The pools of descriptors and of pointers to them are taken from and released to in pairs, so that they are the same record at every
moment. Hence `NeverHalfMade`: the branch of `Descriptor_mk` that finds no pointer for a descriptor
and frees it while it still is on its process's list (`disastrOS_descriptor.c:70-75`) is never taken. `DescriptorsDiesOnlyFull` counts the blocks of a pool (`PoolCounts`).

### Circular buffer and Stream

`ReadTakesOldest` (a read returns the oldest bytes in order), `ReadLeavesTheRest` (what the buffer
holds from the advanced position is the rest) and `WriteAppends` (a write that fits appends its bytes and
changes nothing else) hold for every size of the buffer, every position and every length: `Wraps` and `AtPlace`
replace the remainder by a case distinction, each copy is
described byte by byte (`CopiedAt`, `OverwrittenAt`, `WrittenAt`), and two sequences with the same
bytes are the same.

`StreamIsChannel` is the refinement, for any number of writers and readers, and any sizes. Its
invariant `BytesInv` is small: `size` is within the buffer, `write_pos` is `size` places after `read_pos`, and the cells hold
bytes of writers. `StreamStep` shows that a step is one of three: a write that puts
n bytes (`WriteIsSend`), a read that takes n (`ReadIsReceive`), where n may be 0 and the step a stutter, or a step that leaves the bytes alone
(`Quiet`: `ParentQuiet`, `ChildQuiet`). It needs nothing of the scheduler, the counters or the lists:
whatever they do, no byte is lost or swapped. That all of them *arrive* does need them (`EverythingArrives`).

`PacketsArriveWhole` needs the programs. `ProgramInv` says where each process can be (`PlacesOK`, `SpawnOK`) and
that its call is that of its place (`CallsAt`); from its place follow the descriptors it has (`OwnOK`), and from these the
counters of a pipe, which are exact (`PipeCounts`). A reader of packets leaves its loop only at the end of file, when
there is no writer's descriptor any more (`EndOfFile`). So a writer that has something to write finds a reader
(`ReaderThereToWrite`): either one that is still in its loop or, when it is not born yet, init, which holds both ends until
it has spawned them all. No write is broken, then, and every transfer is of a packet or of nothing, because the buffer
holds whole packets (`PacketsOK`) and a packet fits into it. A reader gets its packet with the right bytes since the oldest bytes of
the buffer are one (`Packets`, with the arithmetic of remainders in `Shift` and `Multiples`). Opening a fifo cannot fail
because of two assumptions, which the constants of `disastrOS_constants.h` satisfy with room to spare:
`MaxFds > 1`, and `MaxDescriptors` enough for two descriptors of each process.

`EverythingArrives` adds `DeliveryInv`, which is inductive together with `BytesInv` and `ProgramInv`. `Conserved`: the
bytes sent are those read and those in the buffer, which a transfer keeps because both ends of the buffer are
those of a queue. `SentAll`: a writer leaves its loop only when it has sent everything, as no write of
a reliable test is broken or short. `Drained`: a reader leaves its own only when the buffer is empty and every
writer has left. `Collected`: init is done only after the end of each child, and `FreedAtLast`: a pipe goes with its
last descriptor. A text is sent in pieces of any length, so packets say nothing of it: `TextOK` ties the bytes sent by its one writer
to those read by its one reader, the size of the buffer and the counts of their calls. Over a fifo these two have no descriptor before
they open, and no init holds both ends for them. `Meeting` replaces it: neither is counted before both have met in open,
and from then on both counters are positive until their own process closes, also while a woken opener has
not yet run. So a text needs `SomebodyReads`, `ReaderOfPipe` covers the tests over a pipe, and for packets over
a fifo `Reliable` is false: there a reader may find the fifo gone, and nothing is claimed. Of the scheduler the proof uses only who can sleep in open
(`Meeting`): it says what holds at the end, and `TestsEnd`, a matter of fairness, that the end comes.

### Only model-checked

- *Liveness*: `WakeupsServed`, `ReadersNotStarved`, `WritersNotStarved`, `PeerGoneEndsCall`, `SleepersWake`,
  `TestsEnd`. The prover does not reach fairness.

## 6. What is left to prove

No safety invariant is left. What could still be weaker are the hypotheses of section 5: `PoolSuffices` asks for
more blocks than processes with few open files need, and could become a count of the descriptors in use.
Liveness is out of the prover's reach.

## 7. Not modelled

- *The context switch.* A timer signal inside `swapcontext` before it blocks the signal
  (`disastrOS.c:96`) needs a model of library code and of machine state; here the trap is atomic, and so is
  the handling of a timer interrupt, which is over long before the next tick, `INTERVAL` = 100 ms later.
- *`disastrOS_fork`.* The child's PCB gets no cpu context, so that nothing it does is defined.
- *Linked lists as pointers.* They are sequences; that no item is on two lists, which the links
  could not represent, is checked (`PlacedByStatus`, `FifoPlaced`, `OnePlace`, `ListsAgree`).
- *The unit tests.* They force one interleaving each by sleeping for what they hope is long enough, and assert of it
  what the modules check of all.
- *`tester_itest_resource.c`, `test_itest_fifo4_init`*: the first transfers nothing, the second is too large.
- *Memory of the programs*, such as the null byte written behind the text (`tester_itest_pipe.c:78`).
- *Printing, the log file, shutdown, headers and the build.*
