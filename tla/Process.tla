-------------------------------- MODULE Process --------------------------------
(***************************************************************************)
(* The processes of disastrOS: disastrOS_pcb.c, _spawn.c, _wait.c, _exit.c *)
(* and _sleep.c, with the timers of disastrOS_timer.c and the scheduler    *)
(* that wakes them.  A process is a block of the pool of PCBs; blocks are  *)
(* reused, so that a pointer to a process that is gone points to another.  *)
(*                                                                         *)
(* The first process of disastrOS_start, init, has block 0.  It may have   *)
(* spawned tester_aux_sleeper, as all the tests do, which never makes a    *)
(* system call.  A system call runs to completion and is one action.       *)
(***************************************************************************)
EXTENDS PoolAllocator, Lists, FiniteSets, SequencesExt

CONSTANTS
  NumPCBs,      \* MAX_NUM_PROCESSES: the blocks of the pools of PCBs and of pointers
  LastPid,      \* bound: spawn is not called once this pid has been given
  SleepTimes,   \* the numbers of ticks processes sleep for
  Orphans       \* may a process exit while it has children?

ASSUME PoolAssumption == NumPCBs \in Nat /\ NumPCBs > 1
ASSUME SleepAssumption == LastPid \in Nat \ {0} /\ SleepTimes \subseteq Nat /\ Orphans \in BOOLEAN

VARIABLES
  pool,          \* _pcb_allocator
  ptrs,          \* _pcb_ptr_allocator: the number of free blocks
  pcb,           \* the PCB in each block of the pool
  last_pid,      \* the next pid
  running, ready_list, waiting_list, zombie_list,
  timer_list,    \* [pcb, left]: awakening_time - disastrOS_time
  sleeper,       \* the process that runs tester_aux_sleeper, or NoPcb
  panic          \* the kernel dereferenced a null pointer

lists == <<running, ready_list, waiting_list, zombie_list>>
vars == <<pool, ptrs, pcb, last_pid, lists, timer_list, sleeper, panic>>

Blocks == 0..(NumPCBs - 1)
Init_pcb == 0
NoPcb == -1

\* What a process that calls wait asks for: a pid, or AnyPid.  It stands for
\* syscall_num and syscall_args[0], which count only while the process waits.
AnyPid == 0
NoWait == -1

-----------------------------------------------------------------------------
(* Timers and the scheduler.                                               *)

\* TimerList_add: before the first timer that elapses later.
TimerList_add_Front(timers, wake, p) == <<[pcb |-> p, left |-> wake]>> \o timers
PlaceFor(timers, wake) ==
  LET later == SelectInSeq(timers, LAMBDA t : t.left > wake)
  IN IF later = 0 THEN Len(timers) + 1 ELSE later

TimerList_add(timers, wake, p) ==
  InsertAt(timers, PlaceFor(timers, wake), [pcb |-> p, left |-> wake])

\* The loop of internal_schedule over TimerList_current: the timers at the
\* front of the list that have elapsed.
Elapsed(timers) ==
  LET n == CHOOSE n \in 0..Len(timers) :
             /\ \A i \in 1..n : timers[i].left <= 0
             /\ n < Len(timers) => timers[n + 1].left > 0
  IN [i \in 1..n |-> timers[i].pcb]

\* The running process goes behind the ones that are ready, whose head runs.
Rotated_Dropped(queue) == Tail(queue)
Rotated(queue) == Append(Tail(queue), running)

\* internal_schedule: wake, then rotate.
Schedule(timers) ==
  LET woken == Elapsed(timers)
      queue == ready_list \o woken
      ready == [b \in Blocks |->
                  IF b \in ToSet(woken) THEN [pcb[b] EXCEPT !.status = "Ready"] ELSE pcb[b]]
  IN /\ timer_list' = SubSeq(timers, Len(woken) + 1, Len(timers))
     /\ waiting_list' = Without(waiting_list, ToSet(woken))
     /\ IF queue = <<>>
        THEN UNCHANGED <<running, ready_list>> /\ pcb' = ready
        ELSE /\ running' = Head(queue)
             /\ ready_list' = Rotated(queue)
             /\ pcb' = [ready EXCEPT ![running].status = "Ready",
                                     ![Head(queue)].status = "Running"]
     /\ UNCHANGED <<pool, ptrs, last_pid, zombie_list, sleeper, panic>>

Ticked_Lost(timers) == timers
Ticked(timers) == [i \in DOMAIN timers |-> [timers[i] EXCEPT !.left = @ - 1]]

timerInterrupt == ~panic /\ Schedule(Ticked(timer_list))
internal_preempt == ~panic /\ Schedule(timer_list)

-----------------------------------------------------------------------------
(* System calls of the running process p.                                  *)

Dies == panic' = TRUE /\ UNCHANGED <<pool, ptrs, pcb, last_pid, lists, timer_list, sleeper>>

Issues(p) == ~panic /\ running = p /\ p # sleeper

\* What anybody could still read in a free PCB: its last status.
Garbage ==
  [pid |-> NoPcb, status |-> "Zombie", parent |-> NoPcb, children |-> <<>>, waits |-> NoWait]

\* PCB_alloc, as far as the tables are concerned.
Created_ByInit(parent) ==
  [pid |-> last_pid, status |-> "Ready", parent |-> Init_pcb, children |-> <<>>, waits |-> NoWait]

Created(parent) ==
  [pid |-> last_pid, status |-> "Ready", parent |-> parent, children |-> <<>>, waits |-> NoWait]

\* internal_spawn, and internal_spawn_withfd but for the descriptors.
\* PCB_alloc and PCBPtr_alloc write through the null pointer of an empty pool.
internal_spawn(p) ==
  /\ Issues(p)
  /\ last_pid <= LastPid
  /\ \/ /\ NoBlock(pool) \/ ptrs = 0
        /\ Dies
     \/ /\ ~NoBlock(pool) /\ ptrs > 0
        /\ pool' = BlockTaken(pool)
        /\ ptrs' = ptrs - 1
        /\ pcb' = [pcb EXCEPT ![Block(pool)] = Created(p),
                              ![p].children = Append(@, Block(pool))]
        /\ last_pid' = last_pid + 1
        /\ ready_list' = Append(ready_list, Block(pool))
        /\ UNCHANGED <<running, waiting_list, zombie_list, timer_list, sleeper, panic>>

\* The child internal_wait stops at: the first zombie, or the one with the pid
\* asked for; when there is none the scan ends at the last child.
Awaited(p, pid) ==
  LET found(b) == IF pid = AnyPid THEN pcb[b].status = "Zombie" ELSE pcb[b].pid = pid
      first == SelectInSeq(pcb[p].children, found)
  IN IF first # 0 THEN pcb[p].children[first] ELSE Last(pcb[p].children)

\* The zombie z is reaped by p.
Reap(p, z) ==
  /\ pcb' = [pcb EXCEPT ![p].children = Without(@, {z}), ![z] = Garbage]
  /\ ptrs' = ptrs + 1
  /\ zombie_list' = Without(zombie_list, {z})
  /\ pool' = Released(pool, z)
  /\ UNCHANGED <<last_pid, running, ready_list, waiting_list, timer_list, sleeper, panic>>

\* p leaves the cpu to the head of the ready list, whose status is not set.
Sleep_Undetached(p, why) ==
  /\ waiting_list' = Append(waiting_list, p)
  /\ running' = Head(ready_list)
  /\ pcb' = [pcb EXCEPT ![p].status = "Waiting", ![p].waits = why]
  /\ UNCHANGED <<pool, ptrs, last_pid, ready_list, zombie_list, sleeper, panic>>

Sleep(p, why) ==
  /\ waiting_list' = Append(waiting_list, p)
  /\ running' = Head(ready_list)
  /\ ready_list' = Tail(ready_list)
  /\ pcb' = [pcb EXCEPT ![p].status = "Waiting", ![p].waits = why]
  /\ UNCHANGED <<pool, ptrs, last_pid, zombie_list, sleeper, panic>>

\* The pids p may wait for: any, a child's, and one that nobody ever has.
Pids(p) == {AnyPid, LastPid + 1} \cup {pcb[c].pid : c \in ToSet(pcb[p].children)}

\* For a process without children it is DSOS_EWAIT, which changes nothing.
internal_wait(p, pid) ==
  /\ Issues(p)
  /\ pcb[p].children # <<>>
  /\ LET z == Awaited(p, pid) IN
     \/ pcb[z].status = "Zombie" /\ Reap(p, z)
     \/ pcb[z].status # "Zombie" /\ ready_list # <<>> /\ Sleep(p, pid) /\ UNCHANGED timer_list
     \/ pcb[z].status # "Zombie" /\ ready_list = <<>> /\ Dies

\* With nobody left to run, `running' becomes 0 and disastrOS_trap returns into
\* the middle of disastrOS_start: a second first process is made on the old
\* tables.  That is the end of the run, like a null pointer.
internal_sleep(p, ticks) ==
  /\ Issues(p)
  /\ \/ /\ ready_list # <<>>
        /\ timer_list' = TimerList_add(timer_list, ticks, p)
        /\ Sleep(p, NoWait)
     \/ ready_list = <<>> /\ Dies

-----------------------------------------------------------------------------
(* Exit.                                                                   *)

\* The children are handed over to init, but keep the pointer to their parent.
Reparented(p) ==
  [pcb EXCEPT ![Init_pcb].children = @ \o pcb[p].children,
              ![p].children = <<>>,
              ![p].status = "Zombie"]

\* Does p's parent sleep in a wait for it?  The parent pointer may be stale.
ParentAwaits_Exact(p) ==
  LET q == pcb[p].parent IN pcb[q].status = "Waiting" /\ pcb[q].waits = pcb[p].pid

ParentAwaits(p) ==
  LET q == pcb[p].parent
  IN pcb[q].status = "Waiting" /\ pcb[q].waits \in {AnyPid, pcb[p].pid}

\* A process that exits leaves no timer behind.
TimersReleased(p) == timer_list' = Without(timer_list, {t \in ToSet(timer_list) : t.pcb = p})

\* The parent runs at once and p's PCB is freed.  The pointer to p is detached
\* from the parent's list, but not given back to its pool.
ExitToParent(p) ==
  LET q == pcb[p].parent IN
  \/ /\ p \notin ToSet(pcb[q].children)
     /\ Dies
  \/ /\ p \in ToSet(pcb[q].children)
     /\ pcb' = [Reparented(p) EXCEPT ![q].status = "Running", ![q].waits = NoWait,
                                     ![q].children = Without(@, {p}), ![p] = Garbage]
     /\ waiting_list' = Without(waiting_list, {q})
     /\ running' = q
     /\ pool' = Released(pool, p)
     /\ TimersReleased(p)
     /\ UNCHANGED <<ptrs, last_pid, ready_list, zombie_list, sleeper, panic>>

ExitToReady(p) ==
  \/ ready_list = <<>> /\ Dies
  \/ /\ ready_list # <<>>
     /\ pcb' = [Reparented(p) EXCEPT ![Head(ready_list)].status = "Running"]
     /\ zombie_list' = Append(zombie_list, p)
     /\ running' = Head(ready_list)
     /\ ready_list' = Tail(ready_list)
     /\ TimersReleased(p)
     /\ UNCHANGED <<pool, ptrs, last_pid, waiting_list, sleeper, panic>>

\* Init never exits: it calls disastrOS_shutdown, which ends the program.
internal_exit(p) ==
  /\ Issues(p)
  /\ p # Init_pcb
  /\ Orphans \/ pcb[p].children = <<>>
  /\ \/ ParentAwaits(p) /\ ExitToParent(p)
     \/ ~ParentAwaits(p) /\ ExitToReady(p)

-----------------------------------------------------------------------------
\* disastrOS_start and, in the second case, the spawn of the sleeper by init.
FirstProcess ==
  [pid |-> 0, status |-> "Running", parent |-> NoPcb, children |-> <<>>, waits |-> NoWait]

Init ==
  /\ running = Init_pcb
  /\ waiting_list = <<>> /\ zombie_list = <<>> /\ timer_list = <<>>
  /\ panic = FALSE
  /\ \/ /\ sleeper = NoPcb
        /\ pool = BlockTaken(PoolAllocator_init(NumPCBs))
        /\ ptrs = NumPCBs
        /\ pcb = [b \in Blocks |-> IF b = Init_pcb THEN FirstProcess ELSE Garbage]
        /\ last_pid = 1
        /\ ready_list = <<>>
     \/ /\ sleeper = 1
        /\ pool = BlockTaken(BlockTaken(PoolAllocator_init(NumPCBs)))
        /\ ptrs = NumPCBs - 1
        /\ pcb = [b \in Blocks |->
                    CASE b = Init_pcb -> [FirstProcess EXCEPT !.children = <<sleeper>>]
                      [] b = sleeper  -> [FirstProcess EXCEPT !.pid = 1, !.status = "Ready",
                                                              !.parent = Init_pcb]
                      [] OTHER        -> Garbage]
        /\ last_pid = 2
        /\ ready_list = <<sleeper>>

Next ==
  \/ timerInterrupt
  \/ internal_preempt
  \/ \E p \in Blocks :
       \/ internal_spawn(p)
       \/ \E pid \in Pids(p) : internal_wait(p, pid)
       \/ \E n \in SleepTimes : internal_sleep(p, n)
       \/ internal_exit(p)

Spec == Init /\ [][Next]_vars

\* The interval timer of setupSignals fires for ever.
FairSpec == Spec /\ WF_vars(timerInterrupt)

-----------------------------------------------------------------------------
(* Properties.                                                             *)

InUse == Detached(pool)

\* Every variable has its type; the pool's free list is a list of its free blocks.
ProcessTypeOK ==
  /\ InUse \subseteq Blocks /\ WellFormed(pool)
  /\ ptrs \in 0..NumPCBs /\ last_pid \in 1..(LastPid + 1)
  /\ pcb \in [Blocks -> [pid : NoPcb..LastPid, status : {"Running", "Ready", "Waiting", "Zombie"},
                         parent : Blocks \cup {NoPcb}, children : Seq(Blocks),
                         waits : NoWait..(LastPid + 1)]]
  /\ running \in Blocks
  /\ \A q \in {ready_list, waiting_list, zombie_list} : q \in Seq(Blocks)
  /\ timer_list \in Seq([pcb : Blocks, left : Int])
  /\ sleeper \in Blocks \cup {NoPcb} /\ panic \in BOOLEAN

\* Every PCB in use is on exactly one list, once, and nothing else is: no list
\* holds a freed PCB.  Its status tells the list, except that internal_wait and
\* internal_sleep leave the process they switch to Ready.
OnePlace ==
  LET all == <<running>> \o ready_list \o waiting_list \o zombie_list
  IN /\ IsInjective(all) /\ ToSet(all) = InUse
     /\ pcb[running].status \in {"Running", "Ready"}
     /\ \A b \in ToSet(ready_list) : pcb[b].status = "Ready"
     /\ \A b \in ToSet(waiting_list) : pcb[b].status = "Waiting"
     /\ \A b \in ToSet(zombie_list) : pcb[b].status = "Zombie"

\* The parent pointers and the lists of children agree, so that a process that
\* exits finds itself among its parent's children and no process outlives its
\* parent's PCB.
TreeConsistent ==
  \A b \in InUse :
    /\ IsInjective(pcb[b].children)
    /\ ToSet(pcb[b].children) = {c \in InUse : pcb[c].parent = b}

\* Nobody sleeps in wait for a child that has ended already: whoever ends wakes
\* its parent, in whatever order wait and exit come.
NoMissedChild ==
  \A b \in ToSet(waiting_list) : \A c \in ToSet(pcb[b].children) :
    pcb[c].status = "Zombie" => pcb[b].waits \notin {AnyPid, pcb[c].pid}

\* Timers belong to sleeping processes, one each; whoever sleeps and does not
\* wait for a child has one, in the order of time; none is overdue at a tick.
TimersServed ==
  LET owners == [i \in DOMAIN timer_list |-> timer_list[i].pcb]
  IN /\ IsInjective(owners)
     /\ ToSet(owners) = {b \in ToSet(waiting_list) : pcb[b].waits = NoWait}
     /\ \A i \in DOMAIN timer_list : timer_list[i].left >= 0

\* The kernel dies only while a pool is empty, or with everybody asleep where no
\* sleeper was started: no ready process is lost.  That it dies then is not
\* excluded.
DiesOnlyWhen ==
  panic => \/ NoBlock(pool) \/ ptrs = 0
           \/ sleeper = NoPcb /\ ready_list = <<>>

\* Whoever sleeps wakes up, unless the kernel dies.
SleepersWake ==
  \A b \in Blocks :
    (\E i \in DOMAIN timer_list : timer_list[i].pcb = b)
      ~> (panic \/ \A i \in DOMAIN timer_list : timer_list[i].pcb # b)
================================================================================
