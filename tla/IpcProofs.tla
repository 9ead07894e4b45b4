------------------------------ MODULE IpcProofs ------------------------------
(***************************************************************************)
(* What holds of Ipc for every set of processes, every capacity and every  *)
(* byte count: the inductive invariant IInv of Ipc and its consequences.   *)
(***************************************************************************)
EXTENDS Ipc, ListProofs, FiniteSetTheorems

-----------------------------------------------------------------------------
(* The waiting lists.                                                      *)

\* Ipc_unlock_first_reader and _writer split a queue in two.
LEMMA UnlockSplits ==
  ASSUME NEW S, NEW q \in Seq(S), NEW k \in BOOLEAN
  PROVE  /\ Unlocked(q, k) \in Seq(S) /\ StillLocked(q, k) \in Seq(S)
         /\ Range(q) = Range(Unlocked(q, k)) \cup Range(StillLocked(q, k))
         /\ IsInjective(q) =>
              /\ IsInjective(Unlocked(q, k)) /\ IsInjective(StillLocked(q, k))
              /\ Range(Unlocked(q, k)) \cap Range(StillLocked(q, k)) = {}
         /\ k /\ q # <<>> => Head(q) \in Range(Unlocked(q, k)) /\ Head(q) \in Range(q)
<1>1. Range(<<>>) = {} /\ IsInjective(<<>>) /\ <<>> \in Seq(S)
  BY DEF Range, IsInjective
<1>2. CASE k /\ q # <<>>
  <2>1. Unlocked(q, k) = <<Head(q)>> /\ StillLocked(q, k) = Tail(q)
    BY <1>2 DEF Unlocked, StillLocked
  <2>2. Head(q) \in S
    BY <1>2, TailRange
  <2>3. /\ <<Head(q)>> \in Seq(S)
        /\ Range(<<Head(q)>>) = {Head(q)}
        /\ IsInjective(<<Head(q)>>)
    BY <2>2 DEF Range, IsInjective
  <2>4. /\ Tail(q) \in Seq(S)
        /\ Range(q) = Range(Tail(q)) \cup {Head(q)}
        /\ IsInjective(q) => IsInjective(Tail(q)) /\ Head(q) \notin Range(Tail(q))
    BY <1>2, TailRange
  <2>. QED BY <2>1, <2>3, <2>4
<1>3. CASE ~(k /\ q # <<>>)
  <2>1. Unlocked(q, k) = <<>> /\ StillLocked(q, k) = q
    BY <1>3 DEF Unlocked, StillLocked
  <2>. QED BY <1>1, <1>3, <2>1
<1>. QED BY <1>2, <1>3

\* A process that transfers bytes wakes some readers and some writers and stays
\* on the cpu: every process is still on one list.
LEMMA AwakePlaced ==
  ASSUME TypeOK, PlacedByStatus,
         NEW k1 \in BOOLEAN, NEW k2 \in BOOLEAN, NEW woken,
         \/ woken = Unlocked(waiting_list_read, k1) \o Unlocked(waiting_list_write, k2)
         \/ woken = Unlocked(waiting_list_write, k2) \o Unlocked(waiting_list_read, k1),
         waiting_list_read' = StillLocked(waiting_list_read, k1),
         waiting_list_write' = StillLocked(waiting_list_write, k2),
         Awake(woken)
  PROVE  /\ PlacedByStatus'
         /\ running' = running
         /\ ready_list' \in Seq(Procs)
         /\ waiting_list_read' \in Seq(Procs) /\ waiting_list_write' \in Seq(Procs)
         /\ status' \in [Procs -> {"Running", "Ready", "Waiting"}]
         /\ Range(waiting_list_read') \subseteq Range(waiting_list_read)
         /\ Range(waiting_list_write') \subseteq Range(waiting_list_write)
<1>. DEFINE wr == waiting_list_read
            ww == waiting_list_write
            ur == Unlocked(wr, k1)
            uw == Unlocked(ww, k2)
            lr == StillLocked(wr, k1)
            lw == StillLocked(ww, k2)
<1>1. /\ wr \in Seq(Procs) /\ ww \in Seq(Procs) /\ ready_list \in Seq(Procs)
      /\ IsInjective(wr) /\ IsInjective(ww) /\ IsInjective(ready_list)
      /\ Range(wr) \cap Range(ww) = {}
  BY DEF TypeOK, PlacedByStatus
<1>2. /\ ur \in Seq(Procs) /\ lr \in Seq(Procs)
      /\ Range(wr) = Range(ur) \cup Range(lr)
      /\ IsInjective(ur) /\ IsInjective(lr) /\ Range(ur) \cap Range(lr) = {}
  BY <1>1, UnlockSplits
<1>3. /\ uw \in Seq(Procs) /\ lw \in Seq(Procs)
      /\ Range(ww) = Range(uw) \cup Range(lw)
      /\ IsInjective(uw) /\ IsInjective(lw) /\ Range(uw) \cap Range(lw) = {}
  BY <1>1, UnlockSplits
<1>. HIDE DEF ur, uw, lr, lw
<1>4. Range(ur) \cap Range(uw) = {}
  BY <1>1, <1>2, <1>3
<1>5. /\ woken \in Seq(Procs)
      /\ Range(woken) = Range(ur) \cup Range(uw)
      /\ IsInjective(woken)
  <2>1. woken = ur \o uw \/ woken = uw \o ur
    BY DEF ur, uw
  <2>2. /\ ur \o uw \in Seq(Procs) /\ Range(ur \o uw) = Range(ur) \cup Range(uw)
        /\ IsInjective(ur \o uw)
    BY <1>2, <1>3, <1>4, ConcatRange
  <2>3. /\ uw \o ur \in Seq(Procs) /\ Range(uw \o ur) = Range(ur) \cup Range(uw)
        /\ IsInjective(uw \o ur)
    BY <1>2, <1>3, <1>4, ConcatRange
  <2>. QED BY <2>1, <2>2, <2>3
<1>6. Range(ready_list) \cap Range(woken) = {}
  <2>1. \A p \in Procs : p \in Range(woken) => status[p] = "Waiting"
    BY <1>2, <1>3, <1>5 DEF PlacedByStatus, Blocked
  <2>2. \A p \in Procs : p \in Range(ready_list) => status[p] = "Ready"
    BY DEF PlacedByStatus
  <2>3. Range(woken) \subseteq Procs
    BY <1>5, RangeOfSeq
  <2>. QED BY <2>1, <2>2, <2>3
<1>7. /\ ready_list' \in Seq(Procs)
      /\ Range(ready_list') = Range(ready_list) \cup Range(woken)
      /\ IsInjective(ready_list')
  BY <1>1, <1>5, <1>6, ConcatRange DEF Awake
<1>8. wr' = lr /\ ww' = lw /\ running' = running
  BY DEF lr, lw, Awake
<1>9. status' \in [Procs -> {"Running", "Ready", "Waiting"}]
  BY DEF TypeOK, Awake
<1>10. ASSUME NEW p \in Procs
       PROVE  /\ status'[p] = "Running" <=> p = running'
              /\ status'[p] = "Ready" <=> p \in Range(ready_list')
              /\ status'[p] = "Waiting" <=> p \in Range(wr') \cup Range(ww')
  <2>1. /\ status[p] = "Running" <=> p = running
        /\ status[p] = "Ready" <=> p \in Range(ready_list)
        /\ status[p] = "Waiting" <=> p \in Range(wr) \cup Range(ww)
    BY DEF PlacedByStatus, Blocked
  <2>2. status'[p] = IF p \in Range(woken) THEN "Ready" ELSE status[p]
    BY DEF Awake
  <2>3. CASE p \in Range(woken)
    BY <1>1, <1>2, <1>3, <1>4, <1>5, <1>7, <1>8, <2>1, <2>2, <2>3
  <2>4. CASE p \notin Range(woken)
    BY <1>2, <1>3, <1>5, <1>7, <1>8, <2>1, <2>2, <2>4
  <2>. QED BY <2>3, <2>4
<1>11. Range(wr') \cap Range(ww') = {}
  BY <1>1, <1>2, <1>3, <1>8
<1>. QED BY <1>1, <1>2, <1>3, <1>7, <1>8, <1>9, <1>10, <1>11 DEF PlacedByStatus, Blocked

\* The running process goes to sleep on one of the two lists and the head of the
\* ready list runs: every process is still on one list.
LEMMA LockPlaced ==
  ASSUME TypeOK, PlacedByStatus, ready_list # <<>>, SwitchFrom(running),
         \/ /\ waiting_list_read' = Enqueued(waiting_list_read, running)
            /\ waiting_list_write' = waiting_list_write
         \/ /\ waiting_list_write' = Enqueued(waiting_list_write, running)
            /\ waiting_list_read' = waiting_list_read
  PROVE  /\ PlacedByStatus'
         /\ running' \in Procs /\ running' # running
         /\ ready_list' \in Seq(Procs)
         /\ waiting_list_read' \in Seq(Procs) /\ waiting_list_write' \in Seq(Procs)
         /\ status' \in [Procs -> {"Running", "Ready", "Waiting"}]
         /\ Blocked' = Blocked \cup {running}
<1>1. /\ waiting_list_read \in Seq(Procs) /\ waiting_list_write \in Seq(Procs)
      /\ ready_list \in Seq(Procs) /\ running \in Procs
      /\ IsInjective(waiting_list_read) /\ IsInjective(waiting_list_write)
      /\ IsInjective(ready_list)
      /\ Range(waiting_list_read) \cap Range(waiting_list_write) = {}
      /\ status \in [Procs -> {"Running", "Ready", "Waiting"}]
  BY DEF TypeOK, PlacedByStatus
<1>2. /\ running' = Head(ready_list) /\ ready_list' = Tail(ready_list)
      /\ running' \in Procs
      /\ ready_list' \in Seq(Procs)
      /\ Range(ready_list) = Range(ready_list') \cup {running'}
      /\ IsInjective(ready_list') /\ running' \notin Range(ready_list')
  BY <1>1, TailRange DEF SwitchFrom
<1>3. running \notin Range(ready_list) /\ running \notin Blocked /\ running' # running
  BY <1>1, <1>2 DEF PlacedByStatus
<1>4. /\ waiting_list_read' \in Seq(Procs) /\ waiting_list_write' \in Seq(Procs)
      /\ IsInjective(waiting_list_read') /\ IsInjective(waiting_list_write')
      /\ Range(waiting_list_read') \cap Range(waiting_list_write') = {}
      /\ Blocked' = Blocked \cup {running}
  <2>1. CASE /\ waiting_list_read' = Enqueued(waiting_list_read, running)
             /\ waiting_list_write' = waiting_list_write
    <3>1. /\ waiting_list_read' \in Seq(Procs)
          /\ Range(waiting_list_read') = Range(waiting_list_read) \cup {running}
          /\ IsInjective(waiting_list_read')
      BY <1>1, <1>3, <2>1, AppendRange DEF Enqueued, Blocked
    <3>. QED BY <1>1, <1>3, <2>1, <3>1 DEF Blocked
  <2>2. CASE /\ waiting_list_write' = Enqueued(waiting_list_write, running)
             /\ waiting_list_read' = waiting_list_read
    <3>1. /\ waiting_list_write' \in Seq(Procs)
          /\ Range(waiting_list_write') = Range(waiting_list_write) \cup {running}
          /\ IsInjective(waiting_list_write')
      BY <1>1, <1>3, <2>2, AppendRange DEF Enqueued, Blocked
    <3>. QED BY <1>1, <1>3, <2>2, <3>1 DEF Blocked
  <2>. QED BY <2>1, <2>2
<1>5. /\ status' = [status EXCEPT ![running] = "Waiting", ![running'] = "Running"]
      /\ status' \in [Procs -> {"Running", "Ready", "Waiting"}]
  BY <1>1, <1>2 DEF SwitchFrom
<1>6. ASSUME NEW p \in Procs
      PROVE  /\ status'[p] = "Running" <=> p = running'
             /\ status'[p] = "Ready" <=> p \in Range(ready_list')
             /\ status'[p] = "Waiting" <=> p \in Blocked'
  <2>1. /\ status[p] = "Running" <=> p = running
        /\ status[p] = "Ready" <=> p \in Range(ready_list)
        /\ status[p] = "Waiting" <=> p \in Blocked
    BY DEF PlacedByStatus
  <2>2. CASE p = running
    BY <1>1, <1>2, <1>3, <1>4, <1>5, <2>2
  <2>3. CASE p = running'
    BY <1>1, <1>2, <1>3, <1>4, <1>5, <2>1, <2>3
  <2>4. CASE p # running /\ p # running'
    BY <1>1, <1>2, <1>3, <1>4, <1>5, <2>1, <2>4
  <2>. QED BY <2>2, <2>3, <2>4
<1>. QED BY <1>2, <1>3, <1>4, <1>5, <1>6 DEF PlacedByStatus

-----------------------------------------------------------------------------
(* The inductive invariant.  NoLostReaderWakeup speaks of a reader that is *)
(* awake and will read; it is kept because every process that leaves that  *)
(* set leaves the channel empty or wakes the next reader, and because who  *)
(* sleeps on the list will read when woken (WaitersCall).                  *)

IInv ==
  /\ TypeOK
  /\ PlacedByStatus
  /\ WaitersCall
  /\ NoLostReaderWakeup
  /\ NoLostWriterWakeup
  /\ BlockingWriteAtomic

\* A fresh channel satisfies the invariant.
LEMMA InitIInv == Init => IInv
<1>. SUFFICES ASSUME Init PROVE IInv
  OBVIOUS
<1>1. /\ running \in Procs
      /\ ready_list \in [1..Cardinality(Procs \ {running}) -> Procs \ {running}]
      /\ IsInjective(ready_list) /\ Range(ready_list) = Procs \ {running}
  BY DEF Init, Orderings
<1>2. Cardinality(Procs \ {running}) \in Nat
  BY ProcsAssumption, FS_Difference, FS_CardinalityType
<1>3. ready_list \in Seq(Procs)
  <2>1. ready_list \in [1..Cardinality(Procs \ {running}) -> Procs]
    BY <1>1
  <2>. QED BY <2>1, <1>2, SeqDef
<1>4. Range(<<>>) = {} /\ IsInjective(<<>>) /\ <<>> \in Seq(Procs)
  BY DEF Range, IsInjective
<1>5. Idle \in Calls /\ Idle.count = 0 /\ Idle.done = 0 /\ Idle.op = "none"
  BY DEF Idle, Calls
<1>6. TypeOK
  <2>1. status \in [Procs -> {"Running", "Ready", "Waiting"}]
    BY DEF Init
  <2>2. call \in [Procs -> Calls]
    BY <1>5 DEF Init
  <2>3. size \in 0..SizeMax
    BY SizeAssumption DEF Init
  <2>4. panic \in BOOLEAN
    BY Zenon DEF Init
  <2>. QED BY <1>1, <1>3, <1>4, <2>1, <2>2, <2>3, <2>4 DEF Init, TypeOK
<1>7. PlacedByStatus
  BY <1>1, <1>4 DEF Init, PlacedByStatus, Blocked
<1>8. WaitersCall
  BY <1>4, <1>5 DEF Init, WaitersCall, Left, Procs
<1>9. NoLostReaderWakeup /\ NoLostWriterWakeup /\ BlockingWriteAtomic
  BY <1>5 DEF Init, NoLostReaderWakeup, NoLostWriterWakeup, BlockingWriteAtomic
<1>. QED BY <1>6, <1>7, <1>8, <1>9 DEF IInv

\* The scheduler moves the running process to the ready list and one back.
LEMMA ScheduleStep == IInv /\ internal_schedule => IInv'
<1>. SUFFICES ASSUME IInv, internal_schedule PROVE IInv'
  OBVIOUS
<1>. USE DEF IInv
<1>1. /\ UNCHANGED <<call, size, waiting_list_read, waiting_list_write, panic>>
      /\ Blocked' = Blocked /\ Stuck' = Blocked /\ Stuck = Blocked
  BY DEF internal_schedule, Blocked, Stuck
<1>2. /\ running' = Head(ready_list) /\ ready_list' = Append(Tail(ready_list), running)
      /\ running \in Procs /\ running \notin Range(ready_list)
      /\ ready_list \in Seq(Procs) /\ ready_list # <<>> /\ IsInjective(ready_list)
      /\ status' = [status EXCEPT ![running] = "Ready", ![Head(ready_list)] = "Running"]
      /\ status \in [Procs -> {"Running", "Ready", "Waiting"}]
  BY DEF internal_schedule, TypeOK, PlacedByStatus
<1>3. /\ running' \in Procs /\ Tail(ready_list) \in Seq(Procs)
      /\ Range(ready_list) = Range(Tail(ready_list)) \cup {running'}
      /\ IsInjective(Tail(ready_list)) /\ running' \notin Range(Tail(ready_list))
  BY <1>2, TailRange
<1>4. /\ ready_list' \in Seq(Procs)
      /\ Range(ready_list') = Range(Tail(ready_list)) \cup {running}
      /\ IsInjective(ready_list')
  <2>. DEFINE t == Tail(ready_list)
  <2>1. t \in Seq(Procs) /\ running \in Procs /\ running \notin Range(t) /\ IsInjective(t)
    BY <1>2, <1>3
  <2>2. ready_list' = Append(t, running)
    BY <1>2
  <2>. HIDE DEF t
  <2>3. /\ Append(t, running) \in Seq(Procs)
        /\ Range(Append(t, running)) = Range(t) \cup {running}
        /\ IsInjective(Append(t, running))
    BY <2>1, AppendRange
  <2>. QED BY <2>2, <2>3 DEF t
<1>5. status' \in [Procs -> {"Running", "Ready", "Waiting"}]
  BY <1>2
<1>6. TypeOK'
  BY <1>1, <1>3, <1>4, <1>5 DEF TypeOK
<1>7. ASSUME NEW p \in Procs
      PROVE  /\ status'[p] = "Running" <=> p = running'
             /\ status'[p] = "Ready" <=> p \in Range(ready_list')
             /\ status'[p] = "Waiting" <=> p \in Blocked'
  <2>1. /\ status[p] = "Running" <=> p = running
        /\ status[p] = "Ready" <=> p \in Range(ready_list)
        /\ status[p] = "Waiting" <=> p \in Blocked
    BY DEF PlacedByStatus
  <2>2. CASE p = running
    BY <1>1, <1>2, <1>3, <1>4, <2>1, <2>2
  <2>3. CASE p = running'
    BY <1>1, <1>2, <1>3, <1>4, <2>1, <2>3
  <2>4. CASE p # running /\ p # running'
    BY <1>1, <1>2, <1>3, <1>4, <2>1, <2>4
  <2>. QED BY <2>2, <2>3, <2>4
<1>8. PlacedByStatus'
  BY <1>1, <1>4, <1>7 DEF PlacedByStatus
<1>9. WaitersCall' /\ BlockingWriteAtomic'
  BY <1>1 DEF WaitersCall, BlockingWriteAtomic, Left
<1>10. NoLostReaderWakeup' /\ NoLostWriterWakeup'
  BY <1>1 DEF NoLostReaderWakeup, NoLostWriterWakeup, About, Left
<1>. QED BY <1>6, <1>8, <1>9, <1>10

\* A process enters a wrapper.
LEMMA EnterStep == ASSUME IInv, NEW p \in Workers, Enter(p) PROVE IInv'
<1>. USE DEF IInv
<1>1. PICK op \in {"read", "write"}, n \in Counts, nb \in NonBlock :
        call' = [call EXCEPT ![p] = [op |-> op, count |-> n, done |-> 0, nonblock |-> nb]]
  BY DEF Enter
<1>2. /\ UNCHANGED <<running, ready_list, status, size, waiting_list_read, waiting_list_write, panic>>
      /\ running = p /\ call[p] = Idle /\ p \in Procs /\ p \notin Sleepers
      /\ Blocked' = Blocked /\ Stuck' = Blocked /\ Stuck = Blocked
  BY ProcsAssumption DEF Enter, sched, Procs, Blocked, Stuck
<1>3. n \in Nat /\ nb \in BOOLEAN
  BY CountsAssumption
<1>4. call \in [Procs -> Calls]
  BY DEF TypeOK
<1>5. call'[p] = [op |-> op, count |-> n, done |-> 0, nonblock |-> nb] /\ call'[p] \in Calls
  BY <1>1, <1>2, <1>3, <1>4 DEF Calls
<1>6. \A q \in Procs \ {p} : call'[q] = call[q]
  BY <1>1, <1>4
<1>7. p \notin Blocked
  BY <1>2 DEF WaitersCall, Idle, Blocked
<1>8. TypeOK'
  <2>1. call' \in [Procs -> Calls]
    BY <1>1, <1>4, <1>5
  <2>. QED BY <1>2, <2>1 DEF TypeOK
<1>9. PlacedByStatus'
  BY <1>2 DEF PlacedByStatus
<1>10. WaitersCall'
  <2>1. \A q \in Range(waiting_list_read) \cup Range(waiting_list_write) : q \in Procs \ {p}
    BY <1>7, RangeOfSeq DEF Blocked, TypeOK
  <2>2. \A q \in Procs \ {p} : Left(q)' = Left(q)
    BY <1>6 DEF Left
  <2>3. Left(p)' = n - 0
    BY <1>5 DEF Left
  <2>. QED BY <1>2, <1>3, <1>6, <2>1, <2>2, <2>3 DEF WaitersCall, Procs
<1>11. BlockingWriteAtomic'
  BY <1>2, <1>5, <1>6 DEF BlockingWriteAtomic
<1>12. NoLostReaderWakeup' /\ NoLostWriterWakeup'
  <2>1. \A o \in {"read", "write"} : p \notin About(o)
    BY <1>2 DEF About, Idle
  <2>2. \A o \in {"read", "write"} : About(o) \subseteq About(o)'
    BY <1>2, <1>6, <2>1 DEF About, Left
  <2>. QED BY <1>2, <2>2 DEF NoLostReaderWakeup, NoLostWriterWakeup
<1>. QED BY <1>8, <1>9, <1>10, <1>11, <1>12

\* A call that ends, or a write that goes on, leaves the other processes' calls
\* alone; what remains to be shown is about the caller.
LEMMA CallTyped ==
  ASSUME IInv, call' = [call EXCEPT ![running] = Idle] \/
               \E n \in Nat : call' = [call EXCEPT ![running].done = @ + n]
  PROVE  /\ call' \in [Procs -> Calls]
         /\ \A q \in Procs \ {running} : call'[q] = call[q] /\ Left(q)' = Left(q)
<1>1. call \in [Procs -> Calls] /\ running \in Procs
  BY DEF IInv, TypeOK
<1>2. Idle \in Calls
  BY DEF Idle, Calls
<1>3. CASE call' = [call EXCEPT ![running] = Idle]
  BY <1>1, <1>2, <1>3 DEF Left
<1>4. ASSUME NEW n \in Nat, call' = [call EXCEPT ![running].done = @ + n]
      PROVE  /\ call' \in [Procs -> Calls]
             /\ \A q \in Procs \ {running} : call'[q] = call[q] /\ Left(q)' = Left(q)
  <2>1. [call[running] EXCEPT !.done = @ + n] \in Calls
    BY <1>1 DEF Calls
  <2>2. call' = [call EXCEPT ![running] = [call[running] EXCEPT !.done = @ + n]]
    BY <1>1, <1>4
  <2>. QED BY <1>1, <2>1, <2>2 DEF Left
<1>. QED BY <1>3, <1>4

\* The running process is on no waiting list.
LEMMA RunningAwake ==
  ASSUME IInv
  PROVE  /\ running \in Procs /\ running \notin Blocked
         /\ Range(waiting_list_read) \subseteq Procs \ {running}
         /\ Range(waiting_list_write) \subseteq Procs \ {running}
<1>1. running \in Procs /\ running \notin Blocked
  BY DEF IInv, TypeOK, PlacedByStatus
<1>2. Blocked \subseteq Procs
  BY RangeOfSeq DEF IInv, TypeOK, Blocked
<1>. QED BY <1>1, <1>2 DEF Blocked

\* A call that is answered at once transfers nothing and wakes nobody: only an
\* empty channel answers a reader that asked for bytes, only a full one a writer.
LEMMA AnswerStep ==
  ASSUME IInv, ~panic, running \in Workers, NEW wouldBlock \in BOOLEAN,
         Answer(running, wouldBlock),
         \/ call[running].op = "read" /\ wouldBlock = (size = 0)
         \/ call[running].op = "write" /\ wouldBlock = (Free = 0)
  PROVE  IInv'
<1>. USE DEF IInv
<1>1. /\ UNCHANGED <<running, ready_list, status, size, waiting_list_read, waiting_list_write, panic>>
      /\ Blocked' = Blocked /\ Stuck' = Blocked /\ Stuck = Blocked
      /\ call' = [call EXCEPT ![running] = Idle]
  BY DEF Answer, Return, sched, Blocked, Stuck
<1>2. /\ call' \in [Procs -> Calls]
      /\ \A q \in Procs \ {running} : call'[q] = call[q] /\ Left(q)' = Left(q)
  BY <1>1, CallTyped
<1>3. /\ running \in Procs /\ running \notin Sleepers
      /\ Range(waiting_list_read) \subseteq Procs \ {running}
      /\ Range(waiting_list_write) \subseteq Procs \ {running}
  BY RunningAwake, ProcsAssumption
<1>4. /\ call'[running] = Idle /\ Left(running)' = 0
      /\ Idle.op = "none"
  BY <1>1, <1>3 DEF Left, Idle, TypeOK
<1>5. TypeOK' /\ PlacedByStatus'
  BY <1>1, <1>2 DEF TypeOK, PlacedByStatus
<1>6. WaitersCall' /\ BlockingWriteAtomic'
  <2>1. BlockingWriteAtomic'
    BY <1>1, <1>2, <1>4 DEF BlockingWriteAtomic
  <2>. QED BY <1>1, <1>2, <1>3, <1>4, <2>1 DEF WaitersCall, Procs
<1>7. \A o : About(o) \ {running} \subseteq About(o)'
  BY <1>1, <1>2 DEF About
<1>8. NoLostReaderWakeup'
  <2>1. CASE size > 0 /\ waiting_list_read # <<>>
    <3>1. running \notin About("read")
      BY <2>1, <1>1 DEF About, Answer, TypeOK
    <3>. QED BY <1>1, <1>7, <2>1, <3>1 DEF NoLostReaderWakeup
  <2>. QED BY <1>1, <2>1 DEF NoLostReaderWakeup
<1>9. NoLostWriterWakeup'
  <2>1. CASE size = 0 /\ SizeMax > 0 /\ waiting_list_write # <<>>
    <3>1. Free # 0
      BY <2>1, SizeAssumption DEF Free
    <3>2. running \notin About("write")
      BY <2>1, <3>1, <1>1 DEF About, Answer, TypeOK
    <3>. QED BY <1>1, <1>7, <2>1, <3>2 DEF NoLostWriterWakeup
  <2>. QED BY <1>1, <2>1 DEF NoLostWriterWakeup
<1>. QED BY <1>5, <1>6, <1>8, <1>9

\* The kernel dies: nothing but panic changes, and the process that died on its
\* way to sleep is no longer about to transfer anything.
LEMMA CrashStep ==
  ASSUME IInv, ~panic, Crash,
         \/ call[running].op = "read" /\ size = 0
         \/ call[running].op = "write" /\ (SizeMax > 0 => size > 0)
  PROVE  IInv'
<1>. USE DEF IInv
<1>1. /\ UNCHANGED <<running, ready_list, status, call, size, waiting_list_read, waiting_list_write>>
      /\ panic' = TRUE
      /\ Blocked' = Blocked /\ Stuck' = Blocked \cup {running} /\ Stuck = Blocked
  BY DEF Crash, sched, Blocked, Stuck
<1>2. TypeOK'
  <2>1. panic' \in BOOLEAN
    BY <1>1
  <2>. QED BY <1>1, <2>1 DEF TypeOK
<1>3. PlacedByStatus' /\ BlockingWriteAtomic'
  BY <1>1 DEF PlacedByStatus, BlockingWriteAtomic
<1>4. WaitersCall'
  BY <1>1 DEF WaitersCall, Left
<1>5. \A o : About(o) \ {running} \subseteq About(o)'
  BY <1>1 DEF About, Left
<1>6. NoLostReaderWakeup'
  <2>1. CASE call[running].op = "read" /\ size = 0
    BY <1>1, <2>1 DEF NoLostReaderWakeup
  <2>2. CASE call[running].op = "write"
    <3>1. running \notin About("read")
      BY <2>2 DEF About
    <3>. QED BY <1>1, <1>5, <3>1 DEF NoLostReaderWakeup
  <2>. QED BY <2>1, <2>2
<1>7. NoLostWriterWakeup'
  <2>1. CASE call[running].op = "write" /\ (SizeMax > 0 => size > 0)
    BY <1>1, <2>1 DEF NoLostWriterWakeup
  <2>2. CASE call[running].op = "read"
    <3>1. running \notin About("write")
      BY <2>2 DEF About
    <3>. QED BY <1>1, <1>5, <3>1 DEF NoLostWriterWakeup
  <2>. QED BY <2>1, <2>2
<1>. QED BY <1>2, <1>3, <1>4, <1>6, <1>7

\* A process goes to sleep.  A reader does so on an empty channel, a writer on
\* one that is not empty, so neither can have been the awake witness.
LEMMA SleepStep ==
  ASSUME IInv, ~panic, running \in Workers, ready_list # <<>>, SwitchFrom(running),
         UNCHANGED <<call, size, panic>>, Left(running) > 0, ~call[running].nonblock,
         \/ /\ call[running].op = "read" /\ size = 0
            /\ waiting_list_read' = Enqueued(waiting_list_read, running)
            /\ waiting_list_write' = waiting_list_write
         \/ /\ call[running].op = "write" /\ (SizeMax > 0 => size > 0)
            /\ waiting_list_write' = Enqueued(waiting_list_write, running)
            /\ waiting_list_read' = waiting_list_read
  PROVE  IInv'
<1>. USE DEF IInv
<1>1. /\ PlacedByStatus' /\ running' \in Procs /\ running' # running
      /\ ready_list' \in Seq(Procs)
      /\ waiting_list_read' \in Seq(Procs) /\ waiting_list_write' \in Seq(Procs)
      /\ status' \in [Procs -> {"Running", "Ready", "Waiting"}]
      /\ Blocked' = Blocked \cup {running}
  BY LockPlaced
<1>2. Stuck' = Blocked \cup {running} /\ Stuck = Blocked
  BY <1>1 DEF Stuck
<1>3. TypeOK'
  BY <1>1 DEF TypeOK
<1>4. BlockingWriteAtomic'
  BY DEF BlockingWriteAtomic
<1>5. WaitersCall'
  <2>1. running \in Procs /\ waiting_list_read \in Seq(Procs) /\ waiting_list_write \in Seq(Procs)
    BY DEF TypeOK
  <2>2. CASE call[running].op = "read" /\ waiting_list_read' = Enqueued(waiting_list_read, running)
             /\ waiting_list_write' = waiting_list_write
    <3>1. Range(waiting_list_read') = Range(waiting_list_read) \cup {running}
      BY <2>1, <2>2, AppendRange DEF Enqueued
    <3>. QED BY <2>2, <3>1 DEF WaitersCall, Left
  <2>3. CASE call[running].op = "write" /\ waiting_list_write' = Enqueued(waiting_list_write, running)
             /\ waiting_list_read' = waiting_list_read
    <3>1. Range(waiting_list_write') = Range(waiting_list_write) \cup {running}
      BY <2>1, <2>3, AppendRange DEF Enqueued
    <3>. QED BY <2>3, <3>1 DEF WaitersCall, Left
  <2>. QED BY <2>2, <2>3
<1>6. \A o : About(o) \ {running} \subseteq About(o)'
  BY <1>2 DEF About, Left
<1>7. NoLostReaderWakeup'
  <2>1. CASE call[running].op = "read" /\ size = 0
    BY <2>1 DEF NoLostReaderWakeup
  <2>2. CASE call[running].op = "write" /\ waiting_list_read' = waiting_list_read
    <3>1. running \notin About("read")
      BY <2>2 DEF About
    <3>. QED BY <2>2, <1>6, <3>1 DEF NoLostReaderWakeup
  <2>. QED BY <2>1, <2>2
<1>8. NoLostWriterWakeup'
  <2>1. CASE call[running].op = "write" /\ (SizeMax > 0 => size > 0)
    BY <2>1 DEF NoLostWriterWakeup
  <2>2. CASE call[running].op = "read" /\ waiting_list_write' = waiting_list_write
    <3>1. running \notin About("write")
      BY <2>2 DEF About
    <3>. QED BY <2>2, <1>6, <3>1 DEF NoLostWriterWakeup
  <2>. QED BY <2>1, <2>2
<1>. QED BY <1>1, <1>3, <1>4, <1>5, <1>7, <1>8

\* What a transfer does to everybody but the caller: who was about to act still
\* is, and a woken head of a waiting list joins them.
LEMMA TransferKeeps ==
  ASSUME IInv, ~panic, panic' = panic,
         NEW k1 \in BOOLEAN, NEW k2 \in BOOLEAN, NEW woken,
         \/ woken = Unlocked(waiting_list_read, k1) \o Unlocked(waiting_list_write, k2)
         \/ woken = Unlocked(waiting_list_write, k2) \o Unlocked(waiting_list_read, k1),
         waiting_list_read' = StillLocked(waiting_list_read, k1),
         waiting_list_write' = StillLocked(waiting_list_write, k2),
         Awake(woken),
         \A q \in Procs \ {running} : call'[q] = call[q],
         0 <= call'[running].count - call'[running].done,
         call'[running] = Idle \/ running \notin Sleepers
  PROVE  /\ PlacedByStatus' /\ WaitersCall'
         /\ running' = running
         /\ ready_list' \in Seq(Procs)
         /\ waiting_list_read' \in Seq(Procs) /\ waiting_list_write' \in Seq(Procs)
         /\ status' \in [Procs -> {"Running", "Ready", "Waiting"}]
         /\ k1 /\ waiting_list_read' # <<>> => About("read")' # {}
         /\ k2 /\ waiting_list_write' # <<>> => About("write")' # {}
<1>. USE DEF IInv
<1>1. /\ PlacedByStatus'
      /\ running' = running
      /\ ready_list' \in Seq(Procs)
      /\ waiting_list_read' \in Seq(Procs) /\ waiting_list_write' \in Seq(Procs)
      /\ status' \in [Procs -> {"Running", "Ready", "Waiting"}]
      /\ Range(waiting_list_read') \subseteq Range(waiting_list_read)
      /\ Range(waiting_list_write') \subseteq Range(waiting_list_write)
  BY AwakePlaced
<1>2. /\ running \in Procs
      /\ Range(waiting_list_read) \subseteq Procs \ {running}
      /\ Range(waiting_list_write) \subseteq Procs \ {running}
  BY RunningAwake
<1>3. WaitersCall'
  <2>1. \A q \in Procs : 0 <= call'[q].count - call'[q].done
    BY <1>2 DEF WaitersCall, Left
  <2>2. \A q \in Sleepers : call'[q] = Idle
    BY DEF WaitersCall, Procs
  <2>. QED BY <1>1, <1>2, <2>1, <2>2 DEF WaitersCall, Left
<1>4. Stuck' = Blocked'
  BY DEF Stuck
<1>5. ASSUME NEW q \in Procs, q \in Range(woken)
      PROVE  q \notin Stuck'
  <2>1. status'[q] = "Ready"
    BY <1>5 DEF Awake
  <2>2. status'[q] = "Waiting" <=> q \in Blocked'
    BY <1>1 DEF PlacedByStatus
  <2>. QED BY <1>4, <2>1, <2>2
<1>6. /\ Unlocked(waiting_list_read, k1) \in Seq(Procs)
      /\ Unlocked(waiting_list_write, k2) \in Seq(Procs)
      /\ k1 /\ waiting_list_read # <<>> =>
           /\ Head(waiting_list_read) \in Range(Unlocked(waiting_list_read, k1))
           /\ Head(waiting_list_read) \in Range(waiting_list_read)
      /\ k2 /\ waiting_list_write # <<>> =>
           /\ Head(waiting_list_write) \in Range(Unlocked(waiting_list_write, k2))
           /\ Head(waiting_list_write) \in Range(waiting_list_write)
  BY UnlockSplits DEF TypeOK
<1>7. Range(woken) = Range(Unlocked(waiting_list_read, k1)) \cup Range(Unlocked(waiting_list_write, k2))
  <2>1. Range(Unlocked(waiting_list_read, k1) \o Unlocked(waiting_list_write, k2))
          = Range(Unlocked(waiting_list_read, k1)) \cup Range(Unlocked(waiting_list_write, k2))
    BY <1>6, ConcatRange
  <2>2. Range(Unlocked(waiting_list_write, k2) \o Unlocked(waiting_list_read, k1))
          = Range(Unlocked(waiting_list_read, k1)) \cup Range(Unlocked(waiting_list_write, k2))
    BY <1>6, ConcatRange
  <2>. QED BY <2>1, <2>2
<1>8. ASSUME k1, waiting_list_read' # <<>>
      PROVE  About("read")' # {}
  <2>. DEFINE h == Head(waiting_list_read)
  <2>1. waiting_list_read # <<>>
    BY <1>8 DEF StillLocked
  <2>2. h \in Range(woken) /\ h \in Range(waiting_list_read) /\ h \in Procs \ {running}
    BY <1>2, <1>6, <1>7, <1>8, <2>1
  <2>3. call[h].op = "read" /\ Left(h) > 0
    BY <2>2 DEF WaitersCall
  <2>. HIDE DEF h
  <2>4. h \in About("read")'
    BY <1>5, <2>2, <2>3 DEF About, Left
  <2>. QED BY <2>4
<1>9. ASSUME k2, waiting_list_write' # <<>>
      PROVE  About("write")' # {}
  <2>. DEFINE h == Head(waiting_list_write)
  <2>1. waiting_list_write # <<>>
    BY <1>9 DEF StillLocked
  <2>2. h \in Range(woken) /\ h \in Range(waiting_list_write) /\ h \in Procs \ {running}
    BY <1>2, <1>6, <1>7, <1>9, <2>1
  <2>3. call[h].op = "write" /\ Left(h) > 0
    BY <2>2 DEF WaitersCall
  <2>. HIDE DEF h
  <2>4. h \in About("write")'
    BY <1>5, <2>2, <2>3 DEF About, Left
  <2>. QED BY <2>4
<1>. QED BY <1>1, <1>3, <1>8, <1>9

\* A read transfers what there is and wakes a writer, and a reader if data is left.
LEMMA ReadBytesStep ==
  ASSUME IInv, ~panic, running \in Workers, size > 0, Left(running) > 0, ReadBytes(running)
  PROVE  IInv'
<1>. USE DEF IInv
<1>. DEFINE n == IF size < Left(running) THEN size ELSE Left(running)
            more == size - n > 0
<1>1. size \in 0..SizeMax /\ SizeMax \in Nat /\ call[running] \in Calls /\ running \in Procs
  BY SizeAssumption DEF TypeOK
<1>2. Left(running) \in Int
  BY <1>1 DEF Left, Calls
<1>3. size' = size - n /\ size' \in 0..SizeMax
  BY <1>1, <1>2 DEF ReadBytes
<1>4. /\ waiting_list_write' = StillLocked(waiting_list_write, TRUE)
      /\ waiting_list_read' = StillLocked(waiting_list_read, more)
      /\ Awake(Unlocked(waiting_list_write, TRUE) \o Unlocked(waiting_list_read, more))
      /\ call' = [call EXCEPT ![running] = Idle]
      /\ panic' = panic
  BY DEF ReadBytes, MoreData, Return
<1>5. /\ call' \in [Procs -> Calls]
      /\ \A q \in Procs \ {running} : call'[q] = call[q] /\ Left(q)' = Left(q)
  BY <1>4, CallTyped
<1>6. /\ call'[running] = Idle /\ Idle.op = "none"
      /\ 0 <= call'[running].count - call'[running].done
  BY <1>1, <1>4 DEF TypeOK, Idle
<1>7. more \in BOOLEAN /\ (more <=> size' > 0)
  BY <1>3
<1>. HIDE DEF n, more
<1>8. /\ PlacedByStatus' /\ WaitersCall'
      /\ running' = running
      /\ ready_list' \in Seq(Procs)
      /\ waiting_list_read' \in Seq(Procs) /\ waiting_list_write' \in Seq(Procs)
      /\ status' \in [Procs -> {"Running", "Ready", "Waiting"}]
      /\ more /\ waiting_list_read' # <<>> => About("read")' # {}
      /\ waiting_list_write' # <<>> => About("write")' # {}
  BY <1>4, <1>5, <1>6, <1>7, TransferKeeps
<1>9. TypeOK'
  BY <1>3, <1>4, <1>5, <1>8 DEF TypeOK
<1>10. NoLostReaderWakeup' /\ NoLostWriterWakeup'
  BY <1>7, <1>8 DEF NoLostReaderWakeup, NoLostWriterWakeup
<1>11. BlockingWriteAtomic'
  BY <1>5, <1>6 DEF BlockingWriteAtomic
<1>. QED BY <1>8, <1>9, <1>10, <1>11

\* A write transfers at least one byte and wakes a reader, and a writer if space
\* is left.  A blocking one that could fit transfers everything.
LEMMA WriteBytesStep ==
  ASSUME IInv, ~panic, running \in Workers, call[running].op = "write", Left(running) > 0,
         IF call[running].nonblock THEN Free > 0 ELSE ~MustWait(running),
         WriteBytes(running)
  PROVE  IInv'
<1>. USE DEF IInv
<1>. DEFINE n == IF Free >= Left(running) THEN Left(running) ELSE Free
            more == Free - n > 0
<1>1. size \in 0..SizeMax /\ SizeMax \in Nat /\ call[running] \in Calls /\ running \in Procs
  BY SizeAssumption DEF TypeOK
<1>2. Left(running) \in Int /\ Free \in Nat /\ Free = SizeMax - size
  BY <1>1 DEF Left, Calls, Free
<1>3. Free > 0
  BY <1>2 DEF MustWait
<1>4. /\ n \in Nat /\ n > 0 /\ n <= Left(running)
      /\ size' = size + n /\ size' \in 0..SizeMax /\ size' > 0
  BY <1>1, <1>2, <1>3 DEF WriteBytes, Writable
<1>5. /\ waiting_list_write' = StillLocked(waiting_list_write, more)
      /\ waiting_list_read' = StillLocked(waiting_list_read, TRUE)
      /\ Awake(Unlocked(waiting_list_read, TRUE) \o Unlocked(waiting_list_write, more))
      /\ Written(running, n)
      /\ panic' = panic
  BY DEF WriteBytes, Writable
<1>6. /\ ~call[running].nonblock /\ call[running].count <= SizeMax => n = Left(running)
  <2>1. ASSUME ~call[running].nonblock, call[running].count <= SizeMax
        PROVE  n = Left(running)
    <3>1. call[running].done = 0
      BY <1>1, <2>1 DEF BlockingWriteAtomic
    <3>2. Left(running) <= SizeMax
      BY <1>1, <2>1, <3>1 DEF Left, Calls
    <3>. QED BY <1>1, <1>2, <2>1, <3>2 DEF MustWait
  <2>. QED BY <2>1
<1>7. /\ more \in BOOLEAN
      /\ running \notin Sleepers
  BY ProcsAssumption
<1>. HIDE DEF n, more
<1>8. /\ call' \in [Procs -> Calls]
      /\ \A q \in Procs \ {running} : call'[q] = call[q]
  <2>1. call' = [call EXCEPT ![running] = Idle] \/
        \E k \in Nat : call' = [call EXCEPT ![running].done = @ + k]
    BY <1>4, <1>5 DEF Written, Return
  <2>. QED BY <2>1, CallTyped
<1>9. /\ 0 <= call'[running].count - call'[running].done
      /\ BlockingWriteAtomic'
  <2>1. CASE n = Left(running)
    <3>1. call'[running] = Idle /\ Idle.op = "none" /\ Idle.count - Idle.done = 0
      BY <1>1, <1>5, <2>1 DEF Written, Return, TypeOK, Idle
    <3>. QED BY <1>8, <3>1 DEF BlockingWriteAtomic
  <2>2. CASE n # Left(running)
    <3>1. call'[running] = [call[running] EXCEPT !.done = @ + n]
      BY <1>1, <1>5, <2>2 DEF Written, TypeOK
    <3>2. /\ call'[running].count = call[running].count
          /\ call'[running].done = call[running].done + n
          /\ call'[running].nonblock = call[running].nonblock
      BY <1>1, <3>1 DEF Calls
    <3>3. 0 <= call'[running].count - call'[running].done
      BY <1>1, <1>4, <3>2 DEF Left, Calls
    <3>4. BlockingWriteAtomic'
      BY <1>6, <1>8, <2>2, <3>2 DEF BlockingWriteAtomic
    <3>. QED BY <3>3, <3>4
  <2>. QED BY <2>1, <2>2
<1>10. /\ PlacedByStatus' /\ WaitersCall'
       /\ running' = running
       /\ ready_list' \in Seq(Procs)
       /\ waiting_list_read' \in Seq(Procs) /\ waiting_list_write' \in Seq(Procs)
       /\ status' \in [Procs -> {"Running", "Ready", "Waiting"}]
       /\ waiting_list_read' # <<>> => About("read")' # {}
  BY <1>5, <1>7, <1>8, <1>9, TransferKeeps
<1>11. TypeOK'
  BY <1>4, <1>5, <1>8, <1>10 DEF TypeOK
<1>12. NoLostReaderWakeup' /\ NoLostWriterWakeup'
  BY <1>4, <1>10 DEF NoLostReaderWakeup, NoLostWriterWakeup
<1>. QED BY <1>9, <1>10, <1>11, <1>12

\* Ipc_read preserves the invariant.
LEMMA ReadStep ==
  ASSUME IInv, ~panic, running \in Workers, Ipc_read(running)
  PROVE  IInv'
<1>1. call[running].op = "read"
  BY DEF Ipc_read
<1>2. CASE Answer(running, size = 0)
  BY <1>1, <1>2, AnswerStep
<1>3. CASE Left(running) > 0 /\ size = 0 /\ ~call[running].nonblock /\ Ipc_lock_reader(running)
  BY <1>1, <1>3, SleepStep, CrashStep DEF Ipc_lock_reader
<1>4. CASE Left(running) > 0 /\ size > 0 /\ ReadBytes(running)
  BY <1>4, ReadBytesStep
<1>. QED BY <1>2, <1>3, <1>4 DEF Ipc_read

\* Ipc_write preserves the invariant: a writer that must wait found bytes in the
\* channel, unless the channel has no capacity at all.
LEMMA WriteStep ==
  ASSUME IInv, ~panic, running \in Workers, Ipc_write(running)
  PROVE  IInv'
<1>1. call[running].op = "write"
  BY DEF Ipc_write
<1>2. CASE Answer(running, Free = 0)
  BY <1>1, <1>2, AnswerStep
<1>3. CASE /\ Left(running) > 0 /\ ~call[running].nonblock /\ MustWait(running)
           /\ Ipc_lock_writer(running)
  <2>1. size \in 0..SizeMax /\ SizeMax \in Nat /\ Left(running) \in Int
    BY SizeAssumption DEF IInv, TypeOK, Left, Calls
  <2>2. SizeMax > 0 => size > 0
    BY <1>3, <2>1 DEF MustWait, Free
  <2>. QED BY <1>1, <1>3, <2>2, SleepStep, CrashStep DEF Ipc_lock_writer
<1>4. CASE /\ Left(running) > 0
           /\ IF call[running].nonblock THEN Free > 0 ELSE ~MustWait(running)
           /\ WriteBytes(running)
  BY <1>1, <1>4, WriteBytesStep
<1>. QED BY <1>2, <1>3, <1>4 DEF Ipc_write

-----------------------------------------------------------------------------
\* Every reachable state of the channel satisfies the invariant.
THEOREM Invariant == Spec => []IInv
<1>1. Init => IInv
  BY InitIInv
<1>2. IInv /\ [Next]_vars => IInv'
  <2>. SUFFICES ASSUME IInv, [Next]_vars PROVE IInv'
    OBVIOUS
  <2>1. CASE internal_schedule
    BY <2>1, ScheduleStep
  <2>2. ASSUME NEW p \in Workers, Enter(p)
        PROVE  IInv'
    BY <2>2, EnterStep
  <2>3. ASSUME NEW p \in Workers, Syscall(p)
        PROVE  IInv'
    BY <2>3, ReadStep, WriteStep DEF Syscall
  <2>4. CASE UNCHANGED vars
    BY <2>4 DEF vars, sched, IInv, TypeOK, PlacedByStatus, Blocked, WaitersCall, Left,
                NoLostReaderWakeup, NoLostWriterWakeup, About, Stuck, BlockingWriteAtomic
  <2>. QED BY <2>1, <2>2, <2>3, <2>4 DEF Next
<1>. QED BY <1>1, <1>2, PTL DEF Spec

\* The channel never holds more than its capacity.
THEOREM TypeCorrect == Spec => []TypeOK
<1>1. IInv => TypeOK
  BY DEF IInv
<1>. QED BY <1>1, Invariant, PTL

\* Every process is on exactly one list of the kernel, once.
THEOREM OneList == Spec => []PlacedByStatus
<1>1. IInv => PlacedByStatus
  BY DEF IInv
<1>. QED BY <1>1, Invariant, PTL

\* Whoever sleeps on a list is inside the call of that list, with bytes left to
\* transfer and a descriptor that blocks, whatever the others did since.
THEOREM WaitersInTheirCall == Spec => []WaitersCall
<1>1. IInv => WaitersCall
  BY DEF IInv
<1>. QED BY <1>1, Invariant, PTL

\* No wakeup of a reader or of a writer is ever lost.
THEOREM NoLostWakeup == Spec => [](NoLostReaderWakeup /\ NoLostWriterWakeup)
<1>1. IInv => NoLostReaderWakeup /\ NoLostWriterWakeup
  BY DEF IInv
<1>. QED BY <1>1, Invariant, PTL

\* A blocking write that could ever fit transfers all of its bytes at once.
THEOREM AtomicWrites == Spec => []BlockingWriteAtomic
<1>1. IInv => BlockingWriteAtomic
  BY DEF IInv
<1>. QED BY <1>1, Invariant, PTL

\* The kernel dies only under a reader of an empty channel or a writer of one
\* that is not empty (or has no capacity at all).
DiedWaiting ==
  panic => \/ call[running].op = "read" /\ size = 0
           \/ call[running].op = "write" /\ (SizeMax > 0 => size > 0)

LEMMA DiedWaitingInvariant == Spec => []DiedWaiting
<1>1. Init => DiedWaiting
  BY DEF Init, DiedWaiting
<1>2. TypeOK /\ DiedWaiting /\ [Next]_vars => DiedWaiting'
  <2>. SUFFICES ASSUME TypeOK, DiedWaiting, [Next]_vars PROVE DiedWaiting'
    OBVIOUS
  <2>1. CASE internal_schedule
    BY <2>1 DEF internal_schedule, DiedWaiting
  <2>2. ASSUME NEW p \in Workers, Enter(p)
        PROVE  DiedWaiting'
    BY <2>2 DEF Enter, DiedWaiting
  <2>3. ASSUME NEW p \in Workers, Syscall(p)
        PROVE  DiedWaiting'
    <3>1. running = p /\ ~panic
      BY <2>3 DEF Syscall
    <3>2. CASE Ipc_read(p)
      <4>1. CASE Answer(p, size = 0) \/ ReadBytes(p)
        BY <3>1, <4>1 DEF Answer, ReadBytes, DiedWaiting
      <4>2. CASE size = 0 /\ Ipc_lock_reader(p)
        BY <3>1, <3>2, <4>2 DEF Ipc_lock_reader, Crash, sched, Ipc_read, DiedWaiting
      <4>. QED BY <3>2, <4>1, <4>2 DEF Ipc_read
    <3>3. CASE Ipc_write(p)
      <4>1. CASE Answer(p, Free = 0) \/ WriteBytes(p)
        BY <3>1, <4>1 DEF Answer, WriteBytes, DiedWaiting
      <4>2. CASE Left(p) > 0 /\ MustWait(p) /\ Ipc_lock_writer(p)
        <5>1. /\ size \in 0..SizeMax /\ SizeMax \in Nat /\ Left(p) \in Int
              /\ p \in Procs
          BY <3>1, SizeAssumption DEF TypeOK, Left, Calls
        <5>2. SizeMax > 0 => size > 0
          BY <4>2, <5>1 DEF MustWait, Free
        <5>. QED
          BY <3>1, <3>3, <4>2, <5>2 DEF Ipc_lock_writer, Crash, sched, Ipc_write, DiedWaiting
      <4>. QED BY <3>3, <4>1, <4>2 DEF Ipc_write
    <3>. QED BY <2>3, <3>2, <3>3 DEF Syscall
  <2>4. CASE UNCHANGED vars
    BY <2>4 DEF vars, sched, DiedWaiting
  <2>. QED BY <2>1, <2>2, <2>3, <2>4 DEF Next
<1>. QED BY <1>1, <1>2, TypeCorrect, PTL DEF Spec

\* A stuck reader and a stuck writer never have nobody to free them: bytes in the
\* channel concern the reader, an empty channel the writer.
THEOREM NoDeadlock == Spec => []NoMutualBlock
<1>1. IInv /\ DiedWaiting => NoMutualBlock
  <2>. SUFFICES ASSUME IInv, DiedWaiting, SizeMax > 0, NEW r \in Stuck, NEW w \in Stuck,
                       call[r].op = "read", call[w].op = "write"
                PROVE  About("read") \cup About("write") # {}
    BY DEF NoMutualBlock
  <2>. USE DEF IInv
  <2>1. size \in Nat /\ SizeMax \in Nat
    BY SizeAssumption DEF TypeOK
  <2>2. \/ r \in Range(waiting_list_read)
        \/ panic /\ r = running
    BY DEF Stuck, Blocked, WaitersCall
  <2>3. \/ w \in Range(waiting_list_write)
        \/ panic /\ w = running
    BY DEF Stuck, Blocked, WaitersCall
  <2>4. CASE size > 0
    <3>1. r \in Range(waiting_list_read)
      BY <2>2, <2>4 DEF DiedWaiting
    <3>2. waiting_list_read # <<>>
      BY <3>1 DEF Range
    <3>. QED BY <2>4, <3>2 DEF NoLostReaderWakeup
  <2>5. CASE size = 0
    <3>1. w \in Range(waiting_list_write)
      BY <2>1, <2>3, <2>5 DEF DiedWaiting
    <3>2. waiting_list_write # <<>>
      BY <3>1 DEF Range
    <3>. QED BY <2>5, <3>2 DEF NoLostWriterWakeup
  <2>. QED BY <2>1, <2>4, <2>5
<1>. QED BY <1>1, Invariant, DiedWaitingInvariant, PTL

\* With one process that never blocks, no call finds the ready list empty: that
\* process is on no waiting list, and it is not the one that makes the call.
THEOREM SleeperPreventsPanic == ASSUME Sleepers # {} PROVE Spec => []NoPanic
<1>1. Init => NoPanic
  BY DEF Init, NoPanic
<1>2. IInv /\ NoPanic /\ [Next]_vars => NoPanic'
  <2>. SUFFICES ASSUME IInv, NoPanic, [Next]_vars PROVE NoPanic'
    OBVIOUS
  <2>1. ASSUME running \in Workers
        PROVE  ready_list # <<>>
    <3>. USE DEF IInv
    <3>1. PICK s \in Sleepers : TRUE
      OBVIOUS
    <3>2. s \in Procs /\ s # running /\ call[s] = Idle
      BY <2>1, ProcsAssumption DEF Procs, WaitersCall
    <3>3. s \notin Blocked
      BY <3>2 DEF Blocked, WaitersCall, Idle
    <3>4. s \in Range(ready_list)
      BY <3>2, <3>3 DEF PlacedByStatus, TypeOK
    <3>. QED BY <3>4 DEF Range
  <2>2. ASSUME NEW p \in Workers, Syscall(p)
        PROVE  ~Crash
    BY <2>1, <2>2 DEF Syscall, Crash
  <2>3. ASSUME NEW p \in Workers, Syscall(p)
        PROVE  panic' = panic
    BY <2>2, <2>3 DEF Syscall, Ipc_read, Ipc_write, Answer, ReadBytes, WriteBytes,
                      Ipc_lock_reader, Ipc_lock_writer
  <2>4. ASSUME ~\E p \in Workers : Syscall(p)
        PROVE  panic' = panic
    BY <2>4 DEF Next, internal_schedule, Enter, vars
  <2>. QED BY <2>3, <2>4 DEF NoPanic
<1>. QED BY <1>1, <1>2, Invariant, PTL DEF Spec

=============================================================================
