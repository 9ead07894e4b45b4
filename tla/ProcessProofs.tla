----------------------------- MODULE ProcessProofs -----------------------------
(***************************************************************************)
(* What holds of the processes for every number of PCBs, every bound on    *)
(* pids and all times to sleep: the inductive invariant ProcessInv, and    *)
(* the properties of Process that follow from it.                          *)
(***************************************************************************)
EXTENDS Process, PoolProofs, FiniteSetTheorems

-----------------------------------------------------------------------------
(* The lists of the kernel.                                                *)

\* The process run and the lists rd, wt and zb hold each process of used once.
Places(run, rd, wt, zb, used) ==
  /\ run \in Blocks
  /\ rd \in Seq(Blocks) /\ wt \in Seq(Blocks) /\ zb \in Seq(Blocks)
  /\ IsInjective(rd) /\ IsInjective(wt) /\ IsInjective(zb)
  /\ run \notin Range(rd) /\ run \notin Range(wt) /\ run \notin Range(zb)
  /\ Range(rd) \cap Range(wt) = {}
  /\ Range(rd) \cap Range(zb) = {}
  /\ Range(wt) \cap Range(zb) = {}
  /\ used = {run} \cup Range(rd) \cup Range(wt) \cup Range(zb)

\* A sequence of one block.
LEMMA OneBlock ==
  ASSUME NEW S, NEW x \in S
  PROVE  <<x>> \in Seq(S) /\ Range(<<x>>) = {x} /\ IsInjective(<<x>>)
BY DEF Range, IsInjective

\* Then the lists one after another have no repetition.
LEMMA PlacesInjective ==
  ASSUME NEW run, NEW rd, NEW wt, NEW zb, NEW used, Places(run, rd, wt, zb, used)
  PROVE  LET all == <<run>> \o rd \o wt \o zb
         IN  IsInjective(all) /\ ToSet(all) = used
<1>. DEFINE one == <<run>>
<1>1. one \in Seq(Blocks) /\ Range(one) = {run} /\ IsInjective(one)
  BY OneBlock DEF Places
<1>. HIDE DEF one
<1>2. /\ one \o rd \in Seq(Blocks) /\ Range(one \o rd) = {run} \cup Range(rd)
      /\ IsInjective(one \o rd)
  <2>1. Range(one) \cap Range(rd) = {} /\ rd \in Seq(Blocks) /\ IsInjective(rd)
    BY <1>1 DEF Places
  <2>. QED BY <1>1, <2>1, ConcatRange
<1>. DEFINE two == one \o rd
<1>3. /\ two \o wt \in Seq(Blocks) /\ Range(two \o wt) = {run} \cup Range(rd) \cup Range(wt)
      /\ IsInjective(two \o wt)
  <2>1. Range(two) \cap Range(wt) = {} /\ wt \in Seq(Blocks) /\ IsInjective(wt)
    BY <1>2 DEF Places
  <2>2. two \in Seq(Blocks) /\ IsInjective(two) /\ Range(two) = {run} \cup Range(rd)
    BY <1>2
  <2>. HIDE DEF two
  <2>. QED BY <2>1, <2>2, ConcatRange
<1>. DEFINE three == two \o wt
<1>4. Range(three \o zb) = {run} \cup Range(rd) \cup Range(wt) \cup Range(zb)
      /\ IsInjective(three \o zb)
  <2>1. Range(three) \cap Range(zb) = {} /\ zb \in Seq(Blocks) /\ IsInjective(zb)
    BY <1>3 DEF Places
  <2>2. /\ three \in Seq(Blocks) /\ IsInjective(three)
        /\ Range(three) = {run} \cup Range(rd) \cup Range(wt)
    BY <1>3
  <2>. HIDE DEF three
  <2>. QED BY <2>1, <2>2, ConcatRange
<1>. QED BY <1>4 DEF one, Places, ToSet, Range

\* Those that wake up leave the waiting list for the end of the ready list.
LEMMA PlacesWoken ==
  ASSUME NEW run, NEW rd, NEW wt, NEW zb, NEW used, Places(run, rd, wt, zb, used),
         NEW woken \in Seq(Blocks), IsInjective(woken), Range(woken) \subseteq Range(wt)
  PROVE  /\ Places(run, rd \o woken, Without(wt, Range(woken)), zb, used)
         /\ Range(rd \o woken) = Range(rd) \cup Range(woken)
         /\ Range(Without(wt, Range(woken))) = Range(wt) \ Range(woken)
<1>. DEFINE left == Without(wt, Range(woken))
<1>1. left \in Seq(Blocks) /\ Range(left) = Range(wt) \ Range(woken) /\ IsInjective(left)
  BY WithoutRange DEF Places
<1>. DEFINE queue == rd \o woken
<1>2. queue \in Seq(Blocks) /\ Range(queue) = Range(rd) \cup Range(woken) /\ IsInjective(queue)
  <2>1. rd \in Seq(Blocks) /\ IsInjective(rd) /\ Range(rd) \cap Range(woken) = {}
    BY DEF Places
  <2>. QED BY <2>1, ConcatRange
<1>. HIDE DEF left, queue
<1>3. Places(run, queue, left, zb, used)
  BY <1>1, <1>2 DEF Places
<1>. QED BY <1>1, <1>2, <1>3 DEF left, queue

\* The running process goes behind the ready ones, and their head runs.
LEMMA PlacesRotated ==
  ASSUME NEW run, NEW rd, NEW wt, NEW zb, NEW used, Places(run, rd, wt, zb, used), rd # <<>>
  PROVE  /\ Places(Head(rd), Append(Tail(rd), run), wt, zb, used)
         /\ Head(rd) \in Range(rd)
         /\ Range(Append(Tail(rd), run)) = (Range(rd) \ {Head(rd)}) \cup {run}
<1>1. /\ Head(rd) \in Blocks /\ Tail(rd) \in Seq(Blocks) /\ IsInjective(Tail(rd))
      /\ Range(rd) = Range(Tail(rd)) \cup {Head(rd)} /\ Head(rd) \notin Range(Tail(rd))
  BY TailRange DEF Places
<1>. DEFINE rest == Tail(rd)
            queue == Append(rest, run)
<1>2. run \in Blocks /\ run \notin Range(rest)
  BY <1>1 DEF Places
<1>3. /\ queue \in Seq(Blocks) /\ Range(queue) = Range(rest) \cup {run} /\ IsInjective(queue)
  <2>1. rest \in Seq(Blocks) /\ IsInjective(rest) /\ run \in Blocks /\ run \notin Range(rest)
    BY <1>1, <1>2
  <2>. HIDE DEF rest
  <2>. QED BY <2>1, AppendRange
<1>. HIDE DEF queue
<1>4. Places(Head(rd), queue, wt, zb, used)
  BY <1>1, <1>3 DEF Places
<1>. QED BY <1>1, <1>3, <1>4 DEF queue

\* The running process goes to sleep and the head of the ready list runs.
LEMMA PlacesSlept ==
  ASSUME NEW run, NEW rd, NEW wt, NEW zb, NEW used, Places(run, rd, wt, zb, used), rd # <<>>
  PROVE  /\ Places(Head(rd), Tail(rd), Append(wt, run), zb, used)
         /\ Head(rd) \in Range(rd) /\ Range(Tail(rd)) = Range(rd) \ {Head(rd)}
         /\ Range(Append(wt, run)) = Range(wt) \cup {run}
<1>1. /\ Head(rd) \in Blocks /\ Tail(rd) \in Seq(Blocks) /\ IsInjective(Tail(rd))
      /\ Range(rd) = Range(Tail(rd)) \cup {Head(rd)} /\ Head(rd) \notin Range(Tail(rd))
  BY TailRange DEF Places
<1>2. /\ Append(wt, run) \in Seq(Blocks) /\ Range(Append(wt, run)) = Range(wt) \cup {run}
      /\ IsInjective(Append(wt, run))
  BY AppendRange DEF Places
<1>. QED BY <1>1, <1>2 DEF Places

\* The running process becomes a zombie and the head of the ready list runs.
LEMMA PlacesEnded ==
  ASSUME NEW run, NEW rd, NEW wt, NEW zb, NEW used, Places(run, rd, wt, zb, used), rd # <<>>
  PROVE  /\ Places(Head(rd), Tail(rd), wt, Append(zb, run), used)
         /\ Head(rd) \in Range(rd) /\ Range(Tail(rd)) = Range(rd) \ {Head(rd)}
         /\ Range(Append(zb, run)) = Range(zb) \cup {run}
<1>1. /\ Head(rd) \in Blocks /\ Tail(rd) \in Seq(Blocks) /\ IsInjective(Tail(rd))
      /\ Range(rd) = Range(Tail(rd)) \cup {Head(rd)} /\ Head(rd) \notin Range(Tail(rd))
  BY TailRange DEF Places
<1>2. /\ Append(zb, run) \in Seq(Blocks) /\ Range(Append(zb, run)) = Range(zb) \cup {run}
      /\ IsInjective(Append(zb, run))
  BY AppendRange DEF Places
<1>. QED BY <1>1, <1>2 DEF Places

\* A new process becomes ready.
LEMMA PlacesSpawned ==
  ASSUME NEW run, NEW rd, NEW wt, NEW zb, NEW used, Places(run, rd, wt, zb, used),
         NEW b \in Blocks \ used
  PROVE  /\ Places(run, Append(rd, b), wt, zb, used \cup {b})
         /\ Range(Append(rd, b)) = Range(rd) \cup {b}
<1>1. /\ Append(rd, b) \in Seq(Blocks) /\ Range(Append(rd, b)) = Range(rd) \cup {b}
      /\ IsInjective(Append(rd, b))
  BY AppendRange DEF Places
<1>. QED BY <1>1 DEF Places

\* A zombie is reaped.
LEMMA PlacesReaped ==
  ASSUME NEW run, NEW rd, NEW wt, NEW zb, NEW used, Places(run, rd, wt, zb, used),
         NEW z \in Range(zb)
  PROVE  /\ Places(run, rd, wt, Without(zb, {z}), used \ {z})
         /\ Range(Without(zb, {z})) = Range(zb) \ {z}
<1>1. /\ Without(zb, {z}) \in Seq(Blocks) /\ Range(Without(zb, {z})) = Range(zb) \ {z}
      /\ IsInjective(Without(zb, {z}))
  BY WithoutRange DEF Places
<1>. QED BY <1>1 DEF Places

\* The running process is gone and one that slept runs.
LEMMA PlacesReturned ==
  ASSUME NEW run, NEW rd, NEW wt, NEW zb, NEW used, Places(run, rd, wt, zb, used),
         NEW q \in Range(wt)
  PROVE  Places(q, rd, Without(wt, {q}), zb, used \ {run})
<1>1. /\ Without(wt, {q}) \in Seq(Blocks) /\ Range(Without(wt, {q})) = Range(wt) \ {q}
      /\ IsInjective(Without(wt, {q}))
  BY WithoutRange DEF Places
<1>2. q \in Blocks
  BY RangeOfSeq DEF Places
<1>. QED BY <1>1, <1>2 DEF Places

-----------------------------------------------------------------------------
(* The list of timers.                                                     *)

Timer == [pcb : Blocks, left : Int]

\* The timers tl are those of the processes in owners, one each, in the order of
\* time, and none has elapsed more than before ticks ago.
Timers(tl, owners, before) ==
  /\ tl \in Seq(Timer)
  /\ \A i, j \in DOMAIN tl : tl[i].pcb = tl[j].pcb => i = j
  /\ \A i \in DOMAIN tl : tl[i].pcb \in owners
  /\ \A b \in owners : \E i \in DOMAIN tl : tl[i].pcb = b
  /\ \A i, j \in DOMAIN tl : i <= j => tl[i].left <= tl[j].left
  /\ \A i \in DOMAIN tl : tl[i].left >= before

\* A tick brings every timer one nearer.
LEMMA TickedTimers ==
  ASSUME NEW tl, NEW owners, Timers(tl, owners, 0)
  PROVE  Timers(Ticked(tl), owners, -1)
<1>. DEFINE t == Ticked(tl)
<1>1. tl \in Seq(Timer) /\ Len(tl) \in Nat /\ DOMAIN tl = 1..Len(tl)
      /\ \A i \in 1..Len(tl) : tl[i] \in Timer
  BY LenProperties, ElementOfSeq DEF Timers
<1>2. DOMAIN t = DOMAIN tl /\ \A i \in DOMAIN tl : t[i] = [tl[i] EXCEPT !.left = @ - 1]
  BY DEF Ticked
<1>3. \A i \in DOMAIN tl : t[i] \in Timer /\ t[i].pcb = tl[i].pcb /\ t[i].left = tl[i].left - 1
                           /\ tl[i].left \in Int
  BY <1>1, <1>2 DEF Timer
<1>4. t \in Seq(Timer)
  <2>1. t = [i \in 1..Len(tl) |-> t[i]]
    BY <1>1, <1>2 DEF Ticked
  <2>. HIDE DEF t
  <2>. QED BY <1>1, <1>3, <2>1, IsASeq
<1>. HIDE DEF t
<1>5. \A i, j \in DOMAIN t : i <= j => t[i].left <= t[j].left
  <2>1. ASSUME NEW i \in DOMAIN t, NEW j \in DOMAIN t, i <= j
        PROVE  t[i].left <= t[j].left
    <3>1. tl[i].left <= tl[j].left
      BY <1>2, <2>1 DEF Timers
    <3>. QED BY <1>2, <1>3, <3>1
  <2>. QED BY <2>1
<1>6. \A i \in DOMAIN t : t[i].left >= -1
  <2>1. \A i \in DOMAIN t : tl[i].left >= 0
    BY <1>2 DEF Timers
  <2>. QED BY <1>2, <1>3, <2>1
<1>7. \A b \in owners : \E i \in DOMAIN t : t[i].pcb = b
  BY <1>2, <1>3 DEF Timers
<1>8. \A i \in DOMAIN t : t[i].pcb \in owners
  BY <1>2, <1>3 DEF Timers
<1>9. \A i, j \in DOMAIN t : t[i].pcb = t[j].pcb => i = j
  BY <1>2, <1>3 DEF Timers
<1>10. Timers(t, owners, -1)
  BY <1>4, <1>5, <1>6, <1>7, <1>8, <1>9 DEF Timers
<1>. QED BY <1>10 DEF t

\* The loop of internal_schedule wakes the owners of the timers that have elapsed,
\* each once, and leaves none of them.
LEMMA ElapsedTimers ==
  ASSUME NEW tl, NEW owners, NEW before \in {-1, 0}, Timers(tl, owners, before)
  PROVE  LET woken == Elapsed(tl) IN
         /\ woken \in Seq(Blocks) /\ IsInjective(woken) /\ Range(woken) \subseteq owners
         /\ Timers(SubSeq(tl, Len(woken) + 1, Len(tl)), owners \ Range(woken), 0)
<1>. DEFINE Stop(m) == /\ \A i \in 1..m : tl[i].left <= 0
                       /\ m < Len(tl) => tl[m + 1].left > 0
            n == CHOOSE m \in 0..Len(tl) : Stop(m)
            woken == [i \in 1..n |-> tl[i].pcb]
            rest == SubSeq(tl, n + 1, Len(tl))
<1>1. /\ tl \in Seq(Timer) /\ Len(tl) \in Nat /\ DOMAIN tl = 1..Len(tl)
      /\ \A i \in 1..Len(tl) : tl[i] \in Timer
  BY LenProperties, ElementOfSeq DEF Timers
<1>2. \A i \in 1..Len(tl) : tl[i].pcb \in Blocks /\ tl[i].left \in Int
  BY <1>1 DEF Timer
<1>3. \E m \in 0..Len(tl) : Stop(m)
  <2>. DEFINE later == {i \in 1..Len(tl) : tl[i].left > 0}
  <2>1. CASE later = {}
    <3>1. Stop(Len(tl))
      BY <1>1, <1>2, <2>1
    <3>. HIDE DEF Stop
    <3>. QED BY <1>1, <3>1
  <2>2. CASE later # {}
    <3>1. PICK k \in later : \A i \in later : k <= i
      <4>1. later \in SUBSET Nat
        OBVIOUS
      <4>. HIDE DEF later
      <4>. QED BY <2>2, <4>1, Least
    <3>2. k \in 1..Len(tl) /\ k - 1 \in 0..Len(tl) /\ (k - 1) + 1 = k
      BY <1>1
    <3>3. Stop(k - 1)
      <4>1. ASSUME NEW i \in 1..(k - 1)
            PROVE  tl[i].left <= 0
        <5>1. i \in 1..Len(tl) /\ ~(k <= i)
          BY <1>1, <3>2
        <5>2. i \notin later
          BY <3>1, <5>1
        <5>. QED BY <1>2, <5>1, <5>2
      <4>2. tl[(k - 1) + 1].left > 0
        BY <3>2
      <4>. QED BY <4>1, <4>2
    <3>. HIDE DEF Stop
    <3>. QED BY <3>2, <3>3
  <2>. QED BY <2>1, <2>2
<1>4. n \in 0..Len(tl) /\ Stop(n)
  <2>. HIDE DEF Stop
  <2>. QED BY <1>3
<1>5. Elapsed(tl) = woken
  BY DEF Elapsed
<1>6. (\A i \in 1..n : tl[i].left <= 0) /\ (n < Len(tl) => tl[n + 1].left > 0)
  <2>. HIDE DEF n
  <2>. QED BY <1>4
<1>. HIDE DEF n, Stop
<1>7. woken \in Seq(Blocks) /\ Len(woken) = n /\ DOMAIN woken = 1..n
      /\ \A i \in 1..n : woken[i] = tl[i].pcb
  <2>1. \A i \in 1..n : tl[i].pcb \in Blocks
    BY <1>1, <1>2, <1>4
  <2>2. n \in Nat
    BY <1>1, <1>4
  <2>3. woken \in Seq(Blocks)
    BY <2>1, <2>2, IsASeq
  <2>4. DOMAIN woken = 1..n
    OBVIOUS
  <2>5. Len(woken) = n
    <3>1. DOMAIN woken = 1..Len(woken) /\ Len(woken) \in Nat
      BY <2>3, LenProperties
    <3>. QED BY <2>2, <2>4, <3>1
  <2>. QED BY <2>3, <2>4, <2>5
<1>8. IsInjective(woken) /\ Range(woken) \subseteq owners
  <2>1. \A i \in 1..n : i \in DOMAIN tl
    BY <1>1, <1>4
  <2>. HIDE DEF woken
  <2>2. IsInjective(woken)
    BY <1>7, <2>1 DEF IsInjective, Timers
  <2>3. Range(woken) \subseteq owners
    BY <1>7, <2>1 DEF Range, Timers
  <2>. QED BY <2>2, <2>3
<1>9. /\ rest \in Seq(Timer) /\ DOMAIN rest = 1..(Len(tl) - n)
      /\ \A i \in 1..(Len(tl) - n) : rest[i] = tl[n + i] /\ n + i \in DOMAIN tl
  <2>1. n \in Nat /\ n <= Len(tl)
    BY <1>1, <1>4
  <2>2. PICK m \in Nat : m = n + 1
    BY <2>1
  <2>3. m \in Int /\ Len(tl) \in Int /\ \A i \in m..Len(tl) : tl[i] \in Timer
    BY <1>1, <2>1, <2>2
  <2>4. /\ SubSeq(tl, m, Len(tl)) \in Seq(Timer)
        /\ Len(SubSeq(tl, m, Len(tl))) = IF m <= Len(tl) THEN Len(tl) - m + 1 ELSE 0
        /\ \A i \in 1..(Len(tl) - m + 1) : SubSeq(tl, m, Len(tl))[i] = tl[m + i - 1]
    BY <2>3, SubSeqProperties
  <2>5. rest = SubSeq(tl, m, Len(tl))
    BY <2>2
  <2>. HIDE DEF rest
  <2>6. Len(rest) = Len(tl) - n /\ Len(tl) - m + 1 = Len(tl) - n
    <3>1. Len(rest) = IF m <= Len(tl) THEN Len(tl) - m + 1 ELSE 0
      BY <2>4, <2>5
    <3>2. Len(tl) - m + 1 = Len(tl) - n /\ (m > Len(tl) => Len(tl) - n = 0)
      <4>1. Len(tl) \in Nat
        BY <1>1
      <4>. QED BY <2>1, <2>2, <4>1
    <3>3. m <= Len(tl) \/ m > Len(tl)
      BY <1>1, <2>2
    <3>. QED BY <3>1, <3>2, <3>3
  <2>7. \A i \in 1..(Len(tl) - n) : m + i - 1 = n + i /\ n + i \in DOMAIN tl
    BY <1>1, <2>1, <2>2
  <2>8. DOMAIN rest = 1..Len(rest)
    BY <2>4, <2>5, LenProperties
  <2>. QED BY <2>4, <2>5, <2>6, <2>7, <2>8
<1>10. Timers(rest, owners \ Range(woken), 0)
  <2>. HIDE DEF rest, woken
  <2>1. n \in Nat /\ Len(tl) \in Nat /\ n <= Len(tl)
    BY <1>1, <1>4
  <2>2. ASSUME NEW i \in DOMAIN rest, NEW j \in DOMAIN rest, rest[i].pcb = rest[j].pcb
        PROVE  i = j
    <3>1. n + i = n + j
      BY <1>9, <2>2 DEF Timers
    <3>. QED BY <1>9, <2>1, <3>1
  <2>3. ASSUME NEW i \in DOMAIN rest
        PROVE  rest[i].pcb \in owners \ Range(woken)
    <3>1. ASSUME NEW j \in 1..n, tl[j].pcb = tl[n + i].pcb
          PROVE  FALSE
      <4>1. j = n + i
        BY <1>1, <1>4, <1>9, <2>3, <3>1 DEF Timers
      <4>. QED BY <1>9, <2>1, <2>3, <4>1
    <3>2. tl[n + i].pcb \in owners
      BY <1>9, <2>3 DEF Timers
    <3>. QED BY <1>7, <1>9, <2>3, <3>1, <3>2 DEF Range
  <2>4. ASSUME NEW b \in owners \ Range(woken)
        PROVE  \E i \in DOMAIN rest : rest[i].pcb = b
    <3>1. PICK j \in DOMAIN tl : tl[j].pcb = b
      BY <2>4 DEF Timers
    <3>2. j \notin 1..n
      BY <1>7, <3>1 DEF Range
    <3>3. j - n \in 1..(Len(tl) - n) /\ n + (j - n) = j
      BY <1>1, <2>1, <3>2
    <3>. QED BY <1>9, <3>1, <3>3
  <2>5. ASSUME NEW i \in DOMAIN rest, NEW j \in DOMAIN rest, i <= j
        PROVE  rest[i].left <= rest[j].left
    <3>1. n + i \in DOMAIN tl /\ n + j \in DOMAIN tl /\ rest[i] = tl[n + i] /\ rest[j] = tl[n + j]
      BY <1>9, <2>5
    <3>2. n + i <= n + j
      BY <1>9, <2>1, <2>5
    <3>. QED BY <3>1, <3>2 DEF Timers
  <2>6. ASSUME NEW i \in DOMAIN rest
        PROVE  rest[i].left >= 0
    <3>1. n + 1 <= n + i /\ n < Len(tl) /\ n + 1 \in DOMAIN tl /\ n + i \in DOMAIN tl
      BY <1>1, <1>9, <2>1, <2>6
    <3>2. tl[n + 1].left <= tl[n + i].left
      BY <3>1 DEF Timers
    <3>3. tl[n + 1].left > 0 /\ tl[n + 1].left \in Int /\ tl[n + i].left \in Int
      BY <1>1, <1>2, <1>6, <3>1
    <3>. QED BY <1>9, <2>6, <3>2, <3>3
  <2>. QED BY <1>9, <2>2, <2>3, <2>4, <2>5, <2>6 DEF Timers
<1>11. n = Len(woken)
  BY <1>7
<1>. QED
  <2>1. rest = SubSeq(tl, Len(woken) + 1, Len(tl))
    BY <1>11
  <2>. HIDE DEF rest, woken
  <2>. QED BY <1>5, <1>7, <1>8, <1>10, <2>1

\* Inserting an item before the k-th of a list.
LEMMA InsertedAt ==
  ASSUME NEW S, NEW s \in Seq(S), NEW x \in S, NEW k \in 1..(Len(s) + 1)
  PROVE  /\ InsertAt(s, k, x) \in Seq(S)
         /\ DOMAIN InsertAt(s, k, x) = 1..(Len(s) + 1)
         /\ \A i \in 1..(Len(s) + 1) :
              /\ i < k => i \in DOMAIN s /\ InsertAt(s, k, x)[i] = s[i]
              /\ i = k => InsertAt(s, k, x)[i] = x
              /\ i > k => i - 1 \in DOMAIN s /\ InsertAt(s, k, x)[i] = s[i - 1]
<1>1. Len(s) \in Nat /\ DOMAIN s = 1..Len(s) /\ \A i \in 1..Len(s) : s[i] \in S
  BY LenProperties, ElementOfSeq
<1>. DEFINE a == SubSeq(s, 1, k - 1)
            one == <<x>>
            b == SubSeq(s, k, Len(s))
<1>2. a \in Seq(S) /\ Len(a) = k - 1 /\ \A i \in 1..(k - 1) : a[i] = s[i]
  <2>1. PICK m \in Nat : m = k - 1
    BY <1>1
  <2>2. m \in Int /\ 1 \in Int /\ \A i \in 1..m : s[i] \in S
    BY <1>1, <2>1
  <2>3. /\ SubSeq(s, 1, m) \in Seq(S)
        /\ Len(SubSeq(s, 1, m)) = IF 1 <= m THEN m - 1 + 1 ELSE 0
        /\ \A i \in 1..(m - 1 + 1) : SubSeq(s, 1, m)[i] = s[1 + i - 1]
    BY <2>2, SubSeqProperties
  <2>4. (IF 1 <= m THEN m - 1 + 1 ELSE 0) = m /\ m - 1 + 1 = m
        /\ \A i \in 1..m : 1 + i - 1 = i
    BY <2>1
  <2>. QED BY <2>1, <2>3, <2>4
<1>3. b \in Seq(S) /\ Len(b) = Len(s) - k + 1 /\ \A i \in 1..(Len(s) - k + 1) : b[i] = s[k + i - 1]
  <2>1. k \in Int /\ Len(s) \in Int /\ \A i \in k..Len(s) : s[i] \in S
    BY <1>1
  <2>2. /\ SubSeq(s, k, Len(s)) \in Seq(S)
        /\ Len(SubSeq(s, k, Len(s))) = IF k <= Len(s) THEN Len(s) - k + 1 ELSE 0
        /\ \A i \in 1..(Len(s) - k + 1) : SubSeq(s, k, Len(s))[i] = s[k + i - 1]
    BY <2>1, SubSeqProperties
  <2>3. (IF k <= Len(s) THEN Len(s) - k + 1 ELSE 0) = Len(s) - k + 1
    BY <1>1
  <2>. QED BY <2>2, <2>3
<1>4. one \in Seq(S) /\ Len(one) = 1 /\ one[1] = x
  OBVIOUS
<1>. HIDE DEF a, one, b
<1>. DEFINE c == a \o one
<1>5. c \in Seq(S) /\ Len(c) = k /\ \A i \in 1..k : c[i] = IF i <= k - 1 THEN a[i] ELSE one[i - (k - 1)]
  <2>1. /\ a \o one \in Seq(S) /\ Len(a \o one) = Len(a) + Len(one)
        /\ \A i \in 1..(Len(a) + Len(one)) : (a \o one)[i] = IF i <= Len(a) THEN a[i] ELSE one[i - Len(a)]
    BY <1>2, <1>4, ConcatProperties
  <2>2. Len(a) + Len(one) = k
    BY <1>1, <1>2, <1>4
  <2>. QED BY <1>2, <2>1, <2>2
<1>. HIDE DEF c
<1>. DEFINE d == c \o b
<1>6. /\ d \in Seq(S) /\ Len(d) = Len(s) + 1
      /\ \A i \in 1..(Len(s) + 1) : d[i] = IF i <= k THEN c[i] ELSE b[i - k]
  <2>1. /\ c \o b \in Seq(S) /\ Len(c \o b) = Len(c) + Len(b)
        /\ \A i \in 1..(Len(c) + Len(b)) : (c \o b)[i] = IF i <= Len(c) THEN c[i] ELSE b[i - Len(c)]
    BY <1>3, <1>5, ConcatProperties
  <2>2. Len(c) + Len(b) = Len(s) + 1
    BY <1>1, <1>3, <1>5
  <2>. QED BY <1>5, <2>1, <2>2
<1>7. InsertAt(s, k, x) = d
  BY DEF InsertAt, a, one, b, c
<1>8. DOMAIN d = 1..(Len(s) + 1)
  <2>. HIDE DEF d
  <2>. QED BY <1>6, LenProperties
<1>. HIDE DEF d
<1>9. ASSUME NEW i \in 1..(Len(s) + 1)
      PROVE  /\ i < k => i \in DOMAIN s /\ d[i] = s[i]
             /\ i = k => d[i] = x
             /\ i > k => i - 1 \in DOMAIN s /\ d[i] = s[i - 1]
  <2>1. CASE i < k
    <3>1. i \in 1..(k - 1) /\ i \in 1..k /\ i <= k /\ i <= k - 1 /\ i \in 1..Len(s)
      BY <1>1, <2>1
    <3>. QED BY <1>1, <1>2, <1>5, <1>6, <2>1, <3>1
  <2>2. CASE i = k
    <3>1. ~(i <= k - 1) /\ i - (k - 1) = 1 /\ i \in 1..k
      BY <1>1, <2>2
    <3>2. c[i] = one[1] /\ d[i] = c[i]
      BY <1>5, <1>6, <2>2, <3>1
    <3>. QED BY <1>4, <2>2, <3>2
  <2>3. CASE i > k
    <3>1. /\ i - k \in 1..(Len(s) - k + 1) /\ k + (i - k) - 1 = i - 1 /\ ~(i <= k)
          /\ i - 1 \in 1..Len(s)
      BY <1>1, <2>3
    <3>. QED BY <1>1, <1>3, <1>6, <2>3, <3>1
  <2>. QED BY <1>1, <2>1, <2>2, <2>3
<1>. QED BY <1>6, <1>7, <1>8, <1>9

\* The least number of a set of them, and where TimerList_add stops.
LEMMA FirstLater ==
  ASSUME NEW tl \in Seq(Timer), NEW wake \in Nat
  PROVE  LET k == PlaceFor(tl, wake)
         IN  /\ k \in 1..(Len(tl) + 1)
             /\ \A i \in 1..(k - 1) : i \in DOMAIN tl /\ tl[i].left <= wake
             /\ k <= Len(tl) => tl[k].left > wake
<1>. DEFINE later == {i \in 1..Len(tl) : tl[i].left > wake}
            first == IF later # {} THEN Min(later) ELSE 0
            k == IF first = 0 THEN Len(tl) + 1 ELSE first
<1>1. /\ Len(tl) \in Nat /\ DOMAIN tl = 1..Len(tl)
      /\ \A i \in 1..Len(tl) : tl[i].left \in Int
  <2>1. \A i \in 1..Len(tl) : tl[i] \in Timer
    BY ElementOfSeq
  <2>. QED BY <2>1, LenProperties DEF Timer
<1>2. PlaceFor(tl, wake) = k
  BY DEF PlaceFor, SelectInSeq
<1>3. CASE later = {}
  <2>1. k = Len(tl) + 1 /\ \A i \in 1..Len(tl) : ~(tl[i].left > wake)
    BY <1>3
  <2>. HIDE DEF k
  <2>2. \A i \in 1..(k - 1) : i \in 1..Len(tl)
    BY <1>1, <2>1
  <2>. QED BY <1>1, <1>2, <2>1, <2>2
<1>4. CASE later # {}
  <2>1. PICK m \in later : \A i \in later : m <= i
    <3>1. later \in SUBSET Nat
      OBVIOUS
    <3>. HIDE DEF later
    <3>. QED BY <1>4, <3>1, Least
  <2>2. Min(later) \in later /\ \A i \in later : Min(later) <= i
    <3>. HIDE DEF later
    <3>. QED BY <2>1 DEF Min
  <2>3. first = Min(later) /\ first \in later /\ k = first
    <3>1. first \in later /\ first = Min(later)
      BY <1>4, <2>2
    <3>. QED BY <3>1
  <2>4. k \in 1..Len(tl) /\ tl[k].left > wake /\ \A i \in later : k <= i
    BY <2>2, <2>3
  <2>. HIDE DEF k
  <2>5. \A i \in 1..(k - 1) : i \in 1..Len(tl) /\ ~(k <= i)
    BY <1>1, <2>4
  <2>6. \A i \in 1..(k - 1) : i \notin later
    BY <2>4, <2>5
  <2>7. \A i \in 1..(k - 1) : tl[i].left <= wake
    BY <1>1, <2>5, <2>6
  <2>. QED BY <1>1, <1>2, <2>4, <2>5, <2>7
<1>. QED BY <1>3, <1>4

\* TimerList_add keeps the order of time: it gives p a timer, where p had none.
LEMMA AddedTimer ==
  ASSUME NEW tl, NEW owners, Timers(tl, owners, 0), NEW p \in Blocks \ owners, NEW wake \in Nat
  PROVE  Timers(TimerList_add(tl, wake, p), owners \cup {p}, 0)
<1>. DEFINE x == [pcb |-> p, left |-> wake]
            k == PlaceFor(tl, wake)
            t == TimerList_add(tl, wake, p)
            Old(i) == IF i < k THEN i ELSE i - 1
<1>1. /\ tl \in Seq(Timer) /\ Len(tl) \in Nat /\ DOMAIN tl = 1..Len(tl)
      /\ \A i \in 1..Len(tl) : tl[i].left \in Int
  <2>1. tl \in Seq(Timer)
    BY DEF Timers
  <2>2. \A i \in 1..Len(tl) : tl[i] \in Timer
    BY <2>1, ElementOfSeq
  <2>. QED BY <2>1, <2>2, LenProperties DEF Timer
<1>2. x \in Timer /\ x.pcb = p /\ x.left = wake
  BY DEF Timer
<1>3. /\ k \in 1..(Len(tl) + 1)
      /\ \A i \in 1..(k - 1) : i \in DOMAIN tl /\ tl[i].left <= wake
      /\ k <= Len(tl) => tl[k].left > wake
  BY <1>1, FirstLater
<1>. HIDE DEF x, k
<1>4. /\ t \in Seq(Timer) /\ DOMAIN t = 1..(Len(tl) + 1)
      /\ \A i \in 1..(Len(tl) + 1) :
           /\ i < k => i \in DOMAIN tl /\ t[i] = tl[i]
           /\ i = k => t[i] = x
           /\ i > k => i - 1 \in DOMAIN tl /\ t[i] = tl[i - 1]
  <2>1. t = InsertAt(tl, k, x)
    BY DEF TimerList_add, k, x
  <2>. QED BY <1>1, <1>2, <1>3, <2>1, InsertedAt
<1>. HIDE DEF t
<1>5. ASSUME NEW i \in DOMAIN t, i # k
      PROVE  Old(i) \in DOMAIN tl /\ t[i] = tl[Old(i)] /\ t[i].pcb \in owners
  <2>1. Old(i) \in DOMAIN tl /\ t[i] = tl[Old(i)]
    BY <1>3, <1>4, <1>5
  <2>. QED BY <2>1 DEF Timers
<1>6. k \in DOMAIN t /\ t[k] = x
  BY <1>1, <1>3, <1>4
<1>7. ASSUME NEW i \in DOMAIN t, NEW j \in DOMAIN t, t[i].pcb = t[j].pcb
      PROVE  i = j
  <2>1. CASE i = k \/ j = k
    BY <1>2, <1>5, <1>6, <1>7, <2>1
  <2>2. CASE i # k /\ j # k
    <3>1. Old(i) = Old(j)
      BY <1>5, <1>7, <2>2 DEF Timers
    <3>. QED BY <1>1, <1>3, <1>4, <2>2, <3>1
  <2>. QED BY <2>1, <2>2
<1>8. \A i \in DOMAIN t : t[i].pcb \in owners \cup {p}
  BY <1>2, <1>5, <1>6
<1>9. ASSUME NEW b \in owners \cup {p}
      PROVE  \E i \in DOMAIN t : t[i].pcb = b
  <2>1. CASE b = p
    BY <1>2, <1>6, <2>1
  <2>2. CASE b \in owners
    <3>1. PICK j \in DOMAIN tl : tl[j].pcb = b
      BY <2>2 DEF Timers
    <3>2. CASE j < k
      BY <1>1, <1>4, <3>1, <3>2
    <3>3. CASE j >= k
      <4>1. j + 1 \in DOMAIN t /\ j + 1 > k /\ (j + 1) - 1 = j
        BY <1>1, <1>3, <1>4, <3>3
      <4>. QED BY <1>4, <3>1, <4>1
    <3>. QED BY <1>1, <1>3, <3>2, <3>3
  <2>. QED BY <2>1, <2>2
<1>10. ASSUME NEW i \in DOMAIN t, NEW j \in DOMAIN t, i <= j
       PROVE  t[i].left <= t[j].left
  <2>1. CASE i # k /\ j # k
    <3>1. Old(i) <= Old(j)
      BY <1>1, <1>3, <1>4, <1>10, <2>1
    <3>. HIDE DEF Old
    <3>. QED BY <1>5, <2>1, <3>1 DEF Timers
  <2>2. CASE i = k /\ j = k
    BY <1>2, <1>6, <2>2
  <2>3. CASE i # k /\ j = k
    <3>1. i \in 1..(k - 1) /\ t[i] = tl[i]
      BY <1>1, <1>3, <1>4, <1>10, <2>3
    <3>. QED BY <1>2, <1>3, <1>6, <2>3, <3>1
  <2>4. CASE i = k /\ j # k
    <3>1. j - 1 \in DOMAIN tl /\ t[j] = tl[j - 1] /\ k <= j - 1 /\ k \in DOMAIN tl /\ k <= Len(tl)
      BY <1>1, <1>3, <1>4, <1>10, <2>4
    <3>2. tl[k].left <= tl[j - 1].left
      BY <3>1 DEF Timers
    <3>3. tl[k].left > wake /\ tl[k].left \in Int /\ tl[j - 1].left \in Int
      BY <1>1, <1>3, <3>1
    <3>4. t[i].left = wake /\ t[j].left = tl[j - 1].left
      BY <1>2, <1>6, <2>4, <3>1
    <3>. QED BY <3>2, <3>3, <3>4
  <2>. QED BY <2>1, <2>2, <2>3, <2>4
<1>11. ASSUME NEW i \in DOMAIN t
       PROVE  t[i].left >= 0
  <2>1. CASE i = k
    BY <1>2, <1>6, <2>1
  <2>2. CASE i # k
    BY <1>5, <2>2 DEF Timers
  <2>. QED BY <2>1, <2>2
<1>12. Timers(t, owners \cup {p}, 0)
  BY <1>4, <1>7, <1>8, <1>9, <1>10, <1>11 DEF Timers
<1>. QED BY <1>12 DEF t

\* The scan of internal_exit finds no timer of a process that has none.
LEMMA NoTimer ==
  ASSUME NEW tl, NEW owners, Timers(tl, owners, 0), NEW p, p \notin owners
  PROVE  Without(tl, {t \in ToSet(tl) : t.pcb = p}) = tl
<1>. DEFINE gone == {t \in ToSet(tl) : t.pcb = p}
<1>1. tl \in Seq(Timer) /\ Range(tl) \cap gone = {}
  BY DEF Timers, ToSet, Range
<1>. HIDE DEF gone
<1>. QED BY <1>1, WithoutNone DEF gone

-----------------------------------------------------------------------------
(* The invariant.                                                          *)

Pcb == [pid : NoPcb..LastPid, status : {"Running", "Ready", "Waiting", "Zombie"},
        parent : Blocks \cup {NoPcb}, children : Seq(Blocks), waits : NoWait..(LastPid + 1)]

\* The pools and what their blocks hold.  No pointer block is ever made up: there
\* are as many as PCBs, and init needs none.
TablesOK ==
  /\ Pool(pool, NumPCBs)
  /\ pcb \in [Blocks -> Pcb]
  /\ last_pid \in 1..(LastPid + 1)
  /\ ptrs \in Nat /\ ptrs + Cardinality(InUse) <= NumPCBs + 1
  /\ \A b \in Blocks \ InUse : pcb[b] = Garbage
  /\ sleeper \in Blocks \cup {NoPcb} /\ panic \in BOOLEAN

\* No two processes have the same pid, and no pid is given twice.
PidsOK ==
  /\ \A b \in InUse : pcb[b].pid \in 0..(last_pid - 1)
  /\ \A b, c \in InUse : pcb[b].pid = pcb[c].pid => b = c

\* Every process in use is on one list, once, and its status says which.
Placed == Places(running, ready_list, waiting_list, zombie_list, InUse)

StatusesOK ==
  /\ pcb[running].status \in {"Running", "Ready"}
  /\ \A b \in Range(ready_list) : pcb[b].status = "Ready"
  /\ \A b \in Range(waiting_list) : pcb[b].status = "Waiting"
  /\ \A b \in Range(zombie_list) : pcb[b].status = "Zombie" /\ pcb[b].children = <<>>
  /\ Init_pcb \notin Range(zombie_list)

\* The processes that sleep for a time.
Owners == {b \in Range(waiting_list) : pcb[b].waits = NoWait}

TimersOK == Timers(timer_list, Owners, 0)

\* Every process but init is the child of one process at most.
FamiliesOK ==
  /\ Init_pcb \in InUse
  /\ \A b \in Blocks : /\ IsInjective(pcb[b].children)
                       /\ Range(pcb[b].children) \subseteq InUse \ {Init_pcb}
  /\ \A b, c \in Blocks : b # c => Range(pcb[b].children) \cap Range(pcb[c].children) = {}
  /\ \A b \in InUse \ {Init_pcb} : pcb[b].parent \in Blocks

\* Where nobody leaves children behind, the pointers to parents and the lists of
\* children agree, so that no parent's PCB is freed before its children's.
KinOK ==
  ~Orphans =>
    /\ pcb[Init_pcb].parent = NoPcb
    /\ \A c \in InUse \ {Init_pcb} : pcb[c].parent \in InUse
    /\ \A b, c \in InUse : c \in Range(pcb[b].children) <=> pcb[c].parent = b

\* Then nobody sleeps in wait for a child that has ended.
MissedOK ==
  ~Orphans =>
    \A b \in Range(waiting_list) : \A c \in Range(pcb[b].children) :
      pcb[c].status = "Zombie" => pcb[b].waits \notin {AnyPid, pcb[c].pid}

\* And the kernel dies only of what DiesOnlyWhen names.
DeathOK == ~Orphans => DiesOnlyWhen

\* tester_aux_sleeper runs or is ready.
SleeperAwake == sleeper # NoPcb => sleeper = running \/ sleeper \in Range(ready_list)

ProcessInv ==
  /\ TablesOK /\ PidsOK /\ Placed /\ StatusesOK /\ TimersOK /\ FamiliesOK /\ SleeperAwake
  /\ KinOK /\ MissedOK /\ DeathOK

\* The blocks of the pool.
LEMMA BlocksAre == Blocks = 0..(NumPCBs - 1) /\ NumPCBs \in Nat /\ NumPCBs > 1 /\ Init_pcb \in Blocks
                   /\ NoPcb \notin Blocks
BY PoolAssumption DEF Blocks, Init_pcb, NoPcb

\* The invariant implies the type invariant and OnePlace.
LEMMA InvImplies == ProcessInv => ProcessTypeOK /\ OnePlace
<1>. SUFFICES ASSUME ProcessInv PROVE ProcessTypeOK /\ OnePlace
  OBVIOUS
<1>. USE DEF ProcessInv
<1>1. WellFormed(pool) /\ InUse \subseteq Blocks
  BY PoolWellFormed, BlocksAre DEF TablesOK, InUse
<1>2. ptrs \in 0..NumPCBs
  <2>1. IsFiniteSet(InUse)
    <3>1. IsFiniteSet(0..(NumPCBs - 1))
      BY BlocksAre, FS_Interval
    <3>. QED BY <1>1, <3>1, BlocksAre, FS_Subset
  <2>2. Cardinality(InUse) \in Nat /\ Cardinality(InUse) # 0
    BY <2>1, FS_CardinalityType, FS_EmptySet DEF FamiliesOK
  <2>. QED BY <2>2, BlocksAre DEF TablesOK
<1>3. timer_list \in Seq([pcb : Blocks, left : Int])
  BY DEF TimersOK, Timers, Timer
<1>4. ProcessTypeOK
  BY <1>1, <1>2, <1>3 DEF ProcessTypeOK, TablesOK, Pcb, Placed, Places
<1>5. OnePlace
  BY PlacesInjective DEF OnePlace, Placed, StatusesOK, ToSet, Range
<1>. QED BY <1>4, <1>5

\* The order of the timers is that of TimersServed.
LEMMA TimersOKServed == TimersOK => TimersServed
<1>. SUFFICES ASSUME TimersOK PROVE TimersServed
  OBVIOUS
<1>. DEFINE owners == [i \in DOMAIN timer_list |-> timer_list[i].pcb]
<1>1. IsInjective(owners)
  BY DEF IsInjective, TimersOK, Timers
<1>2. ToSet(owners) = {b \in ToSet(waiting_list) : pcb[b].waits = NoWait}
  <2>1. ToSet(owners) = {timer_list[i].pcb : i \in DOMAIN timer_list}
    BY DEF ToSet
  <2>2. Owners = {b \in ToSet(waiting_list) : pcb[b].waits = NoWait}
    BY DEF Owners, ToSet, Range
  <2>. HIDE DEF owners
  <2>. QED BY <2>1, <2>2 DEF TimersOK, Timers
<1>3. \A i \in DOMAIN timer_list : timer_list[i].left >= 0
  BY DEF TimersOK, Timers
<1>. QED BY <1>1, <1>2, <1>3 DEF TimersServed

\* Where the processes in use are.
LEMMA InvFacts ==
  ASSUME ProcessInv
  PROVE  /\ pcb \in [Blocks -> Pcb] /\ running \in InUse /\ InUse \subseteq Blocks
         /\ Range(ready_list) \subseteq InUse /\ Range(waiting_list) \subseteq InUse
         /\ Range(zombie_list) \subseteq InUse
         /\ IsFiniteSet(InUse) /\ Cardinality(InUse) \in Nat
         /\ running \notin Range(ready_list) /\ running \notin Range(waiting_list)
         /\ running \notin Range(zombie_list)
         /\ Range(ready_list) \cap Range(waiting_list) = {}
         /\ Range(ready_list) \cap Range(zombie_list) = {}
         /\ Range(waiting_list) \cap Range(zombie_list) = {}
<1>1. pcb \in [Blocks -> Pcb] /\ InUse \subseteq Blocks
  BY PoolWellFormed, BlocksAre DEF ProcessInv, TablesOK, InUse
<1>2. IsFiniteSet(InUse)
  <2>1. IsFiniteSet(0..(NumPCBs - 1))
    BY BlocksAre, FS_Interval
  <2>. QED BY <1>1, <2>1, BlocksAre, FS_Subset
<1>3. Cardinality(InUse) \in Nat
  BY <1>2, FS_CardinalityType
<1>. QED BY <1>1, <1>2, <1>3 DEF ProcessInv, Placed, Places

\* A step that only moves processes from list to list keeps the tables, the pids
\* and the families.
LEMMA Moved ==
  ASSUME ProcessInv, UNCHANGED <<pool, ptrs, last_pid, sleeper, panic>>,
         pcb' \in [Blocks -> Pcb],
         \A b \in Blocks : /\ pcb'[b].pid = pcb[b].pid
                           /\ pcb'[b].parent = pcb[b].parent
                           /\ pcb'[b].children = pcb[b].children
                           /\ b \notin InUse => pcb'[b] = pcb[b]
  PROVE  TablesOK' /\ PidsOK' /\ FamiliesOK' /\ KinOK' /\ InUse' = InUse
<1>1. InUse' = InUse
  BY DEF InUse
<1>2. InUse \subseteq Blocks
  BY PoolWellFormed, BlocksAre DEF ProcessInv, TablesOK, InUse
<1>3. TablesOK'
  BY <1>1 DEF ProcessInv, TablesOK
<1>4. PidsOK'
  BY <1>1, <1>2 DEF ProcessInv, PidsOK
<1>5. FamiliesOK'
  BY <1>1, <1>2 DEF ProcessInv, FamiliesOK
<1>6. KinOK'
  <2>1. \A b \in InUse : pcb'[b].parent = pcb[b].parent /\ pcb'[b].children = pcb[b].children
    BY <1>2
  <2>2. Init_pcb \in InUse
    BY DEF ProcessInv, FamiliesOK
  <2>. QED BY <1>1, <2>1, <2>2 DEF ProcessInv, KinOK
<1>. QED BY <1>1, <1>3, <1>4, <1>5, <1>6

\* Setting the status of a process.
LEMMA WithStatus ==
  ASSUME NEW r \in Pcb, NEW s \in {"Running", "Ready", "Waiting", "Zombie"}
  PROVE  [r EXCEPT !.status = s] \in Pcb
BY DEF Pcb

\* internal_schedule, with the timers as they are or a tick later.
LEMMA ScheduleStep ==
  ASSUME ProcessInv, NEW timers, NEW before \in {-1, 0}, Timers(timers, Owners, before),
         ~panic, Schedule(timers)
  PROVE  ProcessInv'
<1>. DEFINE woken == Elapsed(timers)
            queue == ready_list \o woken
            ready == [b \in Blocks |->
                        IF b \in ToSet(woken) THEN [pcb[b] EXCEPT !.status = "Ready"] ELSE pcb[b]]
<1>1. /\ woken \in Seq(Blocks) /\ IsInjective(woken) /\ Range(woken) \subseteq Owners
      /\ Timers(SubSeq(timers, Len(woken) + 1, Len(timers)), Owners \ Range(woken), 0)
  BY ElapsedTimers
<1>2. ToSet(woken) = Range(woken) /\ Range(woken) \subseteq Range(waiting_list)
  BY <1>1 DEF ToSet, Range, Owners
<1>3. /\ timer_list' = SubSeq(timers, Len(woken) + 1, Len(timers))
      /\ waiting_list' = Without(waiting_list, Range(woken))
      /\ IF queue = <<>>
         THEN UNCHANGED <<running, ready_list>> /\ pcb' = ready
         ELSE /\ running' = Head(queue)
              /\ ready_list' = Append(Tail(queue), running)
              /\ pcb' = [ready EXCEPT ![running].status = "Ready",
                                      ![Head(queue)].status = "Running"]
      /\ UNCHANGED <<pool, ptrs, last_pid, zombie_list, sleeper, panic>>
  BY <1>2 DEF Schedule, Rotated
<1>4. /\ pcb \in [Blocks -> Pcb] /\ Placed /\ StatusesOK
      /\ Places(running, ready_list, waiting_list, zombie_list, InUse)
      /\ running \in Blocks /\ InUse \subseteq Blocks
  BY PoolWellFormed, BlocksAre DEF ProcessInv, TablesOK, Placed, Places, InUse
<1>. HIDE DEF woken, queue
<1>. DEFINE left == Without(waiting_list, Range(woken))
<1>4a. /\ Places(running, queue, left, zombie_list, InUse)
       /\ Range(queue) = Range(ready_list) \cup Range(woken)
       /\ Range(left) = Range(waiting_list) \ Range(woken)
       /\ queue = <<>> => ready_list = <<>> /\ Range(woken) = {}
  <2>1. /\ woken \in Seq(Blocks) /\ IsInjective(woken)
        /\ Range(woken) \subseteq Range(waiting_list)
    BY <1>1, <1>2
  <2>2. /\ Places(running, ready_list \o woken, left, zombie_list, InUse)
        /\ Range(ready_list \o woken) = Range(ready_list) \cup Range(woken)
        /\ Range(left) = Range(waiting_list) \ Range(woken)
    BY <1>4, <2>1, PlacesWoken
  <2>3. ASSUME queue = <<>>
        PROVE  ready_list = <<>> /\ Range(woken) = {}
    <3>1. ready_list \in Seq(Blocks) /\ woken \in Seq(Blocks)
      BY <1>4, <2>1 DEF Places
    <3>2. ready_list = <<>> /\ woken = <<>>
      BY <2>3, <3>1 DEF queue
    <3>. QED BY <3>2 DEF Range
  <2>. QED BY <2>2, <2>3 DEF queue
<1>5. /\ queue = <<>> => /\ Range(woken) = {}
                         /\ Places(running, ready_list, left, zombie_list, InUse)
      /\ queue # <<>> =>
           /\ Head(queue) \in Range(ready_list) \cup Range(woken)
           /\ Range(Append(Tail(queue), running))
                = ((Range(ready_list) \cup Range(woken)) \ {Head(queue)}) \cup {running}
           /\ Places(Head(queue), Append(Tail(queue), running), left, zombie_list, InUse)
      /\ Range(left) = Range(waiting_list) \ Range(woken)
  <2>. HIDE DEF left
  <2>1. CASE queue = <<>>
    BY <1>4a, <2>1
  <2>2. CASE queue # <<>>
    <3>1. /\ Places(Head(queue), Append(Tail(queue), running), left, zombie_list, InUse)
          /\ Head(queue) \in Range(queue)
          /\ Range(Append(Tail(queue), running)) = (Range(queue) \ {Head(queue)}) \cup {running}
      BY <1>4a, <2>2, PlacesRotated
    <3>. QED BY <1>4a, <2>2, <3>1
  <2>. QED BY <2>1, <2>2
<1>6. /\ ready \in [Blocks -> Pcb]
      /\ \A b \in Blocks :
           /\ ready[b].pid = pcb[b].pid /\ ready[b].parent = pcb[b].parent
           /\ ready[b].children = pcb[b].children /\ ready[b].waits = pcb[b].waits
           /\ b \in Range(woken) => ready[b].status = "Ready"
           /\ b \notin Range(woken) => ready[b] = pcb[b]
  BY <1>2, <1>4 DEF Pcb
<1>. HIDE DEF ready
<1>7. /\ pcb' \in [Blocks -> Pcb]
      /\ \A b \in Blocks :
           /\ pcb'[b].pid = pcb[b].pid /\ pcb'[b].parent = pcb[b].parent
           /\ pcb'[b].children = pcb[b].children /\ pcb'[b].waits = pcb[b].waits
           /\ queue = <<>> => pcb'[b] = ready[b]
           /\ queue # <<>> /\ b = Head(queue) => pcb'[b].status = "Running"
           /\ queue # <<>> /\ b = running /\ b # Head(queue) => pcb'[b].status = "Ready"
           /\ b # running /\ (queue # <<>> => b # Head(queue)) => pcb'[b] = ready[b]
  <2>1. CASE queue = <<>>
    BY <1>3, <1>6, <2>1
  <2>2. CASE queue # <<>>
    <3>1. Head(queue) \in Blocks
      BY <1>5, <2>2 DEF Places
    <3>. DEFINE one == [ready EXCEPT ![running].status = "Ready"]
                two == [one EXCEPT ![Head(queue)].status = "Running"]
    <3>3. pcb' = two
      BY <1>3, <2>2
    <3>. HIDE DEF one, two
    <3>2. /\ one \in [Blocks -> Pcb]
          /\ \A b \in Blocks : /\ one[b].pid = ready[b].pid /\ one[b].parent = ready[b].parent
                               /\ one[b].children = ready[b].children
                               /\ one[b].waits = ready[b].waits
                               /\ b # running => one[b] = ready[b]
          /\ one[running].status = "Ready"
      <4>1. /\ ready[running] \in Pcb /\ running \in Blocks /\ DOMAIN ready = Blocks
        BY <1>4, <1>6
      <4>2. [ready[running] EXCEPT !.status = "Ready"] \in Pcb
        BY <4>1, WithStatus
      <4>3. \A b \in Blocks : ready[b] \in Pcb
        BY <1>6
      <4>. QED BY <4>1, <4>2, <4>3 DEF one, Pcb
    <3>4. /\ two \in [Blocks -> Pcb]
          /\ \A b \in Blocks : /\ two[b].pid = one[b].pid /\ two[b].parent = one[b].parent
                               /\ two[b].children = one[b].children
                               /\ two[b].waits = one[b].waits
                               /\ b # Head(queue) => two[b] = one[b]
          /\ two[Head(queue)].status = "Running"
      BY <3>1, <3>2 DEF two, Pcb
    <3>. QED BY <1>4, <1>6, <2>2, <3>1, <3>2, <3>3, <3>4
  <2>. QED BY <2>1, <2>2
<1>8. InUse' = InUse /\ Placed'
  BY <1>3, <1>5 DEF Placed, InUse
<1>9. /\ Range(woken) \subseteq InUse /\ running \in InUse
      /\ queue # <<>> => Head(queue) \in InUse
  BY <1>2, <1>4, <1>5 DEF Places
<1>10. TablesOK' /\ PidsOK' /\ FamiliesOK' /\ KinOK'
  <2>1. \A b \in Blocks : b \notin InUse => pcb'[b] = pcb[b]
    BY <1>6, <1>7, <1>9
  <2>. QED BY <1>3, <1>7, <2>1, Moved
<1>11. Range(waiting_list') = Range(waiting_list) \ Range(woken)
  BY <1>3, <1>5
<1>12. StatusesOK'
  <2>1. /\ running \notin Range(waiting_list) /\ running \notin Range(zombie_list)
        /\ Range(woken) \cap Range(zombie_list) = {}
        /\ queue # <<>> => /\ Head(queue) \notin Range(zombie_list)
                           /\ Head(queue) \notin Range(waiting_list')
    BY <1>2, <1>4, <1>5, <1>11 DEF Places
  <2>6. Range(waiting_list) \subseteq Blocks /\ Range(zombie_list) \subseteq Blocks
    BY <1>4, RangeOfSeq DEF Places
  <2>2. ASSUME NEW b \in Range(waiting_list')
        PROVE  b \in Blocks /\ pcb'[b] = pcb[b]
    <3>1. b \in Range(waiting_list) /\ b \notin Range(woken) /\ b \in Blocks
      BY <1>11, <2>6
    <3>2. b # running /\ (queue # <<>> => b # Head(queue))
      BY <2>1, <3>1
    <3>3. pcb'[b] = ready[b] /\ ready[b] = pcb[b]
      BY <1>6, <1>7, <3>1, <3>2
    <3>. QED BY <3>1, <3>3
  <2>3. ASSUME NEW b \in Range(zombie_list)
        PROVE  b \in Blocks /\ pcb'[b] = pcb[b]
    <3>1. b \notin Range(woken) /\ b \in Blocks
      BY <2>1, <2>6
    <3>2. b # running /\ (queue # <<>> => b # Head(queue))
      BY <2>1, <3>1
    <3>3. pcb'[b] = ready[b] /\ ready[b] = pcb[b]
      BY <1>6, <1>7, <3>1, <3>2
    <3>. QED BY <3>1, <3>3
  <2>4. \A b \in Range(ready_list') : b \in Blocks /\ pcb'[b].status = "Ready"
    <3>1. CASE queue = <<>>
      BY <1>3, <1>4, <1>5, <1>6, <1>7, <3>1 DEF Places, StatusesOK
    <3>2. CASE queue # <<>>
      <4>1. ASSUME NEW b \in Range(ready_list')
            PROVE  b \in Blocks /\ (b = running \/ b \in Range(ready_list) \cup Range(woken))
                   /\ b # Head(queue)
        BY <1>2, <1>3, <1>4, <1>5, <3>2 DEF Places
      <4>2. ASSUME NEW b \in Range(ready_list'), b # running
            PROVE  pcb'[b].status = "Ready"
        BY <1>4, <1>6, <1>7, <3>2, <4>1, <4>2 DEF StatusesOK
      <4>. QED BY <1>7, <3>2, <4>1, <4>2
    <3>. QED BY <3>1, <3>2
  <2>5. pcb'[running'].status \in {"Running", "Ready"}
    <3>1. CASE queue = <<>>
      BY <1>2, <1>3, <1>4, <1>6, <1>7, <2>1, <3>1 DEF StatusesOK
    <3>2. CASE queue # <<>>
      BY <1>3, <1>5, <1>7, <3>2 DEF Places
    <3>. QED BY <3>1, <3>2
  <2>. QED BY <1>3, <1>4, <1>11, <2>2, <2>3, <2>4, <2>5 DEF StatusesOK
<1>13. TimersOK'
  <2>1. Owners' = Owners \ Range(woken)
    BY <1>4, <1>7, <1>11 DEF Owners, Places
  <2>. QED BY <1>1, <1>3, <2>1 DEF TimersOK
<1>14. SleeperAwake'
  <2>1. CASE queue = <<>>
    BY <1>3, <2>1 DEF ProcessInv, SleeperAwake
  <2>2. CASE queue # <<>>
    BY <1>3, <1>5, <2>2 DEF ProcessInv, SleeperAwake
  <2>. QED BY <2>1, <2>2
<1>15. MissedOK'
  <2>1. ASSUME NEW b \in Blocks, pcb'[b].status = "Zombie"
        PROVE  pcb[b].status = "Zombie"
    BY <1>6, <1>7, <2>1
  <2>2. ASSUME NEW b \in Range(waiting_list')
        PROVE  /\ b \in Range(waiting_list) /\ b \in Blocks
               /\ Range(pcb[b].children) \subseteq Blocks
    BY <1>4, <1>11, InvFacts DEF ProcessInv, FamiliesOK
  <2>3. \A b \in Blocks : pcb'[b].pid = pcb[b].pid /\ pcb'[b].waits = pcb[b].waits
                         /\ pcb'[b].children = pcb[b].children
    BY <1>7
  <2>. QED BY <2>1, <2>2, <2>3 DEF ProcessInv, MissedOK
<1>16. DeathOK'
  BY <1>3 DEF DeathOK, DiesOnlyWhen
<1>. QED BY <1>8, <1>10, <1>12, <1>13, <1>14, <1>15, <1>16 DEF ProcessInv

\* A status tells where a process is.
LEMMA StatusPlace ==
  ASSUME ProcessInv, NEW b \in Blocks
  PROVE  /\ pcb[b].status = "Waiting" => b \in Range(waiting_list)
         /\ pcb[b].status = "Zombie" /\ b \in InUse => b \in Range(zombie_list)
<1>1. b \notin InUse => pcb[b].status = "Zombie"
  BY DEF ProcessInv, TablesOK, Garbage
<1>2. b \in InUse => b = running \/ b \in Range(ready_list) \/ b \in Range(waiting_list)
                     \/ b \in Range(zombie_list)
  BY DEF ProcessInv, Placed, Places
<1>3. /\ pcb[running].status \in {"Running", "Ready"}
      /\ \A c \in Range(ready_list) : pcb[c].status = "Ready"
      /\ \A c \in Range(waiting_list) : pcb[c].status = "Waiting"
      /\ \A c \in Range(zombie_list) : pcb[c].status = "Zombie"
  BY DEF ProcessInv, StatusesOK
<1>. QED BY <1>1, <1>2, <1>3

\* The timer interrupt.
LEMMA InterruptStep == ASSUME ProcessInv, timerInterrupt PROVE ProcessInv'
<1>1. Timers(Ticked(timer_list), Owners, -1) /\ Schedule(Ticked(timer_list)) /\ ~panic
  BY TickedTimers DEF ProcessInv, TimersOK, timerInterrupt
<1>. QED BY <1>1, ScheduleStep

\* Preemption.
LEMMA PreemptStep == ASSUME ProcessInv, internal_preempt PROVE ProcessInv'
<1>1. Timers(timer_list, Owners, 0) /\ Schedule(timer_list) /\ ~panic
  BY DEF ProcessInv, TimersOK, internal_preempt
<1>. QED BY <1>1, ScheduleStep

\* The death of the kernel.
LEMMA DiesStep ==
  ASSUME ProcessInv, Dies,
         ~Orphans => \/ NoBlock(pool) \/ ptrs = 0
                     \/ sleeper = NoPcb /\ ready_list = <<>>
  PROVE  ProcessInv'
<1>1. /\ UNCHANGED <<pool, ptrs, pcb, last_pid, timer_list, sleeper>> /\ panic' = TRUE
      /\ UNCHANGED <<running, ready_list, waiting_list, zombie_list>>
  BY DEF Dies, lists
<1>2. InUse' = InUse /\ Owners' = Owners
  BY <1>1 DEF InUse, Owners
<1>3. DeathOK'
  BY <1>1 DEF DeathOK, DiesOnlyWhen
<1>4. KinOK' /\ MissedOK'
  BY <1>1, <1>2 DEF ProcessInv, KinOK, MissedOK
<1>. QED BY <1>1, <1>2, <1>3, <1>4 DEF ProcessInv, TablesOK, PidsOK, Placed, StatusesOK, TimersOK,
                                       FamiliesOK, SleeperAwake

\* With nobody ready, tester_aux_sleeper cannot have been started, unless it runs.
LEMMA NobodyReady ==
  ASSUME ProcessInv, ready_list = <<>>, running # sleeper
  PROVE  sleeper = NoPcb
<1>1. Range(<<>>) = {}
  BY DEF Range
<1>. QED BY <1>1 DEF ProcessInv, SleeperAwake

\* A new process, a child of the running one.
LEMMA SpawnStep ==
  ASSUME ProcessInv, NEW p \in Blocks, internal_spawn(p) PROVE ProcessInv'
<1>1. CASE Dies
  <2>1. NoBlock(pool) \/ ptrs = 0
    BY <1>1 DEF internal_spawn, Issues, Dies
  <2>. QED BY <1>1, <2>1, DiesStep
<1>2. CASE ~Dies
  <2>. DEFINE n == Block(pool)
  <2>1. /\ p = running /\ last_pid <= LastPid /\ ~NoBlock(pool) /\ ptrs > 0
        /\ pool' = BlockTaken(pool) /\ ptrs' = ptrs - 1
        /\ pcb' = [pcb EXCEPT ![n] = Created(p), ![p].children = Append(@, n)]
        /\ last_pid' = last_pid + 1 /\ ready_list' = Append(ready_list, n)
        /\ UNCHANGED <<running, waiting_list, zombie_list, timer_list, sleeper, panic>>
    BY <1>2 DEF internal_spawn, Issues
  <2>1a. ~panic
    BY DEF internal_spawn, Issues
  <2>2. /\ pcb \in [Blocks -> Pcb] /\ running \in InUse /\ InUse \subseteq Blocks
        /\ Range(ready_list) \subseteq InUse /\ Range(waiting_list) \subseteq InUse
        /\ Range(zombie_list) \subseteq InUse
        /\ running \notin Range(ready_list) /\ running \notin Range(waiting_list)
        /\ running \notin Range(zombie_list)
    BY InvFacts
  <2>3. n \in Blocks \ InUse /\ Pool(pool', NumPCBs) /\ InUse' = InUse \cup {n}
    BY <2>1, TakenPool, BlocksAre DEF ProcessInv, TablesOK, InUse
  <2>. HIDE DEF n
  <2>4. p # n /\ p \in InUse
    BY <2>1, <2>2, <2>3
  <2>5. Created(p) \in Pcb /\ Created(p).pid = last_pid /\ Created(p).status = "Ready"
        /\ Created(p).parent = p /\ Created(p).children = <<>> /\ last_pid \in Nat
    <3>1. last_pid \in Nat /\ last_pid \in NoPcb..LastPid /\ NoWait \in NoWait..(LastPid + 1)
      BY <2>1, SleepAssumption DEF NoWait, NoPcb, ProcessInv, TablesOK
    <3>. QED BY <3>1 DEF Created, Pcb
  <2>6. pcb[p] \in Pcb /\ pcb[p].children \in Seq(Blocks)
    BY <2>2 DEF Pcb
  <2>7. /\ Append(pcb[p].children, n) \in Seq(Blocks)
        /\ Range(Append(pcb[p].children, n)) = Range(pcb[p].children) \cup {n}
        /\ IsInjective(Append(pcb[p].children, n))
    <3>. DEFINE ch == pcb[p].children
    <3>1. ch \in Seq(Blocks) /\ IsInjective(ch) /\ n \in Blocks /\ n \notin Range(ch)
      BY <2>3, <2>6 DEF ProcessInv, FamiliesOK
    <3>. HIDE DEF ch
    <3>2. Append(ch, n) \in Seq(Blocks) /\ Range(Append(ch, n)) = Range(ch) \cup {n}
          /\ IsInjective(Append(ch, n))
      BY <3>1, AppendRange
    <3>. QED BY <3>2 DEF ch
  <2>8. /\ pcb' \in [Blocks -> Pcb]
        /\ pcb'[n] = Created(p)
        /\ pcb'[p].children = Append(pcb[p].children, n)
        /\ pcb'[p].pid = pcb[p].pid /\ pcb'[p].parent = pcb[p].parent
        /\ pcb'[p].status = pcb[p].status
        /\ \A b \in Blocks : b # n /\ b # p => pcb'[b] = pcb[b]
    <3>. DEFINE r == [pcb[p] EXCEPT !.children = Append(pcb[p].children, n)]
    <3>1. r \in Pcb /\ r.children = Append(pcb[p].children, n) /\ r.pid = pcb[p].pid
          /\ r.parent = pcb[p].parent /\ r.status = pcb[p].status
      BY <2>6, <2>7 DEF Pcb
    <3>2. pcb' = [[pcb EXCEPT ![n] = Created(p)] EXCEPT ![p] = r]
      BY <2>1, <2>2, <2>4
    <3>. HIDE DEF r
    <3>. QED BY <2>2, <2>3, <2>4, <2>5, <3>1, <3>2
  <2>9. TablesOK'
    <3>1. IsFiniteSet(InUse) /\ Cardinality(InUse) \in Nat
      BY InvFacts
    <3>2. Cardinality(InUse \cup {n}) = Cardinality(InUse) + 1
      BY <2>3, <3>1, FS_AddElement
    <3>3. \A b \in Blocks \ InUse' : pcb'[b] = Garbage
      BY <2>3, <2>4, <2>8 DEF ProcessInv, TablesOK
    <3>4. ptrs' \in Nat /\ ptrs' + Cardinality(InUse') <= NumPCBs + 1
      BY <2>1, <2>3, <3>1, <3>2, BlocksAre DEF ProcessInv, TablesOK
    <3>5. last_pid' \in 1..(LastPid + 1)
      BY <2>1, SleepAssumption DEF ProcessInv, TablesOK
    <3>. QED BY <2>1, <2>3, <2>8, <3>3, <3>4, <3>5 DEF ProcessInv, TablesOK
  <2>10. PidsOK'
    <3>1. \A b \in InUse : pcb'[b].pid = pcb[b].pid
      BY <2>2, <2>3, <2>8
    <3>2. \A b \in InUse : pcb[b].pid \in 0..(last_pid - 1)
      BY DEF ProcessInv, PidsOK
    <3>3. \A b \in InUse' : pcb'[b].pid \in 0..(last_pid' - 1)
      <4>1. ASSUME NEW b \in InUse
            PROVE  pcb'[b].pid \in 0..(last_pid' - 1)
        <5>1. pcb'[b].pid \in 0..(last_pid - 1) /\ last_pid' = last_pid + 1 /\ last_pid \in Nat
          BY <2>1, <2>5, <3>1, <3>2
        <5>. QED BY <5>1
      <4>2. pcb'[n].pid \in 0..(last_pid' - 1)
        BY <2>1, <2>5, <2>8
      <4>. QED BY <2>3, <4>1, <4>2
    <3>4. \A b \in InUse : pcb'[b].pid # pcb'[n].pid
      BY <2>5, <2>8, <3>1, <3>2
    <3>. QED BY <2>3, <3>1, <3>3, <3>4 DEF ProcessInv, PidsOK
  <2>11. Range(ready_list') = Range(ready_list) \cup {n} /\ Placed'
    BY <2>1, <2>3, PlacesSpawned DEF ProcessInv, Placed
  <2>12. StatusesOK'
    <3>1. \A b \in Range(waiting_list) \cup Range(zombie_list) : pcb'[b] = pcb[b]
      BY <2>1, <2>2, <2>3, <2>8
    <3>2. \A b \in Range(ready_list) : pcb'[b].status = pcb[b].status
      BY <2>1, <2>2, <2>3, <2>8
    <3>3. pcb'[running].status = pcb[running].status /\ pcb'[n].status = "Ready"
      BY <2>1, <2>5, <2>8
    <3>4. StatusesOK
      BY DEF ProcessInv
    <3>5. \A b \in Range(ready_list') : pcb'[b].status = "Ready"
      BY <2>11, <3>2, <3>3, <3>4 DEF StatusesOK
    <3>6. \A b \in Range(waiting_list) : pcb'[b].status = "Waiting"
      BY <3>1, <3>4 DEF StatusesOK
    <3>7. \A b \in Range(zombie_list) : pcb'[b].status = "Zombie" /\ pcb'[b].children = <<>>
      BY <3>1, <3>4 DEF StatusesOK
    <3>. QED BY <2>1, <3>3, <3>4, <3>5, <3>6, <3>7 DEF StatusesOK
  <2>13. TimersOK'
    <3>1. \A b \in Range(waiting_list) : pcb'[b] = pcb[b]
      BY <2>1, <2>2, <2>3, <2>8
    <3>2. Owners' = Owners
      BY <2>1, <3>1 DEF Owners
    <3>. QED BY <2>1, <3>2 DEF ProcessInv, TimersOK
  <2>14. FamiliesOK'
    <3>1. Init_pcb \in InUse' /\ n # Init_pcb
      BY <2>3 DEF ProcessInv, FamiliesOK
    <3>2. /\ pcb'[n].children = <<>> /\ Range(pcb'[n].children) = {} /\ IsInjective(pcb'[n].children)
      BY <2>5, <2>8 DEF Range, IsInjective
    <3>3. /\ \A b \in Blocks : b # n => Range(pcb[b].children) \subseteq InUse \ {Init_pcb}
          /\ \A b \in Blocks : b # n => IsInjective(pcb[b].children)
          /\ \A b, c \in Blocks : b # c => Range(pcb[b].children) \cap Range(pcb[c].children) = {}
      BY DEF ProcessInv, FamiliesOK
    <3>4. \A b \in Blocks : /\ IsInjective(pcb'[b].children)
                            /\ Range(pcb'[b].children) \subseteq InUse' \ {Init_pcb}
      BY <2>3, <2>7, <2>8, <3>1, <3>2, <3>3
    <3>5. ASSUME NEW b \in Blocks, NEW c \in Blocks, b # c
          PROVE  Range(pcb'[b].children) \cap Range(pcb'[c].children) = {}
      <4>1. CASE b = n \/ c = n
        BY <3>2, <4>1
      <4>2. CASE b # n /\ c # n
        <5>1. Range(pcb[b].children) \cap Range(pcb[c].children) = {}
              /\ n \notin Range(pcb[b].children) /\ n \notin Range(pcb[c].children)
          BY <2>3, <3>3, <3>5, <4>2
        <5>. QED BY <2>7, <2>8, <3>5, <4>2, <5>1
      <4>. QED BY <4>1, <4>2
    <3>6. \A b \in InUse' \ {Init_pcb} : pcb'[b].parent \in Blocks
      BY <2>2, <2>3, <2>5, <2>8 DEF ProcessInv, FamiliesOK
    <3>. QED BY <3>1, <3>4, <3>5, <3>6 DEF FamiliesOK
  <2>15. SleeperAwake'
    BY <2>1, <2>11 DEF ProcessInv, SleeperAwake
  <2>16. KinOK'
    <3>. SUFFICES ASSUME ~Orphans
                  PROVE  /\ pcb'[Init_pcb].parent = NoPcb
                         /\ \A c \in InUse' \ {Init_pcb} : pcb'[c].parent \in InUse'
                         /\ \A b, c \in InUse' : c \in Range(pcb'[b].children) <=> pcb'[c].parent = b
      BY DEF KinOK
    <3>1. /\ pcb[Init_pcb].parent = NoPcb /\ Init_pcb \in InUse
          /\ \A c \in InUse \ {Init_pcb} : pcb[c].parent \in InUse
          /\ \A b, c \in InUse : c \in Range(pcb[b].children) <=> pcb[c].parent = b
          /\ \A b \in InUse : Range(pcb[b].children) \subseteq InUse
      BY <2>2 DEF ProcessInv, KinOK, FamiliesOK
    <3>2. \A c \in InUse : pcb'[c].parent = pcb[c].parent
      BY <2>2, <2>3, <2>8
    <3>3. pcb'[n].parent = p /\ Range(pcb'[n].children) = {}
      BY <2>5, <2>8 DEF Range
    <3>4. \A b \in InUse : Range(pcb'[b].children)
                             = Range(pcb[b].children) \cup (IF b = p THEN {n} ELSE {})
      BY <2>2, <2>3, <2>7, <2>8
    <3>5. \A c \in InUse : pcb[c].parent # n
      BY <2>3, <3>1, BlocksAre
    <3>6. ASSUME NEW b \in InUse', NEW c \in InUse'
          PROVE  c \in Range(pcb'[b].children) <=> pcb'[c].parent = b
      <4>1. CASE b = n /\ c = n
        BY <2>4, <3>3, <4>1
      <4>2. CASE b = n /\ c # n
        BY <2>3, <3>2, <3>3, <3>5, <4>2
      <4>3. CASE b # n /\ c = n
        BY <2>3, <3>1, <3>3, <3>4, <4>3
      <4>4. CASE b # n /\ c # n
        BY <2>3, <3>1, <3>2, <3>4, <4>4
      <4>. QED BY <4>1, <4>2, <4>3, <4>4
    <3>7. \A c \in InUse' \ {Init_pcb} : pcb'[c].parent \in InUse'
      BY <2>3, <2>4, <3>1, <3>2, <3>3
    <3>. QED BY <3>1, <3>2, <3>6, <3>7
  <2>17. MissedOK'
    <3>1. \A b \in Range(waiting_list) : pcb'[b] = pcb[b] /\ Range(pcb[b].children) \subseteq InUse
      BY <2>1, <2>2, <2>3, <2>8 DEF ProcessInv, FamiliesOK
    <3>2. \A c \in InUse : pcb'[c].status = pcb[c].status /\ pcb'[c].pid = pcb[c].pid
      BY <2>2, <2>3, <2>8
    <3>. SUFFICES ASSUME ~Orphans, NEW b \in Range(waiting_list'), NEW c \in Range(pcb'[b].children),
                         pcb'[c].status = "Zombie"
                  PROVE  pcb'[b].waits \notin {AnyPid, pcb'[c].pid}
      BY DEF MissedOK
    <3>3. b \in Range(waiting_list) /\ pcb'[b] = pcb[b] /\ c \in Range(pcb[b].children) /\ c \in InUse
      BY <2>1, <3>1
    <3>4. pcb[c].status = "Zombie" /\ pcb'[c].pid = pcb[c].pid
      BY <3>2, <3>3
    <3>. QED BY <3>3, <3>4 DEF ProcessInv, MissedOK
  <2>18. DeathOK'
    BY <2>1, <2>1a DEF DeathOK, DiesOnlyWhen
  <2>. QED BY <2>9, <2>10, <2>11, <2>12, <2>13, <2>14, <2>15, <2>16, <2>17, <2>18 DEF ProcessInv
<1>. QED BY <1>1, <1>2

\* The scan of internal_wait ends at a child, and at one of those asked for if there
\* is any.
LEMMA AwaitedChild ==
  ASSUME NEW p, NEW pid, pcb[p].children \in Seq(Blocks), pcb[p].children # <<>>
  PROVE  LET found(b) == IF pid = AnyPid THEN pcb[b].status = "Zombie" ELSE pcb[b].pid = pid
         IN  /\ Awaited(p, pid) \in Range(pcb[p].children)
             /\ (\E b \in Range(pcb[p].children) : found(b)) => found(Awaited(p, pid))
<1>. DEFINE ch == pcb[p].children
            found(b) == IF pid = AnyPid THEN pcb[b].status = "Zombie" ELSE pcb[b].pid = pid
            those == {i \in 1..Len(ch) : found(ch[i])}
            first == IF those # {} THEN Min(those) ELSE 0
<1>1. Awaited(p, pid) = IF first # 0 THEN ch[first] ELSE Last(ch)
  BY DEF Awaited, SelectInSeq
<1>2. Len(ch) \in Nat /\ DOMAIN ch = 1..Len(ch) /\ Len(ch) # 0
  BY LenProperties, EmptySeq
<1>3. Last(ch) = ch[Len(ch)]
  BY DEF Last
<1>4. CASE those = {}
  <2>1. Awaited(p, pid) = ch[Len(ch)] /\ Len(ch) \in DOMAIN ch
    <3>1. first = 0
      BY <1>4
    <3>. HIDE DEF first, ch
    <3>. QED BY <1>1, <1>2, <1>3, <3>1
  <2>2. ~\E i \in 1..Len(ch) : found(ch[i])
    BY <1>4
  <2>. HIDE DEF ch, found
  <2>. QED BY <1>2, <2>1, <2>2 DEF Range, ch, found
<1>5. CASE those # {}
  <2>1. PICK m \in those : \A i \in those : m <= i
    <3>1. those \in SUBSET Nat
      OBVIOUS
    <3>. HIDE DEF those
    <3>. QED BY <1>5, <3>1, Least
  <2>2. Min(those) \in those
    <3>. HIDE DEF those
    <3>. QED BY <2>1 DEF Min
  <2>3. first \in 1..Len(ch) /\ found(ch[first])
    BY <1>5, <2>2
  <2>. HIDE DEF first
  <2>4. Awaited(p, pid) = ch[first]
    BY <1>1, <2>3
  <2>. QED BY <1>2, <2>3, <2>4 DEF Range
<1>. QED BY <1>4, <1>5

\* A child that has ended is reaped.
LEMMA ReapStep ==
  ASSUME ProcessInv, NEW p \in Blocks, Issues(p), NEW z \in Range(pcb[p].children),
         pcb[z].status = "Zombie", Reap(p, z)
  PROVE  ProcessInv'
<1>1. /\ p = running
      /\ pcb' = [pcb EXCEPT ![p].children = Without(@, {z}), ![z] = Garbage]
      /\ ptrs' = ptrs + 1 /\ zombie_list' = Without(zombie_list, {z}) /\ pool' = Released(pool, z)
      /\ UNCHANGED <<last_pid, running, ready_list, waiting_list, timer_list, sleeper, panic>>
  BY DEF Reap, Issues
<1>2. /\ pcb \in [Blocks -> Pcb] /\ running \in InUse /\ InUse \subseteq Blocks
      /\ Range(ready_list) \subseteq InUse /\ Range(waiting_list) \subseteq InUse
      /\ Range(zombie_list) \subseteq InUse
      /\ running \notin Range(ready_list) /\ running \notin Range(waiting_list)
      /\ running \notin Range(zombie_list)
      /\ Range(ready_list) \cap Range(zombie_list) = {}
      /\ Range(waiting_list) \cap Range(zombie_list) = {}
  BY InvFacts
<1>3. z \in InUse /\ z # Init_pcb /\ z \in Blocks /\ z \in Range(zombie_list) /\ z # p
  <2>1. z \in InUse \ {Init_pcb}
    BY DEF ProcessInv, FamiliesOK
  <2>. QED BY <1>1, <1>2, <2>1, StatusPlace
<1>4. Pool(pool', NumPCBs) /\ InUse' = InUse \ {z}
  BY <1>1, <1>3, ReleasedPool, BlocksAre DEF ProcessInv, TablesOK, InUse
<1>. DEFINE ch == pcb[p].children
            left == Without(ch, {z})
<1>5. ch \in Seq(Blocks) /\ IsInjective(ch)
  BY <1>2 DEF Pcb, ProcessInv, FamiliesOK
<1>6. left \in Seq(Blocks) /\ Range(left) = Range(ch) \ {z} /\ IsInjective(left)
  <2>. HIDE DEF ch
  <2>. QED BY <1>5, WithoutRange
<1>7. /\ pcb' \in [Blocks -> Pcb]
      /\ pcb'[z] = Garbage
      /\ pcb'[p].children = left /\ pcb'[p].pid = pcb[p].pid /\ pcb'[p].parent = pcb[p].parent
      /\ pcb'[p].status = pcb[p].status
      /\ \A b \in Blocks : b # z /\ b # p => pcb'[b] = pcb[b]
  <2>. DEFINE r == [pcb[p] EXCEPT !.children = left]
  <2>. HIDE DEF left
  <2>1. r \in Pcb /\ r.children = left /\ r.pid = pcb[p].pid
        /\ r.parent = pcb[p].parent /\ r.status = pcb[p].status
    BY <1>2, <1>6 DEF Pcb
  <2>2. pcb' = [[pcb EXCEPT ![p] = r] EXCEPT ![z] = Garbage]
    BY <1>1 DEF left
  <2>3. Garbage \in Pcb
    <3>1. NoPcb \in NoPcb..LastPid /\ NoWait \in NoWait..(LastPid + 1)
      BY SleepAssumption DEF NoPcb, NoWait
    <3>. QED BY <3>1 DEF Garbage, Pcb
  <2>. HIDE DEF r
  <2>. QED BY <1>2, <1>3, <2>1, <2>2, <2>3
<1>. HIDE DEF left
<1>8. TablesOK'
  <2>1. IsFiniteSet(InUse) /\ Cardinality(InUse) \in Nat
    BY InvFacts
  <2>2. Cardinality(InUse \ {z}) = Cardinality(InUse) - 1
    BY <1>3, <2>1, FS_RemoveElement
  <2>3. \A b \in Blocks \ InUse' : pcb'[b] = Garbage
    BY <1>1, <1>2, <1>4, <1>7 DEF ProcessInv, TablesOK
  <2>4. ptrs' \in Nat /\ ptrs' + Cardinality(InUse') <= NumPCBs + 1
    BY <1>1, <1>4, <2>1, <2>2, BlocksAre DEF ProcessInv, TablesOK
  <2>. QED BY <1>1, <1>4, <1>7, <2>3, <2>4 DEF ProcessInv, TablesOK
<1>9. PidsOK'
  <2>1. \A b \in InUse' : b \in InUse /\ pcb'[b].pid = pcb[b].pid
    BY <1>2, <1>4, <1>7
  <2>. QED BY <1>1, <2>1 DEF ProcessInv, PidsOK
<1>10. Range(zombie_list') = Range(zombie_list) \ {z} /\ Placed'
  BY <1>1, <1>3, <1>4, PlacesReaped DEF ProcessInv, Placed
<1>11. \A b \in Range(waiting_list) \cup Range(ready_list) \cup Range(zombie_list') :
         b \in Blocks /\ pcb'[b] = pcb[b]
  BY <1>1, <1>2, <1>3, <1>7, <1>10
<1>12. StatusesOK'
  BY <1>1, <1>7, <1>10, <1>11 DEF ProcessInv, StatusesOK
<1>13. TimersOK'
  <2>1. Owners' = Owners
    BY <1>1, <1>11 DEF Owners
  <2>. QED BY <1>1, <2>1 DEF ProcessInv, TimersOK
<1>14. FamiliesOK'
  <2>1. /\ pcb'[z].children = <<>> /\ Range(pcb'[z].children) = {} /\ IsInjective(pcb'[z].children)
    BY <1>7 DEF Garbage, Range, IsInjective
  <2>2. ASSUME NEW b \in Blocks
        PROVE  /\ Range(pcb'[b].children) \subseteq Range(pcb[b].children) \ {z}
               /\ IsInjective(pcb'[b].children)
    <3>1. CASE b = z
      BY <2>1, <3>1
    <3>2. CASE b = p
      BY <1>6, <1>7, <3>2
    <3>3. CASE b # z /\ b # p
      <4>1. z \notin Range(pcb[b].children) /\ IsInjective(pcb[b].children)
        BY <3>3 DEF ProcessInv, FamiliesOK
      <4>. QED BY <1>7, <3>3, <4>1
    <3>. QED BY <3>1, <3>2, <3>3
  <2>3. /\ \A b \in Blocks : Range(pcb[b].children) \subseteq InUse \ {Init_pcb}
        /\ \A b, c \in Blocks : b # c => Range(pcb[b].children) \cap Range(pcb[c].children) = {}
    BY DEF ProcessInv, FamiliesOK
  <2>4. Init_pcb \in InUse'
    BY <1>3, <1>4 DEF ProcessInv, FamiliesOK
  <2>5. \A b \in Blocks : /\ IsInjective(pcb'[b].children)
                          /\ Range(pcb'[b].children) \subseteq InUse' \ {Init_pcb}
    BY <1>4, <2>2, <2>3
  <2>6. \A b, c \in Blocks : b # c => Range(pcb'[b].children) \cap Range(pcb'[c].children) = {}
    BY <2>2, <2>3
  <2>7. \A b \in InUse' \ {Init_pcb} : pcb'[b].parent \in Blocks
    BY <1>2, <1>4, <1>7 DEF ProcessInv, FamiliesOK
  <2>. QED BY <2>4, <2>5, <2>6, <2>7 DEF FamiliesOK
<1>15. SleeperAwake'
  BY <1>1 DEF ProcessInv, SleeperAwake
<1>16. KinOK'
  <2>. SUFFICES ASSUME ~Orphans
                PROVE  /\ pcb'[Init_pcb].parent = NoPcb
                       /\ \A c \in InUse' \ {Init_pcb} : pcb'[c].parent \in InUse'
                       /\ \A b, c \in InUse' : c \in Range(pcb'[b].children) <=> pcb'[c].parent = b
    BY DEF KinOK
  <2>1. /\ pcb[Init_pcb].parent = NoPcb /\ Init_pcb \in InUse
        /\ \A c \in InUse \ {Init_pcb} : pcb[c].parent \in InUse
        /\ \A b, c \in InUse : c \in Range(pcb[b].children) <=> pcb[c].parent = b
    BY DEF ProcessInv, KinOK, FamiliesOK
  <2>2. \A c \in InUse' : c \in InUse /\ c # z /\ c \in Blocks /\ pcb'[c].parent = pcb[c].parent
    BY <1>2, <1>4, <1>7
  <2>3. \A c \in InUse : pcb[c].parent # z
    <3>1. Range(pcb[z].children) = {}
      BY <1>3 DEF Range, ProcessInv, StatusesOK
    <3>. QED BY <1>3, <2>1, <3>1
  <2>4. \A b, c \in InUse' : c \in Range(pcb'[b].children) <=> c \in Range(pcb[b].children)
    BY <1>6, <1>7, <2>2
  <2>5. \A c \in InUse' \ {Init_pcb} : pcb'[c].parent \in InUse'
    BY <1>4, <2>1, <2>2, <2>3
  <2>6. Init_pcb \in InUse'
    BY <1>3, <1>4, <2>1
  <2>. QED BY <2>1, <2>2, <2>4, <2>5, <2>6
<1>17. MissedOK'
  <2>1. \A b \in Range(waiting_list) :
          b \in Blocks /\ pcb'[b] = pcb[b] /\ b # p /\ Range(pcb[b].children) \subseteq InUse \ {z}
    BY <1>1, <1>2, <1>11 DEF ProcessInv, FamiliesOK
  <2>2. \A c \in InUse \ {z} : pcb'[c].status = pcb[c].status /\ pcb'[c].pid = pcb[c].pid
    BY <1>2, <1>7
  <2>. SUFFICES ASSUME ~Orphans, NEW b \in Range(waiting_list'), NEW c \in Range(pcb'[b].children),
                       pcb'[c].status = "Zombie"
                PROVE  pcb'[b].waits \notin {AnyPid, pcb'[c].pid}
    BY DEF MissedOK
  <2>3. b \in Range(waiting_list) /\ pcb'[b] = pcb[b] /\ c \in Range(pcb[b].children)
        /\ c \in InUse \ {z}
    BY <1>1, <2>1
  <2>4. pcb[c].status = "Zombie" /\ pcb'[c].pid = pcb[c].pid
    BY <2>2, <2>3
  <2>. QED BY <2>3, <2>4 DEF ProcessInv, MissedOK
<1>18. DeathOK'
  BY <1>1 DEF DeathOK, DiesOnlyWhen, Issues
<1>. QED BY <1>8, <1>9, <1>10, <1>12, <1>13, <1>14, <1>15, <1>16, <1>17, <1>18 DEF ProcessInv

\* The running process goes to sleep: everything but its timer.
LEMMA SleepStep ==
  ASSUME ProcessInv, NEW p \in Blocks, Issues(p), ready_list # <<>>,
         NEW why \in NoWait..(LastPid + 1), Sleep(p, why),
         \A c \in Range(pcb[p].children) :
           pcb[c].status = "Zombie" => why \notin {AnyPid, pcb[c].pid}
  PROVE  /\ TablesOK' /\ PidsOK' /\ Placed' /\ StatusesOK' /\ FamiliesOK' /\ SleeperAwake'
         /\ KinOK' /\ MissedOK' /\ DeathOK'
         /\ Owners' = Owners \cup (IF why = NoWait THEN {p} ELSE {})
         /\ p \notin Owners
<1>1. /\ p = running /\ p # sleeper
      /\ waiting_list' = Append(waiting_list, p)
      /\ running' = Head(ready_list) /\ ready_list' = Tail(ready_list)
      /\ pcb' = [pcb EXCEPT ![p].status = "Waiting", ![p].waits = why]
      /\ UNCHANGED <<pool, ptrs, last_pid, zombie_list, sleeper, panic>>
  BY DEF Sleep, Issues
<1>2. /\ pcb \in [Blocks -> Pcb] /\ running \in InUse /\ InUse \subseteq Blocks
      /\ Range(ready_list) \subseteq InUse /\ Range(waiting_list) \subseteq InUse
      /\ Range(zombie_list) \subseteq InUse
      /\ running \notin Range(ready_list) /\ running \notin Range(waiting_list)
      /\ running \notin Range(zombie_list)
  BY InvFacts
<1>3. /\ pcb' \in [Blocks -> Pcb]
      /\ pcb'[p].status = "Waiting" /\ pcb'[p].waits = why
      /\ pcb'[p].pid = pcb[p].pid /\ pcb'[p].parent = pcb[p].parent
      /\ pcb'[p].children = pcb[p].children
      /\ \A b \in Blocks : b # p => pcb'[b] = pcb[b]
  <2>. DEFINE r == [pcb[p] EXCEPT !.status = "Waiting", !.waits = why]
  <2>1. r \in Pcb /\ r.status = "Waiting" /\ r.waits = why /\ r.pid = pcb[p].pid
        /\ r.parent = pcb[p].parent /\ r.children = pcb[p].children
    BY <1>2 DEF Pcb
  <2>2. pcb' = [pcb EXCEPT ![p] = r]
    BY <1>1, <1>2
  <2>. HIDE DEF r
  <2>. QED BY <1>2, <2>1, <2>2
<1>4. InUse' = InUse
  BY <1>1 DEF InUse
<1>5. /\ Places(running', ready_list', waiting_list', zombie_list', InUse)
      /\ running' \in Range(ready_list) /\ Range(ready_list') = Range(ready_list) \ {running'}
      /\ Range(waiting_list') = Range(waiting_list) \cup {p}
  BY <1>1, PlacesSlept DEF ProcessInv, Placed
<1>6. TablesOK' /\ PidsOK' /\ FamiliesOK' /\ KinOK'
  <2>1. \A b \in Blocks : /\ pcb'[b].pid = pcb[b].pid
                          /\ pcb'[b].parent = pcb[b].parent
                          /\ pcb'[b].children = pcb[b].children
                          /\ b \notin InUse => pcb'[b] = pcb[b]
    BY <1>1, <1>2, <1>3
  <2>. QED BY <1>1, <1>3, <2>1, Moved
<1>7. \A b \in Range(waiting_list) \cup Range(ready_list) \cup Range(zombie_list) :
        b \in Blocks /\ b # p /\ pcb'[b] = pcb[b]
  BY <1>1, <1>2, <1>3
<1>8. StatusesOK'
  BY <1>1, <1>3, <1>5, <1>7 DEF ProcessInv, StatusesOK
<1>9. SleeperAwake'
  BY <1>1, <1>5 DEF ProcessInv, SleeperAwake
<1>10. Owners' = Owners \cup (IF why = NoWait THEN {p} ELSE {}) /\ p \notin Owners
  BY <1>3, <1>5, <1>7 DEF Owners
<1>11. MissedOK'
  <2>1. \A c \in Blocks : /\ pcb'[c].pid = pcb[c].pid
                          /\ pcb'[c].status = "Zombie" => pcb[c].status = "Zombie"
    BY <1>3
  <2>2. \A b \in Blocks : Range(pcb[b].children) \subseteq Blocks
    BY <1>2 DEF ProcessInv, FamiliesOK
  <2>3. \A b \in Range(waiting_list) : b \in Blocks /\ pcb'[b] = pcb[b]
    BY <1>7
  <2>. QED BY <1>3, <1>5, <2>1, <2>2, <2>3 DEF ProcessInv, MissedOK
<1>12. DeathOK'
  BY <1>1 DEF DeathOK, DiesOnlyWhen, Issues
<1>. QED BY <1>4, <1>5, <1>6, <1>8, <1>9, <1>10, <1>11, <1>12 DEF Placed

\* The pids asked for in a wait are pids.
LEMMA PidsAre ==
  ASSUME ProcessInv, NEW p \in Blocks, NEW pid \in Pids(p)
  PROVE  pid \in NoWait..(LastPid + 1) /\ pid # NoWait
<1>1. \A c \in Range(pcb[p].children) : c \in InUse
  BY DEF ProcessInv, FamiliesOK
<1>2. \A c \in InUse : pcb[c].pid \in 0..(last_pid - 1)
  BY DEF ProcessInv, PidsOK
<1>3. \A c \in Range(pcb[p].children) : pcb[c].pid \in 0..LastPid
  BY <1>1, <1>2, SleepAssumption DEF ProcessInv, TablesOK
<1>4. Pids(p) = {AnyPid, LastPid + 1} \cup {pcb[c].pid : c \in Range(pcb[p].children)}
  BY DEF Pids, ToSet, Range
<1>. QED BY <1>3, <1>4, SleepAssumption DEF AnyPid, NoWait

\* Waiting for a child.
LEMMA WaitStep ==
  ASSUME ProcessInv, NEW p \in Blocks, NEW pid \in Pids(p), internal_wait(p, pid)
  PROVE  ProcessInv'
<1>. DEFINE z == Awaited(p, pid)
<1>1. pcb[p].children \in Seq(Blocks) /\ pcb[p].children # <<>> /\ Issues(p)
  BY InvFacts DEF Pcb, internal_wait
<1>2. z \in Range(pcb[p].children)
  BY <1>1, AwaitedChild
<1>3. CASE Dies
  <2>1. ready_list = <<>> /\ running # sleeper
    BY <1>3 DEF internal_wait, Issues, Dies, Reap, Sleep
  <2>. QED BY <1>3, <2>1, NobodyReady, DiesStep
<1>4. CASE pcb[z].status = "Zombie" /\ Reap(p, z)
  BY <1>1, <1>2, <1>4, ReapStep
<1>5. CASE pcb[z].status # "Zombie" /\ ready_list # <<>> /\ Sleep(p, pid) /\ UNCHANGED timer_list
  <2>1. pid \in NoWait..(LastPid + 1) /\ pid # NoWait
    BY PidsAre
  <2>0. ASSUME NEW c \in Range(pcb[p].children), pcb[c].status = "Zombie"
        PROVE  pid \notin {AnyPid, pcb[c].pid}
    <3>1. CASE pid = AnyPid
      <4>1. (\E b \in Range(pcb[p].children) : pcb[b].status = "Zombie") => pcb[z].status = "Zombie"
        BY <1>1, <3>1, AwaitedChild
      <4>. QED BY <1>5, <2>0, <4>1
    <3>2. CASE pid # AnyPid /\ pid = pcb[c].pid
      <4>1. (\E b \in Range(pcb[p].children) : pcb[b].pid = pid) => pcb[z].pid = pid
        BY <1>1, <3>2, AwaitedChild
      <4>2. pcb[z].pid = pcb[c].pid
        BY <3>2, <4>1
      <4>3. c \in InUse /\ z \in InUse
        BY <1>2 DEF ProcessInv, FamiliesOK
      <4>4. z = c
        BY <4>2, <4>3 DEF ProcessInv, PidsOK
      <4>. QED BY <1>5, <2>0, <4>4
    <3>. QED BY <3>1, <3>2
  <2>2. /\ TablesOK' /\ PidsOK' /\ Placed' /\ StatusesOK' /\ FamiliesOK' /\ SleeperAwake'
        /\ KinOK' /\ MissedOK' /\ DeathOK' /\ Owners' = Owners
    BY <1>1, <1>5, <2>0, <2>1, SleepStep
  <2>3. TimersOK'
    BY <1>5, <2>2 DEF ProcessInv, TimersOK
  <2>. QED BY <2>2, <2>3 DEF ProcessInv
<1>. QED BY <1>3, <1>4, <1>5 DEF internal_wait

\* Sleeping for a time.
LEMMA InternalSleepStep ==
  ASSUME ProcessInv, NEW p \in Blocks, NEW n \in SleepTimes, internal_sleep(p, n)
  PROVE  ProcessInv'
<1>1. CASE Dies
  <2>1. ready_list = <<>> /\ running # sleeper
    BY <1>1 DEF internal_sleep, Issues, Dies, Sleep
  <2>. QED BY <1>1, <2>1, NobodyReady, DiesStep
<1>2. CASE ~Dies
  <2>1. Issues(p) /\ ready_list # <<>> /\ timer_list' = TimerList_add(timer_list, n, p)
        /\ Sleep(p, NoWait)
    BY <1>2 DEF internal_sleep
  <2>2. NoWait \in NoWait..(LastPid + 1) /\ n \in Nat
    BY SleepAssumption DEF NoWait
  <2>3. /\ TablesOK' /\ PidsOK' /\ Placed' /\ StatusesOK' /\ FamiliesOK' /\ SleeperAwake'
        /\ KinOK' /\ MissedOK' /\ DeathOK' /\ Owners' = Owners \cup {p} /\ p \notin Owners
    <3>1. \A c \in InUse : pcb[c].pid \in 0..(last_pid - 1)
      BY DEF ProcessInv, PidsOK
    <3>2. \A c \in Range(pcb[p].children) : NoWait \notin {AnyPid, pcb[c].pid}
      BY <3>1 DEF ProcessInv, FamiliesOK, NoWait, AnyPid
    <3>. QED BY <2>1, <2>2, <3>2, SleepStep
  <2>4. TimersOK'
    BY <2>1, <2>2, <2>3, AddedTimer DEF ProcessInv, TimersOK
  <2>. QED BY <2>3, <2>4 DEF ProcessInv
<1>. QED BY <1>1, <1>2

\* A process that ends while its parent awaits it.
LEMMA ToParentStep ==
  ASSUME ProcessInv, NEW p \in Blocks, Issues(p), p # Init_pcb, ParentAwaits(p), ExitToParent(p),
         Orphans \/ pcb[p].children = <<>>
  PROVE  ProcessInv'
<1>. DEFINE q == pcb[p].parent
<1>1. CASE Dies
  <2>1. p = running /\ p \in InUse /\ p \notin Range(pcb[q].children)
    BY <1>1, InvFacts DEF ExitToParent, Issues, Dies, ToSet, Range
  <2>2. Orphans
    BY <2>1 DEF ProcessInv, KinOK
  <2>. QED BY <1>1, <2>2, DiesStep
<1>2. CASE ~Dies
  <2>1. /\ p = running /\ p # sleeper /\ p \in Range(pcb[q].children)
        /\ pcb' = [Reparented(p) EXCEPT ![q].status = "Running", ![q].waits = NoWait,
                                        ![q].children = Without(@, {p}), ![p] = Garbage]
        /\ waiting_list' = Without(waiting_list, {q})
        /\ running' = q
        /\ pool' = Released(pool, p)
        /\ UNCHANGED <<ptrs, last_pid, ready_list, zombie_list, sleeper, panic>>
        /\ timer_list' = Without(timer_list, {t \in ToSet(timer_list) : t.pcb = p})
    BY <1>2 DEF ExitToParent, TimersReleased, Issues, ToSet, Range
  <2>2. /\ pcb \in [Blocks -> Pcb] /\ running \in InUse /\ InUse \subseteq Blocks
        /\ Range(ready_list) \subseteq InUse /\ Range(waiting_list) \subseteq InUse
        /\ Range(zombie_list) \subseteq InUse
        /\ running \notin Range(ready_list) /\ running \notin Range(waiting_list)
        /\ running \notin Range(zombie_list)
        /\ Range(ready_list) \cap Range(waiting_list) = {}
        /\ Range(waiting_list) \cap Range(zombie_list) = {}
    BY InvFacts
  <2>3. /\ q \in Blocks /\ pcb[q].status = "Waiting" /\ pcb[q].waits \in {AnyPid, pcb[p].pid}
    BY <2>1, <2>2 DEF ProcessInv, FamiliesOK, ParentAwaits
  <2>4. q \in Range(waiting_list) /\ q \in InUse /\ q # p /\ q \notin Owners
    <3>1. q \in Range(waiting_list)
      BY <2>3, StatusPlace
    <3>2. pcb[p].pid \in 0..(last_pid - 1)
      BY <2>1, <2>2 DEF ProcessInv, PidsOK
    <3>3. pcb[q].waits # NoWait
      BY <2>3, <3>2 DEF AnyPid, NoWait
    <3>. QED BY <2>1, <2>2, <3>1, <3>3 DEF Owners
  <2>. HIDE DEF q
  <2>5. Pool(pool', NumPCBs) /\ InUse' = InUse \ {p} /\ p \in InUse
    <3>1. p \in InUse
      BY <2>1, <2>2
    <3>. QED BY <2>1, <3>1, ReleasedPool, BlocksAre DEF ProcessInv, TablesOK, InUse
  <2>6. /\ \A b \in Blocks : Range(pcb[b].children) \subseteq InUse \ {Init_pcb}
        /\ \A b \in Blocks : pcb[b].children \in Seq(Blocks) /\ IsInjective(pcb[b].children)
        /\ \A b, c \in Blocks : b # c => Range(pcb[b].children) \cap Range(pcb[c].children) = {}
        /\ Init_pcb \in InUse
    BY <2>2 DEF ProcessInv, FamiliesOK, Pcb
  <2>. DEFINE all == pcb[Init_pcb].children \o pcb[p].children
              theirs == IF q = Init_pcb THEN all ELSE pcb[q].children
              left == Without(theirs, {p})
  <2>7. /\ all \in Seq(Blocks) /\ IsInjective(all)
        /\ Range(all) = Range(pcb[Init_pcb].children) \cup Range(pcb[p].children)
    <3>. DEFINE one == pcb[Init_pcb].children
                two == pcb[p].children
    <3>1. /\ one \in Seq(Blocks) /\ two \in Seq(Blocks) /\ IsInjective(one) /\ IsInjective(two)
          /\ Range(one) \cap Range(two) = {}
      BY <2>2, <2>6
    <3>. HIDE DEF one, two
    <3>2. one \o two \in Seq(Blocks) /\ IsInjective(one \o two)
          /\ Range(one \o two) = Range(one) \cup Range(two)
      BY <3>1, ConcatRange
    <3>. QED BY <3>2 DEF one, two
  <2>. HIDE DEF all
  <2>8. theirs \in Seq(Blocks) /\ IsInjective(theirs)
        /\ Range(theirs) = IF q = Init_pcb
                           THEN Range(pcb[Init_pcb].children) \cup Range(pcb[p].children)
                           ELSE Range(pcb[q].children)
    BY <2>3, <2>6, <2>7
  <2>. HIDE DEF theirs
  <2>9. left \in Seq(Blocks) /\ IsInjective(left) /\ Range(left) = Range(theirs) \ {p}
    BY <2>8, WithoutRange
  <2>. HIDE DEF left
  <2>10. /\ pcb' \in [Blocks -> Pcb]
         /\ pcb'[p] = Garbage
         /\ pcb'[q].children = left /\ pcb'[q].status = "Running"
         /\ pcb'[q].pid = pcb[q].pid /\ pcb'[q].parent = pcb[q].parent
         /\ Init_pcb # q => pcb'[Init_pcb].children = all
         /\ pcb'[Init_pcb].pid = pcb[Init_pcb].pid /\ pcb'[Init_pcb].parent = pcb[Init_pcb].parent
         /\ Init_pcb # q => pcb'[Init_pcb].status = pcb[Init_pcb].status
                            /\ pcb'[Init_pcb].waits = pcb[Init_pcb].waits
         /\ \A b \in Blocks : b # p /\ b # q /\ b # Init_pcb => pcb'[b] = pcb[b]
    <3>. DEFINE i == [pcb[Init_pcb] EXCEPT !.children = all]
                old == IF q = Init_pcb THEN i ELSE pcb[q]
                new == [old EXCEPT !.status = "Running", !.waits = NoWait, !.children = left]
                mid == Reparented(p)
    <3>1. i \in Pcb /\ i.children = all /\ i.pid = pcb[Init_pcb].pid
          /\ i.parent = pcb[Init_pcb].parent /\ i.status = pcb[Init_pcb].status
          /\ i.waits = pcb[Init_pcb].waits
      <4>1. pcb[Init_pcb] \in Pcb
        BY <2>2, <2>6
      <4>. QED BY <2>7, <4>1 DEF Pcb
    <3>2. /\ DOMAIN mid = Blocks /\ mid[Init_pcb] = i
          /\ \A b \in Blocks : b # p /\ b # Init_pcb => mid[b] = pcb[b]
      BY <2>2, <2>6 DEF Reparented, all
    <3>. HIDE DEF i, mid
    <3>3. mid[q] = old /\ old \in Pcb /\ old.children = theirs
          /\ old.pid = pcb[q].pid /\ old.parent = pcb[q].parent
      BY <2>2, <2>3, <2>4, <3>1, <3>2 DEF theirs
    <3>. HIDE DEF old
    <3>4. new \in Pcb /\ new.children = left /\ new.status = "Running" /\ new.pid = pcb[q].pid
          /\ new.parent = pcb[q].parent
      <4>1. NoWait \in NoWait..(LastPid + 1)
        BY SleepAssumption DEF NoWait
      <4>. QED BY <2>9, <3>3, <4>1 DEF Pcb
    <3>5. pcb' = [[mid EXCEPT ![q] = new] EXCEPT ![p] = Garbage]
      BY <2>1, <2>3, <2>4, <3>2, <3>3 DEF left, mid
    <3>6. Garbage \in Pcb
      <4>1. NoPcb \in NoPcb..LastPid /\ NoWait \in NoWait..(LastPid + 1)
        BY SleepAssumption DEF NoPcb, NoWait
      <4>. QED BY <4>1 DEF Garbage, Pcb
    <3>. HIDE DEF new
    <3>7. /\ DOMAIN pcb' = Blocks /\ pcb'[p] = Garbage /\ pcb'[q] = new
          /\ \A b \in Blocks : b # p /\ b # q => pcb'[b] = mid[b]
      BY <2>3, <2>4, <3>2, <3>5
    <3>8. \A b \in Blocks : pcb'[b] \in Pcb
      BY <2>2, <2>6, <3>1, <3>2, <3>4, <3>6, <3>7
    <3>9. pcb' \in [Blocks -> Pcb]
      <4>1. pcb' = [b \in Blocks |-> pcb'[b]]
        BY <3>2, <3>5, <3>7 DEF mid, Reparented
      <4>. QED BY <3>7, <3>8, <4>1
    <3>. QED BY <2>2, <2>6, <3>1, <3>2, <3>4, <3>7, <3>9
  <2>11. TablesOK'
    <3>1. IsFiniteSet(InUse) /\ Cardinality(InUse) \in Nat
      BY InvFacts
    <3>2. Cardinality(InUse \ {p}) = Cardinality(InUse) - 1
      BY <2>5, <3>1, FS_RemoveElement
    <3>3. \A b \in Blocks \ InUse' : pcb'[b] = Garbage
      BY <2>2, <2>4, <2>5, <2>6, <2>10 DEF ProcessInv, TablesOK
    <3>4. ptrs' \in Nat /\ ptrs' + Cardinality(InUse') <= NumPCBs + 1
      BY <2>1, <2>5, <3>1, <3>2, BlocksAre DEF ProcessInv, TablesOK
    <3>. QED BY <2>1, <2>5, <2>10, <3>3, <3>4 DEF ProcessInv, TablesOK
  <2>12. PidsOK'
    <3>1. \A b \in InUse' : b \in InUse /\ pcb'[b].pid = pcb[b].pid
      BY <2>2, <2>5, <2>10
    <3>. QED BY <2>1, <3>1 DEF ProcessInv, PidsOK
  <2>13. Range(waiting_list') = Range(waiting_list) \ {q} /\ Placed'
    <3>1. Places(running, ready_list, waiting_list, zombie_list, InUse)
      BY DEF ProcessInv, Placed
    <3>2. /\ Places(q, ready_list, Without(waiting_list, {q}), zombie_list, InUse \ {running})
          /\ Range(Without(waiting_list, {q})) = Range(waiting_list) \ {q}
      <4>1. q \in Range(waiting_list)
        BY <2>4
      <4>2. Places(q, ready_list, Without(waiting_list, {q}), zombie_list, InUse \ {running})
        BY <3>1, <4>1, PlacesReturned
      <4>3. Range(Without(waiting_list, {q})) = Range(waiting_list) \ {q}
        BY <3>1, WithoutRange DEF Places
      <4>. QED BY <4>2, <4>3
    <3>. QED BY <2>1, <2>5, <3>2 DEF Placed
  <2>14. \A b \in Range(waiting_list') \cup Range(ready_list) \cup Range(zombie_list) :
           /\ b \in Blocks /\ b # p /\ b # q
           /\ pcb'[b].status = pcb[b].status /\ pcb'[b].waits = pcb[b].waits
           /\ b # Init_pcb => pcb'[b] = pcb[b]
    <3>1. Range(waiting_list') \cup Range(ready_list) \cup Range(zombie_list) \subseteq Blocks
      BY <2>2, <2>13
    <3>2. p \notin Range(waiting_list') \cup Range(ready_list) \cup Range(zombie_list)
      BY <2>1, <2>2, <2>13
    <3>3. q \notin Range(waiting_list') \cup Range(ready_list) \cup Range(zombie_list)
      BY <2>2, <2>4, <2>13
    <3>4. \A b \in Blocks : b # p /\ b # q =>
            /\ pcb'[b].status = pcb[b].status /\ pcb'[b].waits = pcb[b].waits
            /\ b # Init_pcb => pcb'[b] = pcb[b]
      BY <2>10
    <3>. QED BY <3>1, <3>2, <3>3, <3>4
  <2>15. StatusesOK'
    <3>1. \A b \in Range(waiting_list') \cup Range(ready_list) \cup Range(zombie_list) :
            pcb'[b].status = pcb[b].status
      BY <2>14
    <3>2. /\ \A b \in Range(ready_list) : pcb'[b].status = "Ready"
          /\ \A b \in Range(waiting_list') : pcb'[b].status = "Waiting"
          /\ \A b \in Range(zombie_list) : pcb'[b].status = "Zombie"
          /\ Init_pcb \notin Range(zombie_list)
      BY <2>13, <3>1 DEF ProcessInv, StatusesOK
    <3>3. \A b \in Range(zombie_list) : pcb'[b].children = <<>>
      BY <2>14, <3>2 DEF ProcessInv, StatusesOK
    <3>4. pcb'[running'].status = "Running"
      BY <2>1, <2>10
    <3>. QED BY <2>1, <3>2, <3>3, <3>4 DEF StatusesOK
  <2>16. TimersOK'
    <3>1. Owners' = Owners
      BY <2>4, <2>13, <2>14 DEF Owners
    <3>2. p \notin Owners
      BY <2>1, <2>2 DEF Owners
    <3>3. timer_list' = timer_list
      BY <2>1, <3>2, NoTimer DEF ProcessInv, TimersOK
    <3>. QED BY <3>1, <3>3 DEF ProcessInv, TimersOK
  <2>17. FamiliesOK'
    <3>1. p \notin Range(pcb[p].children)
          /\ \A b \in Blocks : b # q => p \notin Range(pcb[b].children)
      BY <2>1, <2>3, <2>4, <2>6
    <3>2. /\ pcb'[p].children = <<>> /\ Range(pcb'[p].children) = {} /\ IsInjective(pcb'[p].children)
      BY <2>10 DEF Garbage, Range, IsInjective
    <3>3. ASSUME NEW b \in Blocks
          PROVE  /\ IsInjective(pcb'[b].children)
                 /\ Range(pcb'[b].children) \subseteq
                      (Range(pcb[b].children)
                         \cup IF b = Init_pcb THEN Range(pcb[p].children) ELSE {}) \ {p}
      <4>1. CASE b = p
        BY <3>2, <4>1
      <4>2. CASE b = q
        BY <2>8, <2>9, <2>10, <4>2
      <4>3. CASE b = Init_pcb /\ b # q
        BY <2>7, <2>10, <3>1, <4>3
      <4>4. CASE b # p /\ b # q /\ b # Init_pcb
        BY <2>6, <2>10, <3>1, <4>4
      <4>. QED BY <4>1, <4>2, <4>3, <4>4
    <3>4. Init_pcb \in InUse'
      BY <2>5, <2>6
    <3>5. \A b \in Blocks : /\ IsInjective(pcb'[b].children)
                            /\ Range(pcb'[b].children) \subseteq InUse' \ {Init_pcb}
      BY <2>2, <2>5, <2>6, <3>3
    <3>6. ASSUME NEW b \in Blocks, NEW c \in Blocks, b # c
          PROVE  Range(pcb'[b].children) \cap Range(pcb'[c].children) = {}
      <4>1. CASE b = p \/ c = p
        BY <3>2, <4>1
      <4>2. CASE b # p /\ c # p
        BY <2>2, <2>6, <3>3, <3>6, <4>2
      <4>. QED BY <4>1, <4>2
    <3>7. \A b \in InUse' \ {Init_pcb} : pcb'[b].parent \in Blocks
      BY <2>2, <2>5, <2>10 DEF ProcessInv, FamiliesOK
    <3>. QED BY <3>4, <3>5, <3>6, <3>7 DEF FamiliesOK
  <2>18. SleeperAwake'
    BY <2>1 DEF ProcessInv, SleeperAwake
  <2>19. ASSUME ~Orphans, NEW b \in Blocks
         PROVE  Range(pcb'[b].children) = Range(pcb[b].children) \ {p}
    <3>1. Range(pcb[p].children) = {}
      BY <2>19 DEF Range
    <3>2. CASE b = p
      <4>1. pcb'[p].children = <<>>
        BY <2>10 DEF Garbage
      <4>2. Range(<<>>) = {}
        BY DEF Range
      <4>. QED BY <3>1, <3>2, <4>1, <4>2
    <3>3. CASE b = q
      BY <2>8, <2>9, <2>10, <3>1, <3>3
    <3>4. CASE b = Init_pcb /\ b # q
      <4>1. p \notin Range(pcb[b].children)
        BY <2>1, <2>3, <2>6, <3>4
      <4>. QED BY <2>7, <2>10, <3>1, <3>4, <4>1
    <3>5. CASE b # p /\ b # q /\ b # Init_pcb
      <4>1. p \notin Range(pcb[b].children)
        BY <2>1, <2>3, <2>6, <3>5
      <4>. QED BY <2>10, <3>5, <4>1
    <3>. QED BY <3>2, <3>3, <3>4, <3>5
  <2>20. KinOK'
    <3>. SUFFICES ASSUME ~Orphans
                  PROVE  /\ pcb'[Init_pcb].parent = NoPcb
                         /\ \A c \in InUse' \ {Init_pcb} : pcb'[c].parent \in InUse'
                         /\ \A b, c \in InUse' : c \in Range(pcb'[b].children) <=> pcb'[c].parent = b
      BY DEF KinOK
    <3>1. /\ pcb[Init_pcb].parent = NoPcb
          /\ \A c \in InUse \ {Init_pcb} : pcb[c].parent \in InUse
          /\ \A b, c \in InUse : c \in Range(pcb[b].children) <=> pcb[c].parent = b
      BY DEF ProcessInv, KinOK
    <3>2. \A c \in InUse' : c \in InUse /\ c # p /\ c \in Blocks /\ pcb'[c].parent = pcb[c].parent
      BY <2>2, <2>5, <2>10
    <3>3. \A c \in InUse : pcb[c].parent # p
      <4>1. Range(pcb[p].children) = {}
        BY DEF Range
      <4>. QED BY <2>5, <3>1, <4>1
    <3>4. \A b, c \in InUse' : c \in Range(pcb'[b].children) <=> c \in Range(pcb[b].children)
      BY <2>19, <3>2
    <3>5. \A c \in InUse' \ {Init_pcb} : pcb'[c].parent \in InUse'
      BY <2>5, <3>1, <3>2, <3>3
    <3>6. Init_pcb \in InUse'
      BY <2>5, <2>6
    <3>. QED BY <3>1, <3>2, <3>4, <3>5, <3>6
  <2>21. MissedOK'
    <3>. SUFFICES ASSUME ~Orphans, NEW b \in Range(waiting_list'), NEW c \in Range(pcb'[b].children),
                         pcb'[c].status = "Zombie"
                  PROVE  pcb'[b].waits \notin {AnyPid, pcb'[c].pid}
      BY DEF MissedOK
    <3>1. b \in Range(waiting_list) /\ b \in Blocks /\ pcb'[b].waits = pcb[b].waits
      BY <2>13, <2>14
    <3>2. c \in Range(pcb[b].children) /\ c # p /\ c \in Blocks
      BY <2>2, <2>6, <2>19, <3>1
    <3>3. pcb[c].status = "Zombie" /\ pcb'[c].pid = pcb[c].pid
      BY <2>10, <3>2
    <3>. QED BY <3>1, <3>2, <3>3 DEF ProcessInv, MissedOK
  <2>22. DeathOK'
    BY <2>1 DEF DeathOK, DiesOnlyWhen, Issues
  <2>. QED BY <2>11, <2>12, <2>13, <2>15, <2>16, <2>17, <2>18, <2>20, <2>21, <2>22 DEF ProcessInv
<1>. QED BY <1>1, <1>2

\* The PCB of a process that ends.
LEMMA EndedPcb ==
  ASSUME NEW r \in Pcb
  PROVE  LET z == [r EXCEPT !.children = <<>>, !.status = "Zombie"]
         IN  z \in Pcb /\ z.children = <<>> /\ z.status = "Zombie" /\ z.pid = r.pid
             /\ z.parent = r.parent /\ z.waits = r.waits
<1>1. <<>> \in Seq(Blocks)
  OBVIOUS
<1>. QED BY <1>1 DEF Pcb

\* A process that ends and stays as a zombie until it is reaped.
LEMMA ToReadyStep ==
  ASSUME ProcessInv, NEW p \in Blocks, Issues(p), p # Init_pcb, ~ParentAwaits(p), ExitToReady(p),
         Orphans \/ pcb[p].children = <<>>
  PROVE  ProcessInv'
<1>1. CASE Dies
  <2>1. ready_list = <<>> /\ running # sleeper
    BY <1>1 DEF ExitToReady, Issues, Dies
  <2>. QED BY <1>1, <2>1, NobodyReady, DiesStep
<1>2. CASE ~Dies
  <2>1. /\ p = running /\ p # sleeper /\ ready_list # <<>>
        /\ pcb' = [Reparented(p) EXCEPT ![Head(ready_list)].status = "Running"]
        /\ zombie_list' = Append(zombie_list, p)
        /\ running' = Head(ready_list) /\ ready_list' = Tail(ready_list)
        /\ UNCHANGED <<pool, ptrs, last_pid, waiting_list, sleeper, panic>>
        /\ timer_list' = Without(timer_list, {t \in ToSet(timer_list) : t.pcb = p})
    BY <1>2 DEF ExitToReady, TimersReleased, Issues
  <2>2. /\ pcb \in [Blocks -> Pcb] /\ running \in InUse /\ InUse \subseteq Blocks
        /\ Range(ready_list) \subseteq InUse /\ Range(waiting_list) \subseteq InUse
        /\ Range(zombie_list) \subseteq InUse
        /\ running \notin Range(ready_list) /\ running \notin Range(waiting_list)
        /\ running \notin Range(zombie_list)
        /\ Range(ready_list) \cap Range(waiting_list) = {}
        /\ Range(ready_list) \cap Range(zombie_list) = {}
    BY InvFacts
  <2>3. InUse' = InUse
    BY <2>1 DEF InUse
  <2>. DEFINE h == Head(ready_list)
  <2>4. /\ Placed' /\ h \in Range(ready_list) /\ Range(ready_list') = Range(ready_list) \ {h}
        /\ Range(zombie_list') = Range(zombie_list) \cup {p}
    <3>1. Places(running, ready_list, waiting_list, zombie_list, InUse)
      BY DEF ProcessInv, Placed
    <3>2. /\ Places(Head(ready_list), Tail(ready_list), waiting_list,
                    Append(zombie_list, running), InUse)
          /\ Head(ready_list) \in Range(ready_list)
          /\ Range(Tail(ready_list)) = Range(ready_list) \ {Head(ready_list)}
          /\ Range(Append(zombie_list, running)) = Range(zombie_list) \cup {running}
      BY <2>1, <3>1, PlacesEnded
    <3>. QED BY <2>1, <2>3, <3>2 DEF Placed
  <2>. HIDE DEF h
  <2>5. h \in InUse /\ h \in Blocks /\ h # p
    BY <2>1, <2>2, <2>4
  <2>6. /\ \A b \in Blocks : Range(pcb[b].children) \subseteq InUse \ {Init_pcb}
        /\ \A b \in Blocks : pcb[b].children \in Seq(Blocks) /\ IsInjective(pcb[b].children)
        /\ \A b, c \in Blocks : b # c => Range(pcb[b].children) \cap Range(pcb[c].children) = {}
        /\ Init_pcb \in InUse /\ Init_pcb \notin Range(zombie_list)
    BY <2>2 DEF ProcessInv, FamiliesOK, StatusesOK, Pcb
  <2>. DEFINE all == pcb[Init_pcb].children \o pcb[p].children
  <2>7. /\ all \in Seq(Blocks) /\ IsInjective(all)
        /\ Range(all) = Range(pcb[Init_pcb].children) \cup Range(pcb[p].children)
    <3>. DEFINE one == pcb[Init_pcb].children
                two == pcb[p].children
    <3>1. /\ one \in Seq(Blocks) /\ two \in Seq(Blocks) /\ IsInjective(one) /\ IsInjective(two)
          /\ Range(one) \cap Range(two) = {}
      BY <2>2, <2>6
    <3>. HIDE DEF one, two
    <3>2. one \o two \in Seq(Blocks) /\ IsInjective(one \o two)
          /\ Range(one \o two) = Range(one) \cup Range(two)
      BY <3>1, ConcatRange
    <3>. QED BY <3>2 DEF one, two
  <2>. HIDE DEF all
  <2>8. /\ pcb' \in [Blocks -> Pcb]
        /\ pcb'[p].children = <<>> /\ pcb'[p].status = "Zombie"
        /\ pcb'[Init_pcb].children = all
        /\ pcb'[h].status = "Running"
        /\ \A b \in Blocks : /\ pcb'[b].pid = pcb[b].pid /\ pcb'[b].parent = pcb[b].parent
                             /\ pcb'[b].waits = pcb[b].waits
                             /\ b # p /\ b # Init_pcb => pcb'[b].children = pcb[b].children
                             /\ b # p /\ b # h => pcb'[b].status = pcb[b].status
                             /\ b # p /\ b # h /\ b # Init_pcb => pcb'[b] = pcb[b]
    <3>. DEFINE i == [pcb[Init_pcb] EXCEPT !.children = all]
                z == [pcb[p] EXCEPT !.children = <<>>, !.status = "Zombie"]
                mid == Reparented(p)
                r == [mid[h] EXCEPT !.status = "Running"]
    <3>1. i \in Pcb /\ i.children = all /\ i.pid = pcb[Init_pcb].pid
          /\ i.parent = pcb[Init_pcb].parent /\ i.status = pcb[Init_pcb].status
          /\ i.waits = pcb[Init_pcb].waits
      <4>1. pcb[Init_pcb] \in Pcb
        BY <2>2, <2>6
      <4>. QED BY <2>7, <4>1 DEF Pcb
    <3>2. z \in Pcb /\ z.children = <<>> /\ z.status = "Zombie" /\ z.pid = pcb[p].pid
          /\ z.parent = pcb[p].parent /\ z.waits = pcb[p].waits
      <4>1. pcb[p] \in Pcb
        BY <2>2
      <4>. QED BY <4>1, EndedPcb
    <3>3. /\ DOMAIN mid = Blocks /\ mid[Init_pcb] = i /\ mid[p] = z
          /\ mid = [b \in Blocks |-> mid[b]]
          /\ \A b \in Blocks : b # p /\ b # Init_pcb => mid[b] = pcb[b]
      BY <2>2, <2>6 DEF Reparented, all
    <3>. HIDE DEF i, z, mid
    <3>4. \A b \in Blocks : mid[b] \in Pcb
      BY <2>2, <3>1, <3>2, <3>3
    <3>5. r \in Pcb /\ r.status = "Running" /\ r.pid = mid[h].pid /\ r.parent = mid[h].parent
          /\ r.waits = mid[h].waits /\ r.children = mid[h].children
      BY <2>5, <3>4 DEF Pcb
    <3>6. pcb' = [mid EXCEPT ![h] = r]
      BY <2>1 DEF h, mid
    <3>. HIDE DEF r
    <3>7. pcb' \in [Blocks -> Pcb] /\ pcb'[h] = r /\ \A b \in Blocks : b # h => pcb'[b] = mid[b]
      BY <2>5, <3>3, <3>4, <3>5, <3>6
    <3>8. \A b \in Blocks : /\ mid[b].pid = pcb[b].pid /\ mid[b].parent = pcb[b].parent
                            /\ mid[b].waits = pcb[b].waits
                            /\ b # p /\ b # Init_pcb => mid[b].children = pcb[b].children
                            /\ b # p => mid[b].status = pcb[b].status
      BY <3>1, <3>2, <3>3
    <3>9. mid[p].children = <<>> /\ mid[p].status = "Zombie" /\ mid[Init_pcb].children = all
      BY <3>1, <3>2, <3>3
    <3>10. \A b \in Blocks : /\ pcb'[b].pid = mid[b].pid /\ pcb'[b].parent = mid[b].parent
                             /\ pcb'[b].waits = mid[b].waits
                             /\ pcb'[b].children = mid[b].children
                             /\ b # h => pcb'[b] = mid[b]
      BY <3>5, <3>7
    <3>. QED BY <2>2, <2>5, <2>6, <3>3, <3>5, <3>7, <3>8, <3>9, <3>10
  <2>9. TablesOK' /\ PidsOK'
    <3>1. \A b \in Blocks \ InUse' : pcb'[b] = Garbage
      BY <2>1, <2>2, <2>3, <2>5, <2>6, <2>8 DEF ProcessInv, TablesOK
    <3>. QED BY <2>1, <2>2, <2>3, <2>8, <3>1 DEF ProcessInv, TablesOK, PidsOK
  <2>10. \A b \in Range(waiting_list) \cup Range(ready_list') \cup Range(zombie_list) :
           b \in Blocks /\ b # p /\ b # h
    <3>1. Range(waiting_list) \cup Range(ready_list') \cup Range(zombie_list) \subseteq Blocks
      BY <2>2, <2>4
    <3>. QED BY <2>1, <2>2, <2>4, <3>1
  <2>11. StatusesOK'
    <3>1. \A b \in Range(waiting_list) \cup Range(ready_list') \cup Range(zombie_list) :
            pcb'[b].status = pcb[b].status
      BY <2>8, <2>10
    <3>2. /\ \A b \in Range(ready_list') : pcb'[b].status = "Ready"
          /\ \A b \in Range(waiting_list) : pcb'[b].status = "Waiting"
          /\ \A b \in Range(zombie_list) : pcb'[b].status = "Zombie"
      BY <2>4, <3>1 DEF ProcessInv, StatusesOK
    <3>3. \A b \in Range(zombie_list) : pcb'[b].children = <<>>
      BY <2>6, <2>8, <2>10 DEF ProcessInv, StatusesOK
    <3>4. running' = h
      BY <2>1 DEF h
    <3>. QED BY <2>1, <2>4, <2>6, <2>8, <3>2, <3>3, <3>4 DEF StatusesOK
  <2>12. TimersOK'
    <3>1. \A b \in Range(waiting_list) : pcb'[b].waits = pcb[b].waits
      BY <2>8, <2>10
    <3>2. Owners' = Owners
      BY <2>1, <3>1 DEF Owners
    <3>3. p \notin Owners
      BY <2>1, <2>2 DEF Owners
    <3>4. timer_list' = timer_list
      BY <2>1, <3>3, NoTimer DEF ProcessInv, TimersOK
    <3>. QED BY <3>2, <3>4 DEF ProcessInv, TimersOK
  <2>13. FamiliesOK'
    <3>1. Range(pcb'[p].children) = {} /\ IsInjective(pcb'[p].children)
      BY <2>8 DEF Range, IsInjective
    <3>2. ASSUME NEW b \in Blocks
          PROVE  /\ IsInjective(pcb'[b].children)
                 /\ Range(pcb'[b].children) \subseteq
                      (Range(pcb[b].children)
                         \cup IF b = Init_pcb THEN Range(pcb[p].children) ELSE {})
      <4>1. CASE b = p
        BY <3>1, <4>1
      <4>2. CASE b = Init_pcb /\ b # p
        BY <2>7, <2>8, <4>2
      <4>3. CASE b # p /\ b # Init_pcb
        BY <2>6, <2>8, <4>3
      <4>. QED BY <4>1, <4>2, <4>3
    <3>3. \A b \in Blocks : /\ IsInjective(pcb'[b].children)
                            /\ Range(pcb'[b].children) \subseteq InUse' \ {Init_pcb}
      BY <2>2, <2>3, <2>6, <3>2
    <3>4. ASSUME NEW b \in Blocks, NEW c \in Blocks, b # c
          PROVE  Range(pcb'[b].children) \cap Range(pcb'[c].children) = {}
      <4>1. CASE b = p \/ c = p
        BY <3>1, <4>1
      <4>2. CASE b # p /\ c # p
        BY <2>2, <2>6, <3>2, <3>4, <4>2
      <4>. QED BY <4>1, <4>2
    <3>5. \A b \in InUse' \ {Init_pcb} : pcb'[b].parent \in Blocks
      BY <2>2, <2>3, <2>8 DEF ProcessInv, FamiliesOK
    <3>. QED BY <2>3, <2>6, <3>3, <3>4, <3>5 DEF FamiliesOK
  <2>14. SleeperAwake'
    <3>1. running' = h
      BY <2>1 DEF h
    <3>. QED BY <2>1, <2>4, <3>1 DEF ProcessInv, SleeperAwake
  <2>15. ASSUME ~Orphans, NEW b \in Blocks
         PROVE  Range(pcb'[b].children) = Range(pcb[b].children)
    <3>1. Range(pcb[p].children) = {} /\ Range(pcb'[p].children) = {}
      BY <2>8, <2>15 DEF Range
    <3>2. CASE b = p
      BY <3>1, <3>2
    <3>3. CASE b = Init_pcb
      BY <2>7, <2>8, <3>1, <3>3
    <3>4. CASE b # p /\ b # Init_pcb
      BY <2>8, <3>4
    <3>. QED BY <3>2, <3>3, <3>4
  <2>16. KinOK'
    <3>1. \A c \in InUse : c \in Blocks /\ pcb'[c].parent = pcb[c].parent
      BY <2>2, <2>8
    <3>2. ~Orphans => \A b \in InUse : Range(pcb'[b].children) = Range(pcb[b].children)
      BY <2>15, <3>1
    <3>. QED BY <2>3, <2>6, <3>1, <3>2 DEF ProcessInv, KinOK
  <2>17. MissedOK'
    <3>. SUFFICES ASSUME ~Orphans, NEW b \in Range(waiting_list'), NEW c \in Range(pcb'[b].children),
                         pcb'[c].status = "Zombie"
                  PROVE  pcb'[b].waits \notin {AnyPid, pcb'[c].pid}
      BY DEF MissedOK
    <3>1. b \in Range(waiting_list) /\ b \in Blocks /\ b \in InUse /\ pcb'[b].waits = pcb[b].waits
      BY <2>1, <2>2, <2>8
    <3>2. c \in Range(pcb[b].children) /\ c \in InUse /\ c \in Blocks /\ pcb'[c].pid = pcb[c].pid
      BY <2>2, <2>6, <2>8, <2>15, <3>1
    <3>3. CASE c = p
      <4>1. pcb[p].parent = b
        BY <3>1, <3>2, <3>3 DEF ProcessInv, KinOK
      <4>2. pcb[b].status = "Waiting"
        BY <3>1 DEF ProcessInv, StatusesOK
      <4>. QED BY <3>1, <3>2, <3>3, <4>1, <4>2 DEF ParentAwaits
    <3>4. CASE c # p
      <4>1. pcb[c].status = "Zombie"
        BY <2>8, <3>2, <3>4
      <4>. QED BY <3>1, <3>2, <4>1 DEF ProcessInv, MissedOK
    <3>. QED BY <3>3, <3>4
  <2>18. DeathOK'
    BY <2>1 DEF DeathOK, DiesOnlyWhen, Issues
  <2>. QED BY <2>4, <2>9, <2>11, <2>12, <2>13, <2>14, <2>16, <2>17, <2>18 DEF ProcessInv
<1>. QED BY <1>1, <1>2

\* Exit.
LEMMA ExitStep ==
  ASSUME ProcessInv, NEW p \in Blocks, internal_exit(p)
  PROVE  ProcessInv'
<1>1. Issues(p) /\ p # Init_pcb /\ (Orphans \/ pcb[p].children = <<>>)
  BY DEF internal_exit
<1>2. CASE ParentAwaits(p) /\ ExitToParent(p)
  BY <1>1, <1>2, ToParentStep
<1>3. CASE ~ParentAwaits(p) /\ ExitToReady(p)
  BY <1>1, <1>3, ToReadyStep
<1>. QED BY <1>2, <1>3 DEF internal_exit

\* disastrOS_start establishes the invariant.
LEMMA InitInv == Init => ProcessInv
<1>. SUFFICES ASSUME Init PROVE ProcessInv
  OBVIOUS
<1>. DEFINE one == PoolAllocator_init(NumPCBs)
            two == BlockTaken(one)
            three == BlockTaken(two)
<1>1. /\ running = 0 /\ waiting_list = <<>> /\ zombie_list = <<>> /\ timer_list = <<>>
      /\ panic = FALSE
  BY DEF Init, Init_pcb
<1>2. Range(<<>>) = {} /\ IsInjective(<<>>) /\ <<>> \in Seq(Blocks)
  BY DEF Range, IsInjective
<1>3. 0 \in Blocks /\ 1 \in Blocks /\ Blocks = 0..(NumPCBs - 1) /\ NumPCBs \in Nat
  BY PoolAssumption DEF Blocks
<1>4. FirstProcess = [pid |-> 0, status |-> "Running", parent |-> -1, children |-> <<>>, waits |-> -1]
      /\ FirstProcess \in Pcb /\ Garbage \in Pcb /\ Garbage.children = <<>>
  <2>1. NoPcb \in NoPcb..LastPid /\ 0 \in NoPcb..LastPid /\ NoWait \in NoWait..(LastPid + 1)
    BY SleepAssumption DEF NoPcb, NoWait
  <2>. QED BY <1>2, <2>1 DEF FirstProcess, Garbage, Pcb, NoPcb, NoWait
<1>5. Pool(two, NumPCBs) /\ Detached(two) = {0}
  <2>1. Pool(one, NumPCBs) /\ Detached(one) = {} /\ ~NoBlock(one) /\ Block(one) = 0
    BY PoolAssumption, InitPool
  <2>. HIDE DEF one
  <2>. QED BY <1>3, <2>1, TakenPool
<1>6. ~NoBlock(two) /\ Block(two) = 1
  <2>1. two.first_idx = 1
    BY PoolAssumption DEF BlockTaken, PoolAllocator_init
  <2>. QED BY <2>1 DEF NoBlock, Block, NullIdx
<1>. HIDE DEF one, two
<1>7. Pool(three, NumPCBs) /\ Detached(three) = {0, 1}
  BY <1>3, <1>5, <1>6, TakenPool
<1>. HIDE DEF three
<1>8. Owners = {} /\ TimersOK
  <2>1. Owners = {}
    BY <1>1, <1>2 DEF Owners
  <2>. QED BY <1>1, <2>1 DEF TimersOK, Timers
<1>11. MissedOK /\ DeathOK
  BY <1>1, <1>2 DEF MissedOK, DeathOK, DiesOnlyWhen
<1>9. CASE /\ sleeper = NoPcb
           /\ pool = two
           /\ ptrs = NumPCBs
           /\ pcb = [b \in Blocks |-> IF b = Init_pcb THEN FirstProcess ELSE Garbage]
           /\ last_pid = 1
           /\ ready_list = <<>>
  <2>1. InUse = {0}
    BY <1>5, <1>9 DEF InUse
  <2>2. /\ pcb \in [Blocks -> Pcb] /\ pcb[0] = FirstProcess
        /\ \A b \in Blocks : b # 0 => pcb[b] = Garbage
        /\ \A b \in Blocks : pcb[b].children = <<>>
    BY <1>3, <1>4, <1>9 DEF Init_pcb
  <2>3. TablesOK
    <3>1. Cardinality({0}) = 1
      BY FS_Singleton
    <3>2. last_pid \in 1..(LastPid + 1)
      BY <1>9, SleepAssumption
    <3>3. ptrs \in Nat /\ ptrs + Cardinality(InUse) <= NumPCBs + 1
      BY <1>3, <1>9, <2>1, <3>1
    <3>4. \A b \in Blocks \ InUse : pcb[b] = Garbage
      BY <2>1, <2>2
    <3>. QED BY <1>1, <1>5, <1>9, <2>2, <3>2, <3>3, <3>4 DEF TablesOK
  <2>4. PidsOK
    BY <1>4, <1>9, <2>1, <2>2 DEF PidsOK
  <2>5. Placed
    BY <1>1, <1>2, <1>3, <1>9, <2>1 DEF Placed, Places
  <2>6. StatusesOK
    BY <1>1, <1>2, <1>4, <1>9, <2>2 DEF StatusesOK
  <2>7. FamiliesOK
    BY <1>2, <2>1, <2>2 DEF FamiliesOK, Init_pcb
  <2>8. SleeperAwake
    BY <1>9 DEF SleeperAwake
  <2>9. KinOK
    <3>1. pcb[0].parent = NoPcb /\ Range(pcb[0].children) = {} /\ NoPcb # 0
      BY <1>2, <1>3, <1>4, <2>2 DEF NoPcb
    <3>. QED BY <2>1, <3>1 DEF KinOK, Init_pcb
  <2>. QED BY <1>8, <1>11, <2>3, <2>4, <2>5, <2>6, <2>7, <2>8, <2>9 DEF ProcessInv
<1>10. CASE /\ sleeper = 1
            /\ pool = three
            /\ ptrs = NumPCBs - 1
            /\ pcb = [b \in Blocks |->
                        CASE b = Init_pcb -> [FirstProcess EXCEPT !.children = <<sleeper>>]
                          [] b = sleeper  -> [FirstProcess EXCEPT !.pid = 1, !.status = "Ready",
                                                                  !.parent = Init_pcb]
                          [] OTHER        -> Garbage]
            /\ last_pid = 2
            /\ ready_list = <<sleeper>>
  <2>1. InUse = {0, 1}
    BY <1>7, <1>10 DEF InUse
  <2>2. /\ <<1>> \in Seq(Blocks) /\ Range(<<1>>) = {1} /\ IsInjective(<<1>>)
    BY <1>3, OneBlock
  <2>. DEFINE i == [FirstProcess EXCEPT !.children = <<1>>]
              s == [FirstProcess EXCEPT !.pid = 1, !.status = "Ready", !.parent = 0]
  <2>3. /\ i \in Pcb /\ i.pid = 0 /\ i.status = "Running" /\ i.children = <<1>>
        /\ i.parent = NoPcb
        /\ s \in Pcb /\ s.pid = 1 /\ s.status = "Ready" /\ s.children = <<>> /\ s.parent = 0
    <3>1. PICK r \in Pcb : r = FirstProcess
      BY <1>4
    <3>2. 1 \in NoPcb..LastPid /\ 0 \in Blocks \cup {NoPcb}
      BY <1>3, SleepAssumption DEF NoPcb
    <3>3. LET a == [r EXCEPT !.children = <<1>>]
              b == [r EXCEPT !.pid = 1, !.status = "Ready", !.parent = 0]
          IN  /\ a \in Pcb /\ a.pid = r.pid /\ a.status = r.status /\ a.children = <<1>>
              /\ a.parent = r.parent
              /\ b \in Pcb /\ b.pid = 1 /\ b.status = "Ready" /\ b.children = r.children
              /\ b.parent = 0
      BY <2>2, <3>2 DEF Pcb
    <3>4. r.pid = 0 /\ r.status = "Running" /\ r.children = <<>> /\ r.parent = NoPcb
      BY <1>4, <3>1 DEF NoPcb
    <3>. QED BY <3>1, <3>3, <3>4
  <2>4. /\ pcb[0] = i /\ pcb[1] = s /\ \A b \in Blocks : b # 0 /\ b # 1 => pcb[b] = Garbage
    BY <1>3, <1>10 DEF Init_pcb
  <2>5. pcb = [b \in Blocks |-> pcb[b]]
    BY <1>10
  <2>. HIDE DEF i, s
  <2>6. pcb \in [Blocks -> Pcb]
    BY <1>4, <2>3, <2>4, <2>5
  <2>7. TablesOK
    <3>1. Cardinality({0, 1}) = 2
      <4>1. IsFiniteSet({0}) /\ Cardinality({0}) = 1
        BY FS_Singleton
      <4>2. 1 \notin {0} /\ {0, 1} = {0} \cup {1}
        OBVIOUS
      <4>3. Cardinality({0} \cup {1}) = Cardinality({0}) + 1
        BY <4>1, <4>2, FS_AddElement
      <4>. QED BY <4>1, <4>2, <4>3
    <3>2. last_pid \in 1..(LastPid + 1)
      BY <1>10, SleepAssumption
    <3>3. ptrs \in Nat /\ ptrs + 2 <= NumPCBs + 1
      BY <1>10, PoolAssumption
    <3>. QED BY <1>1, <1>3, <1>7, <1>10, <2>1, <2>4, <2>6, <3>1, <3>2, <3>3 DEF TablesOK
  <2>8. PidsOK
    <3>1. pcb[0].pid = 0 /\ pcb[1].pid = 1
      BY <2>3, <2>4
    <3>. QED BY <1>10, <2>1, <3>1 DEF PidsOK
  <2>9. Placed
    BY <1>1, <1>2, <1>3, <1>10, <2>1, <2>2 DEF Placed, Places
  <2>10. StatusesOK
    BY <1>1, <1>2, <1>10, <2>2, <2>3, <2>4 DEF StatusesOK
  <2>11. FamiliesOK
    <3>1. \A b \in Blocks : b # 0 => pcb[b].children = <<>>
      BY <1>4, <2>3, <2>4
    <3>2. pcb[0].children = <<1>> /\ pcb[1].parent = 0
      BY <2>3, <2>4
    <3>. QED BY <1>2, <1>3, <2>1, <2>2, <3>1, <3>2 DEF FamiliesOK, Init_pcb
  <2>12. SleeperAwake
    BY <1>10, <2>2 DEF SleeperAwake
  <2>13. KinOK
    <3>1. /\ pcb[0].parent = NoPcb /\ pcb[1].parent = 0 /\ NoPcb # 0 /\ NoPcb # 1
          /\ Range(pcb[0].children) = {1} /\ Range(pcb[1].children) = {}
      BY <1>2, <2>2, <2>3, <2>4 DEF NoPcb
    <3>. QED BY <2>1, <3>1 DEF KinOK, Init_pcb
  <2>. QED BY <1>8, <1>11, <2>7, <2>8, <2>9, <2>10, <2>11, <2>12, <2>13 DEF ProcessInv
<1>. QED BY <1>9, <1>10 DEF Init, one, two, three

\* The variables stay as they are.
LEMMA StutterStep == ASSUME ProcessInv, UNCHANGED vars PROVE ProcessInv'
<1>1. /\ UNCHANGED <<pool, ptrs, pcb, last_pid, timer_list, sleeper, panic>>
      /\ UNCHANGED <<running, ready_list, waiting_list, zombie_list>>
  BY DEF vars, lists
<1>2. InUse' = InUse /\ Owners' = Owners
  BY <1>1 DEF InUse, Owners
<1>3. KinOK' /\ MissedOK' /\ DeathOK'
  BY <1>1, <1>2 DEF ProcessInv, KinOK, MissedOK, DeathOK, DiesOnlyWhen
<1>. QED BY <1>1, <1>2, <1>3 DEF ProcessInv, TablesOK, PidsOK, Placed, StatusesOK, TimersOK,
                                 FamiliesOK, SleeperAwake

\* The invariant holds in every state, whatever the processes do.
THEOREM ProcessInvariant == Spec => []ProcessInv
<1>1. Init => ProcessInv
  BY InitInv
<1>2. ProcessInv /\ [Next]_vars => ProcessInv'
  <2>. SUFFICES ASSUME ProcessInv, [Next]_vars PROVE ProcessInv'
    OBVIOUS
  <2>1. CASE timerInterrupt
    BY <2>1, InterruptStep
  <2>2. CASE internal_preempt
    BY <2>2, PreemptStep
  <2>3. ASSUME NEW p \in Blocks, internal_spawn(p)
        PROVE  ProcessInv'
    BY <2>3, SpawnStep
  <2>4. ASSUME NEW p \in Blocks, NEW pid \in Pids(p), internal_wait(p, pid)
        PROVE  ProcessInv'
    BY <2>4, WaitStep
  <2>5. ASSUME NEW p \in Blocks, NEW n \in SleepTimes, internal_sleep(p, n)
        PROVE  ProcessInv'
    BY <2>5, InternalSleepStep
  <2>6. ASSUME NEW p \in Blocks, internal_exit(p)
        PROVE  ProcessInv'
    BY <2>6, ExitStep
  <2>7. CASE UNCHANGED vars
    BY <2>7, StutterStep
  <2>. QED BY <2>1, <2>2, <2>3, <2>4, <2>5, <2>6, <2>7 DEF Next
<1>. QED BY <1>1, <1>2, PTL DEF Spec

\* Every variable keeps its type, and the pool's free list is a list of its free
\* blocks, for every number of PCBs.
THEOREM ProcessTypeCorrect == Spec => []ProcessTypeOK
<1>. QED BY ProcessInvariant, InvImplies, PTL

\* Every process in use is on one list of the kernel, once, and its status tells
\* which; no list holds a PCB that was freed.
THEOREM ProcessOnePlace == Spec => []OnePlace
<1>. QED BY ProcessInvariant, InvImplies, PTL

\* Whoever sleeps for a time has one timer, and nobody else has any; none is overdue
\* between two ticks.
THEOREM ProcessTimersServed == Spec => []TimersServed
<1>1. ProcessInv => TimersServed
  BY TimersOKServed DEF ProcessInv
<1>. QED BY <1>1, ProcessInvariant, PTL

\* Where no process ends before its children, the pointers to parents and the lists
\* of children agree.
THEOREM ProcessTreeConsistent ==
  ASSUME ~Orphans
  PROVE  Spec => []TreeConsistent
<1>1. ProcessInv => TreeConsistent
  <2>. SUFFICES ASSUME ProcessInv, NEW b \in InUse
                PROVE  /\ IsInjective(pcb[b].children)
                       /\ ToSet(pcb[b].children) = {c \in InUse : pcb[c].parent = b}
    BY DEF TreeConsistent
  <2>1. /\ IsInjective(pcb[b].children) /\ Range(pcb[b].children) \subseteq InUse
        /\ \A c \in InUse : c \in Range(pcb[b].children) <=> pcb[c].parent = b
    BY InvFacts DEF ProcessInv, FamiliesOK, KinOK
  <2>2. ToSet(pcb[b].children) = Range(pcb[b].children)
    BY DEF ToSet, Range
  <2>. QED BY <2>1, <2>2
<1>. QED BY <1>1, ProcessInvariant, PTL

\* Nor does anybody sleep in wait for a child that has ended already.
THEOREM ProcessNoMissedChild ==
  ASSUME ~Orphans
  PROVE  Spec => []NoMissedChild
<1>1. ProcessInv => NoMissedChild
  BY DEF ProcessInv, MissedOK, NoMissedChild, ToSet, Range
<1>. QED BY <1>1, ProcessInvariant, PTL

\* Then the kernel dies only of a full pool or with everybody asleep.
THEOREM ProcessDiesOnlyWhen ==
  ASSUME ~Orphans
  PROVE  Spec => []DiesOnlyWhen
<1>1. ProcessInv => DiesOnlyWhen
  BY DEF ProcessInv, DeathOK
<1>. QED BY <1>1, ProcessInvariant, PTL

================================================================================
