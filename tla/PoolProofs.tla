------------------------------ MODULE PoolProofs ------------------------------
(***************************************************************************)
(* What the block allocator of pool_allocator.c guarantees for every       *)
(* number of blocks, after any calls of getBlock and releaseBlock.         *)
(***************************************************************************)
EXTENDS PoolAllocator, ListProofs, FiniteSetTheorems

\* The link behind the i-th block of the list q.
Link(q, i) == IF i \in DOMAIN q THEN q[i] ELSE NullIdx

\* The links of the pool a, from its head on, are the list q of its free blocks.
FreeList(a, q) ==
  /\ q \in Seq(DOMAIN a.free_list)
  /\ IsInjective(q)
  /\ Range(q) = DOMAIN a.free_list \ Detached(a)
  /\ a.first_idx = Link(q, 1)
  /\ \A i \in DOMAIN q : a.free_list[q[i]] = Link(q, i + 1)
  /\ a.size = Len(q)

\* A pool of n blocks whose free blocks are on one list.
Pool(a, n) == DOMAIN a.free_list = 0..(n - 1) /\ \E q : FreeList(a, q)

\* The first block given is the head of the list, the rest its tail.
LEMMA FreeHead ==
  ASSUME NEW a, NEW n \in Nat, DOMAIN a.free_list = 0..(n - 1), NEW q, FreeList(a, q)
  PROVE  /\ NoBlock(a) <=> q = <<>>
         /\ NoBlock(a) <=> a.size = 0
         /\ a.size \in Nat
         /\ q # <<>> => Block(a) = Head(q)
<1>1. q \in Seq(0..(n - 1)) /\ Len(q) \in Nat /\ DOMAIN q = 1..Len(q) /\ a.size = Len(q)
  BY LenProperties DEF FreeList
<1>2. CASE q = <<>>
  <2>1. a.first_idx = NullIdx /\ Len(q) = 0
    BY <1>1, <1>2 DEF FreeList, Link
  <2>. QED BY <1>1, <1>2, <2>1 DEF NoBlock
<1>3. CASE q # <<>>
  <2>1. Len(q) > 0 /\ 1 \in DOMAIN q
    BY <1>1, <1>3, EmptySeq
  <2>2. a.first_idx = q[1] /\ q[1] \in 0..(n - 1) /\ q[1] = Head(q)
    BY <1>1, <2>1, ElementOfSeq DEF FreeList, Link
  <2>. QED BY <1>1, <1>3, <2>1, <2>2 DEF NoBlock, Block, NullIdx
<1>. QED BY <1>2, <1>3

\* PoolAllocator_init makes a pool with every block free.
THEOREM InitPool ==
  ASSUME NEW n \in Nat \ {0}
  PROVE  /\ Pool(PoolAllocator_init(n), n)
         /\ Detached(PoolAllocator_init(n)) = {}
         /\ ~NoBlock(PoolAllocator_init(n)) /\ Block(PoolAllocator_init(n)) = 0
<1>. DEFINE a == PoolAllocator_init(n)
            q == [i \in 1..n |-> i - 1]
<1>1. /\ a.first_idx = 0 /\ a.size = n /\ DOMAIN a.free_list = 0..(n - 1)
      /\ \A i \in 0..(n - 1) : a.free_list[i] = IF i = n - 1 THEN NullIdx ELSE i + 1
  BY DEF PoolAllocator_init
<1>2. Detached(a) = {}
  BY <1>1 DEF Detached, NullIdx, DetachedIdx
<1>3. q \in Seq(0..(n - 1)) /\ Len(q) = n /\ DOMAIN q = 1..n /\ \A i \in 1..n : q[i] = i - 1
  OBVIOUS
<1>4. FreeList(a, q)
  <2>. HIDE DEF a, q
  <2>1. IsInjective(q)
    BY <1>3 DEF IsInjective
  <2>2. Range(q) = 0..(n - 1)
    <3>1. \A j \in 0..(n - 1) : j + 1 \in DOMAIN q /\ q[j + 1] = j
      BY <1>3
    <3>2. \A i \in DOMAIN q : q[i] \in 0..(n - 1)
      BY <1>3
    <3>. QED BY <3>1, <3>2 DEF Range
  <2>3. a.first_idx = Link(q, 1)
    BY <1>1, <1>3 DEF Link
  <2>4. \A i \in DOMAIN q : a.free_list[q[i]] = Link(q, i + 1)
    BY <1>1, <1>3 DEF Link
  <2>. QED BY <1>1, <1>2, <1>3, <2>1, <2>2, <2>3, <2>4 DEF FreeList
<1>5. ~NoBlock(a) /\ Block(a) = 0
  BY <1>1 DEF NoBlock, Block, NullIdx
<1>. QED
  <2>. HIDE DEF a, q
  <2>1. Pool(a, n)
    BY <1>1, <1>4 DEF Pool
  <2>. QED BY <1>2, <1>5, <2>1 DEF a

\* PoolAllocator_getBlock gives a block that was free, and takes only that.
THEOREM TakenPool ==
  ASSUME NEW a, NEW n \in Nat, Pool(a, n), ~NoBlock(a)
  PROVE  /\ Block(a) \in (0..(n - 1)) \ Detached(a)
         /\ Pool(BlockTaken(a), n)
         /\ Detached(BlockTaken(a)) = Detached(a) \cup {Block(a)}
<1>. DEFINE b == BlockTaken(a)
            x == Block(a)
<1>1. PICK q : FreeList(a, q)
  BY DEF Pool
<1>2. DOMAIN a.free_list = 0..(n - 1)
  BY DEF Pool
<1>3. q # <<>> /\ Block(a) = Head(q)
  BY <1>1, <1>2, FreeHead
<1>4. q \in Seq(0..(n - 1)) /\ Len(q) \in Nat /\ DOMAIN q = 1..Len(q) /\ a.size = Len(q)
  BY <1>1, <1>2, LenProperties DEF FreeList
<1>5. /\ Head(q) \in 0..(n - 1) /\ Tail(q) \in Seq(0..(n - 1))
      /\ Range(q) = Range(Tail(q)) \cup {Head(q)}
      /\ IsInjective(Tail(q)) /\ Head(q) \notin Range(Tail(q))
      /\ Len(Tail(q)) = Len(q) - 1 /\ DOMAIN Tail(q) = 1..(Len(q) - 1)
      /\ \A i \in 1..(Len(q) - 1) : Tail(q)[i] = q[i + 1]
  BY <1>1, <1>3, <1>4, TailRange, HeadTailProperties, LenProperties DEF FreeList
<1>6. Len(q) > 0 /\ q[1] = Head(q) /\ 1 \in DOMAIN q
  BY <1>3, <1>4, EmptySeq
<1>7. x \in Range(q) /\ Range(q) = (0..(n - 1)) \ Detached(a)
  BY <1>1, <1>2, <1>3, <1>5 DEF FreeList
<1>8. /\ DOMAIN b.free_list = 0..(n - 1)
      /\ \A i \in 0..(n - 1) : b.free_list[i] = IF i = x THEN DetachedIdx ELSE a.free_list[i]
      /\ b.first_idx = a.free_list[x] /\ b.size = a.size - 1
  BY <1>2, <1>3 DEF BlockTaken, Block
<1>9. Detached(b) = Detached(a) \cup {x}
  BY <1>2, <1>7, <1>8 DEF Detached
<1>10. FreeList(b, Tail(q))
  <2>. HIDE DEF b, x
  <2>1. Range(Tail(q)) = (0..(n - 1)) \ Detached(b)
    BY <1>3, <1>5, <1>7, <1>9 DEF x
  <2>2. b.first_idx = Link(Tail(q), 1)
    <3>1. a.free_list[q[1]] = Link(q, 1 + 1)
      BY <1>1, <1>6 DEF FreeList
    <3>. QED BY <1>3, <1>4, <1>5, <1>6, <1>8, <3>1 DEF Link, x
  <2>3. ASSUME NEW i \in DOMAIN Tail(q)
        PROVE  b.free_list[Tail(q)[i]] = Link(Tail(q), i + 1)
    <3>1. i \in 1..(Len(q) - 1) /\ i + 1 \in DOMAIN q /\ Tail(q)[i] = q[i + 1]
      BY <1>4, <1>5, <2>3
    <3>2. a.free_list[q[i + 1]] = Link(q, (i + 1) + 1)
      BY <1>1, <3>1 DEF FreeList
    <3>3. Tail(q)[i] \in Range(Tail(q))
      BY <2>3 DEF Range
    <3>4. b.free_list[Tail(q)[i]] = a.free_list[Tail(q)[i]]
      BY <1>3, <1>5, <1>7, <1>8, <3>3 DEF x
    <3>5. Link(q, (i + 1) + 1) = Link(Tail(q), i + 1)
      BY <1>4, <1>5, <3>1 DEF Link
    <3>. QED BY <3>1, <3>2, <3>4, <3>5
  <2>4. b.size = Len(Tail(q))
    BY <1>4, <1>5, <1>8
  <2>. QED BY <1>5, <1>8, <2>1, <2>2, <2>3, <2>4 DEF FreeList
<1>. QED
  <2>. HIDE DEF b, x
  <2>1. Pool(b, n)
    BY <1>8, <1>10 DEF Pool
  <2>. QED BY <1>3, <1>5, <1>7, <1>9, <2>1 DEF b, x

\* PoolAllocator_releaseBlock puts a block in use back at the head of the list.
THEOREM ReleasedPool ==
  ASSUME NEW a, NEW n \in Nat, Pool(a, n), NEW x \in Detached(a)
  PROVE  /\ Pool(Released(a, x), n)
         /\ Detached(Released(a, x)) = Detached(a) \ {x}
         /\ ~NoBlock(Released(a, x))
<1>. DEFINE b == Released(a, x)
<1>1. PICK q : FreeList(a, q)
  BY DEF Pool
<1>2. DOMAIN a.free_list = 0..(n - 1)
  BY DEF Pool
<1>3. q \in Seq(0..(n - 1)) /\ Len(q) \in Nat /\ DOMAIN q = 1..Len(q) /\ a.size = Len(q)
  BY <1>1, <1>2, LenProperties DEF FreeList
<1>4. x \in 0..(n - 1) /\ a.free_list[x] = DetachedIdx
  BY <1>2 DEF Detached
<1>5. /\ DOMAIN b.free_list = 0..(n - 1)
      /\ \A i \in 0..(n - 1) : b.free_list[i] = IF i = x THEN a.first_idx ELSE a.free_list[i]
      /\ b.first_idx = x /\ b.size = a.size + 1
  BY <1>2, <1>4 DEF Released
<1>6. a.first_idx # DetachedIdx
  <2>1. \A i \in DOMAIN q : q[i] \in 0..(n - 1)
    BY <1>3, ElementOfSeq
  <2>. QED BY <1>1, <1>3, <2>1 DEF FreeList, Link, NullIdx, DetachedIdx
<1>7. Detached(b) = Detached(a) \ {x}
  BY <1>2, <1>4, <1>5, <1>6 DEF Detached
<1>8. Range(q) = (0..(n - 1)) \ Detached(a) /\ IsInjective(q)
  BY <1>1, <1>2 DEF FreeList
<1>. DEFINE r == <<x>> \o q
<1>9. r \in Seq(0..(n - 1)) /\ Range(r) = {x} \cup Range(q) /\ IsInjective(r)
  <2>1. <<x>> \in Seq(0..(n - 1)) /\ Range(<<x>>) = {x} /\ IsInjective(<<x>>)
    BY <1>4 DEF Range, IsInjective
  <2>2. {x} \cap Range(q) = {}
    BY <1>8
  <2>. DEFINE one == <<x>>
  <2>3. r = one \o q /\ one \in Seq(0..(n - 1)) /\ Range(one) = {x} /\ IsInjective(one)
    BY <2>1
  <2>. HIDE DEF r, one
  <2>4. /\ one \o q \in Seq(0..(n - 1))
        /\ Range(one \o q) = Range(one) \cup Range(q)
        /\ IsInjective(one) /\ IsInjective(q) /\ Range(one) \cap Range(q) = {}
             => IsInjective(one \o q)
    BY <1>3, <2>3, ConcatRange
  <2>. QED BY <1>8, <2>2, <2>3, <2>4
<1>10. Len(r) = Len(q) + 1 /\ DOMAIN r = 1..(Len(q) + 1)
       /\ r[1] = x /\ \A i \in 1..Len(q) : r[i + 1] = q[i]
  <2>1. <<x>> \in Seq(0..(n - 1)) /\ Len(<<x>>) = 1 /\ <<x>>[1] = x
    BY <1>4
  <2>2. /\ Len(r) = 1 + Len(q)
        /\ \A i \in 1..(1 + Len(q)) : r[i] = IF i <= 1 THEN <<x>>[i] ELSE q[i - 1]
    BY <1>3, <2>1, ConcatProperties
  <2>3. DOMAIN r = 1..Len(r)
    BY <1>9, LenProperties
  <2>4. \A i \in 1..Len(q) : i + 1 \in 1..(1 + Len(q)) /\ ~(i + 1 <= 1) /\ (i + 1) - 1 = i
    BY <1>3
  <2>5. 1 \in 1..(1 + Len(q))
    BY <1>3
  <2>. HIDE DEF r
  <2>6. \A i \in 1..Len(q) : r[i + 1] = q[i]
    BY <2>2, <2>4
  <2>. QED BY <1>3, <2>1, <2>2, <2>3, <2>5, <2>6
<1>11. FreeList(b, r)
  <2>. HIDE DEF b, r
  <2>1. Range(r) = (0..(n - 1)) \ Detached(b)
    BY <1>4, <1>7, <1>8, <1>9
  <2>2. b.first_idx = Link(r, 1)
    BY <1>3, <1>5, <1>10 DEF Link
  <2>3. b.free_list[r[1]] = Link(r, 1 + 1)
    <3>1. a.first_idx = Link(q, 1)
      BY <1>1 DEF FreeList
    <3>2. Link(r, 1 + 1) = Link(q, 1)
      BY <1>3, <1>10 DEF Link
    <3>. QED BY <1>4, <1>5, <1>10, <3>1, <3>2
  <2>4. ASSUME NEW i \in 1..Len(q)
        PROVE  b.free_list[r[i + 1]] = Link(r, (i + 1) + 1)
    <3>1. r[i + 1] = q[i] /\ q[i] \in Range(q)
      BY <1>3, <1>10 DEF Range
    <3>2. b.free_list[q[i]] = a.free_list[q[i]]
      BY <1>5, <1>8, <3>1
    <3>3. a.free_list[q[i]] = Link(q, i + 1)
      BY <1>1, <1>3 DEF FreeList
    <3>4. Link(r, (i + 1) + 1) = Link(q, i + 1)
      BY <1>3, <1>10 DEF Link
    <3>. QED BY <3>1, <3>2, <3>3, <3>4
  <2>5. ASSUME NEW i \in DOMAIN r
        PROVE  b.free_list[r[i]] = Link(r, i + 1)
    <3>1. i = 1 \/ \E j \in 1..Len(q) : i = j + 1
      <4>1. i \in 1..(Len(q) + 1)
        BY <1>10
      <4>2. i = 1 \/ (i - 1 \in 1..Len(q) /\ i = (i - 1) + 1)
        BY <1>3, <4>1
      <4>. QED BY <4>2
    <3>. QED BY <2>3, <2>4, <3>1
  <2>. QED BY <1>3, <1>5, <1>9, <1>10, <2>1, <2>2, <2>5 DEF FreeList
<1>12. ~NoBlock(b)
  BY <1>4, <1>5 DEF NoBlock, NullIdx
<1>. QED
  <2>. HIDE DEF b, r
  <2>1. Pool(b, n)
    BY <1>5, <1>11 DEF Pool
  <2>. QED BY <1>7, <1>12, <2>1 DEF b

\* Following the links from the head visits the free blocks in order: the
\* recursion of FreeChain has the list as its only solution.
LEMMA ChainIsList ==
  ASSUME NEW a, NEW n \in Nat, DOMAIN a.free_list = 0..(n - 1), NEW q, FreeList(a, q)
  PROVE  FreeChain(a) = q
<1>. DEFINE next(idx) == IF idx \in DOMAIN a.free_list THEN a.free_list[idx] ELSE NullIdx
            Step(g, m) == IF m = 0 THEN a.first_idx ELSE next(g[m - 1])
            Good(g) == g = [m \in Nat |-> Step(g, m)]
            c == [m \in Nat |-> Link(q, m + 1)]
            chain == CHOOSE g : Good(g)
<1>1. q \in Seq(0..(n - 1)) /\ Len(q) \in Nat /\ DOMAIN q = 1..Len(q) /\ a.size = Len(q)
  BY LenProperties DEF FreeList
<1>2. \A i \in DOMAIN q : q[i] \in 0..(n - 1)
  BY <1>1, ElementOfSeq
<1>3. \A i \in DOMAIN q : a.free_list[q[i]] = Link(q, i + 1)
  BY DEF FreeList
<1>4. ASSUME NEW m \in Nat \ {0}
      PROVE  next(Link(q, m)) = Link(q, m + 1)
  <2>1. CASE m \in DOMAIN q
    BY <1>2, <1>3, <2>1 DEF Link
  <2>2. CASE m \notin DOMAIN q
    <3>1. m + 1 \notin DOMAIN q
      BY <1>1, <2>2
    <3>2. NullIdx \notin 0..(n - 1)
      BY DEF NullIdx
    <3>. QED BY <2>2, <3>1, <3>2 DEF Link
  <2>. QED BY <2>1, <2>2
<1>5. a.first_idx = Link(q, 1)
  BY DEF FreeList
<1>6. ASSUME NEW m \in Nat
      PROVE  Link(q, m + 1) = Step(c, m)
  <2>. HIDE DEF next
  <2>1. CASE m = 0
    BY <1>5, <2>1
  <2>2. CASE m # 0
    <3>1. m - 1 \in Nat /\ (m - 1) + 1 = m /\ m \in Nat \ {0}
      BY <2>2
    <3>2. c[m - 1] = Link(q, (m - 1) + 1)
      BY <3>1
    <3>. HIDE DEF c
    <3>. QED BY <1>4, <2>2, <3>1, <3>2
  <2>. QED BY <2>1, <2>2
<1>7. Good(c)
  <2>1. \A m \in Nat : Link(q, m + 1) = Step(c, m)
    BY <1>6
  <2>. HIDE DEF Step
  <2>. QED BY <2>1
<1>8. Good(chain)
  <2>. HIDE DEF Good, c
  <2>. QED BY <1>7
<1>9. \A m \in 0..Len(q) : chain[m] = Link(q, m + 1)
  <2>. HIDE DEF chain
  <2>. DEFINE T == {m \in Nat : chain[m] = Link(q, m + 1)}
  <2>1. \A m \in Nat : chain[m] = Step(chain, m)
    <3>. HIDE DEF Step
    <3>. QED BY <1>8
  <2>2. 0 \in T
    BY <1>5, <2>1
  <2>3. ASSUME NEW m \in 1..Len(q), m - 1 \in T
        PROVE  m \in T
    <3>. HIDE DEF next
    <3>1. m \in Nat \ {0} /\ chain[m - 1] = Link(q, (m - 1) + 1) /\ (m - 1) + 1 = m
      BY <1>1, <2>3
    <3>2. chain[m] = next(chain[m - 1])
      BY <2>1, <3>1
    <3>. QED BY <1>4, <3>1, <3>2
  <2>4. \A m \in 0..Len(q) : m \in T
    <3>. HIDE DEF T
    <3>1. \A m \in 1..Len(q) : m - 1 \in T => m \in T
      BY <2>3
    <3>. QED BY <1>1, <2>2, <3>1, Upwards
  <2>. QED BY <2>4
<1>10. FreeChain(a) = [m \in 1..a.size |-> chain[m - 1]]
  BY DEF FreeChain
<1>. HIDE DEF chain
<1>11. \A m \in 1..Len(q) : chain[m - 1] = q[m]
  <2>1. \A m \in 1..Len(q) : m - 1 \in 0..Len(q) /\ (m - 1) + 1 = m
    BY <1>1
  <2>2. \A m \in 1..Len(q) : chain[m - 1] = Link(q, m)
    BY <1>9, <2>1
  <2>. QED BY <1>1, <2>2 DEF Link
<1>12. FreeChain(a) = [m \in 1..Len(q) |-> q[m]]
  BY <1>1, <1>10, <1>11
<1>13. q = [m \in 1..Len(q) |-> q[m]]
  BY <1>1
<1>. QED BY <1>12, <1>13

\* In such a pool the free list visits every free block once, and ends.
THEOREM PoolWellFormed ==
  ASSUME NEW a, NEW n \in Nat, Pool(a, n)
  PROVE  WellFormed(a) /\ Detached(a) \subseteq 0..(n - 1)
<1>1. PICK q : FreeList(a, q)
  BY DEF Pool
<1>2. DOMAIN a.free_list = 0..(n - 1)
  BY DEF Pool
<1>3. FreeChain(a) = q
  BY <1>1, <1>2, ChainIsList
<1>4. q \in Seq(0..(n - 1)) /\ DOMAIN q = 1..a.size
  BY <1>1, <1>2, LenProperties DEF FreeList
<1>5. Range(q) = {i \in DOMAIN a.free_list : a.free_list[i] # DetachedIdx}
  BY <1>1 DEF FreeList, Detached
<1>6. {q[i] : i \in 1..a.size} = Range(q)
  BY <1>4 DEF Range
<1>7. \A i, j \in 1..a.size : q[i] = q[j] => i = j
  BY <1>1, <1>4 DEF FreeList, IsInjective
<1>8. NoBlock(a) <=> a.size = 0
  BY <1>1, <1>2, FreeHead
<1>9. Detached(a) \subseteq 0..(n - 1)
  BY <1>2 DEF Detached
<1>. QED BY <1>3, <1>5, <1>6, <1>7, <1>8, <1>9 DEF WellFormed

\* size counts the blocks that are not in use, and it is 0 when getBlock fails.
THEOREM PoolCounts ==
  ASSUME NEW a, NEW n \in Nat, Pool(a, n)
  PROVE  /\ IsFiniteSet(Detached(a)) /\ Cardinality(Detached(a)) \in Nat
         /\ a.size \in Nat /\ a.size + Cardinality(Detached(a)) = n
         /\ NoBlock(a) <=> a.size = 0
<1>. DEFINE all == 0..(n - 1)
            used == Detached(a)
            free == all \ used
<1>1. PICK q : FreeList(a, q)
  BY DEF Pool
<1>2. DOMAIN a.free_list = all
  BY DEF Pool
<1>3. /\ a.size \in Nat
      /\ NoBlock(a) <=> a.size = 0
  BY <1>1, <1>2, FreeHead
<1>4. IsFiniteSet(all) /\ Cardinality(all) = n
  BY FS_Interval
<1>5. used \subseteq all
  BY <1>2 DEF Detached
<1>. HIDE DEF all, used
<1>6. IsFiniteSet(used) /\ Cardinality(used) \in Nat
  BY <1>4, <1>5, FS_Subset, FS_CardinalityType
<1>7. Cardinality(free) = n - Cardinality(used)
  <2>1. all \cap used = used
    BY <1>5
  <2>. QED BY <1>4, <2>1, FS_Difference
<1>8. Cardinality(free) = a.size
  <2>1. /\ q \in Seq(all) /\ IsInjective(q) /\ Range(q) = free /\ a.size = Len(q)
    BY <1>1, <1>2 DEF FreeList, used
  <2>2. DOMAIN q = 1..a.size /\ q \in [1..a.size -> all]
    BY <2>1, LenProperties
  <2>. HIDE DEF free
  <2>3. q \in Bijection(1..a.size, free)
    BY <2>1, <2>2 DEF Bijection, Injection, Surjection, IsInjective, Range
  <2>4. ExistsBijection(1..a.size, free)
    BY <2>3 DEF ExistsBijection
  <2>. QED BY <1>3, <2>4, FS_CountingElements
<1>9. a.size + Cardinality(used) = n
  <2>. HIDE DEF free
  <2>. QED BY <1>3, <1>6, <1>7, <1>8
<1>. QED BY <1>3, <1>6, <1>9 DEF used
=============================================================================
