----------------------------- MODULE PoolAllocator -----------------------------
(***************************************************************************)
(* The fixed-size block allocator of disastrOS (pool_allocator.c), from    *)
(* which PCBs, descriptors, timers and resources come.  A pool is a record *)
(* with the head of its free list, the links of that list, and the number  *)
(* of free blocks.  Blocks are named by their index in the buffer.         *)
(***************************************************************************)
EXTENDS Integers

NullIdx == -1
DetachedIdx == -2

\* PoolAllocator_init: all num_items >= 1 blocks are free, in order.
PoolAllocator_init(num_items) ==
  [first_idx |-> 0,
   free_list |-> [i \in 0..(num_items - 1) |-> IF i = num_items - 1 THEN NullIdx ELSE i + 1],
   size      |-> num_items]

\* PoolAllocator_getBlock gives the head of the free list, if there is one.
NoBlock(a) == a.first_idx = NullIdx
Block(a) == a.first_idx

BlockTaken(a) ==
  [first_idx |-> a.free_list[a.first_idx],
   free_list |-> [a.free_list EXCEPT ![a.first_idx] = DetachedIdx],
   size      |-> a.size - 1]

Released_Truncated(a, idx) ==
  IF a.free_list[idx] # DetachedIdx THEN a
  ELSE [first_idx |-> idx,
        free_list |-> [a.free_list EXCEPT ![idx] = NullIdx],
        size      |-> a.size + 1]

\* PoolAllocator_releaseBlock of a block of the pool; one that is not detached
\* is a double free, which is refused.
Released(a, idx) ==
  IF a.free_list[idx] # DetachedIdx THEN a
  ELSE [first_idx |-> idx,
        free_list |-> [a.free_list EXCEPT ![idx] = a.first_idx],
        size      |-> a.size + 1]

\* The blocks in use.
Detached(a) == {i \in DOMAIN a.free_list : a.free_list[i] = DetachedIdx}

\* The blocks the next n calls of getBlock would give, in order.
FreeChain(a) ==
  LET next(idx) == IF idx \in DOMAIN a.free_list THEN a.free_list[idx] ELSE NullIdx
      chain[n \in Nat] == IF n = 0 THEN a.first_idx ELSE next(chain[n - 1])
  IN [n \in 1..a.size |-> chain[n - 1]]

\* The free list is a list: it visits every free block once, and ends.
WellFormed(a) ==
  LET free  == {i \in DOMAIN a.free_list : a.free_list[i] # DetachedIdx}
      chain == FreeChain(a)
  IN /\ {chain[n] : n \in 1..a.size} = free
     /\ \A m, n \in 1..a.size : chain[m] = chain[n] => m = n
     /\ NoBlock(a) <=> a.size = 0
================================================================================
