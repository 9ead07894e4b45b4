--------------------------- MODULE DescriptorProofs ---------------------------
(***************************************************************************)
(* What holds of the tables of descriptors and resources for every number  *)
(* of processes, blocks and resources: the inductive invariant TablesInv   *)
(* and the properties of Descriptors that follow from it.                  *)
(*                                                                         *)
(* A call changes the tables in several steps, and between them some part  *)
(* of the invariant does not hold.  So each part has lemmas about each of  *)
(* the steps, which are described by what they do to the fields.           *)
(***************************************************************************)
EXTENDS Descriptors, PoolProofs, FiniteSetTheorems

-----------------------------------------------------------------------------
(* The parts of the invariant, of a record k of the tables.                *)

Fields ==
  {"descriptor_allocator", "descriptor_ptr_allocator", "descriptor", "descriptor_ptr",
   "descriptors", "last_fd", "allocator", "resource", "resources_list"}

AllModes == {"RDONLY", "WRONLY", "RDWR"}
Desc == [fd : -1..LastFd, resource : Resources \cup {<<>>}, pcb : Pcbs, mode : AllModes,
         ptr : Descriptors \cup {-1}]
Res == [id : Ids \cup {Anonymous}, unlinked : BOOLEAN, descriptors_ptrs : Seq(Descriptors),
        readers_number : Int, writers_number : Int]

\* The descriptors in use, those of a resource, and those opened in a mode.
Used(k) == Detached(k.descriptor_allocator)
Of(k, r) == {d \in Used(k) : k.descriptor[d].resource = r}
Opened(k, r, mode) == {d \in Of(k, r) : k.descriptor[d].mode = mode}

\* The block of the resource r is in use.
Held(k, r) == r[2] \in Detached(k.allocator[r[1]])

\* The types, and the free lists of the pools.  Descriptors and their pointers are
\* taken and released in pairs, so that their pools are the same at every moment.
ShapeOK(k) ==
  /\ DOMAIN k = Fields
  /\ Pool(k.descriptor_allocator, NumDescriptors)
  /\ k.descriptor_ptr_allocator = k.descriptor_allocator
  /\ k.descriptor \in [Descriptors -> Desc]
  /\ k.descriptor_ptr \in [Descriptors -> Descriptors \cup {-1}]
  /\ k.descriptors \in [Pcbs -> Seq(Descriptors)]
  /\ k.last_fd \in [Pcbs -> Nat]
  /\ DOMAIN k.allocator = Kinds
  /\ \A kind \in Kinds : Pool(k.allocator[kind], NumOf[kind])
  /\ k.resource \in [Resources -> Res]
  /\ k.resources_list \subseteq Resources

\* A descriptor in use is on the list of its process, and the pointer with its
\* number on the list of its resource.
LinksOK(k) ==
  /\ \A d \in Used(k) :
       k.descriptor[d].resource \in Resources /\ k.descriptor[d].ptr = d /\ k.descriptor_ptr[d] = d
  /\ \A p \in Pcbs :
       /\ IsInjective(k.descriptors[p])
       /\ Range(k.descriptors[p]) = {d \in Used(k) : k.descriptor[d].pcb = p}
  /\ \A r \in Resources :
       /\ IsInjective(k.resource[r].descriptors_ptrs)
       /\ Range(k.resource[r].descriptors_ptrs) = Of(k, r)

\* Each process numbers its descriptors below its limit, and no two the same.
FdsOK(k, limit) ==
  /\ \A d \in Used(k) :
       k.descriptor[d].fd \in 0..LastFd /\ k.descriptor[d].fd < limit[k.descriptor[d].pcb]
  /\ \A d, e \in Used(k) :
       k.descriptor[d].pcb = k.descriptor[e].pcb /\ k.descriptor[d].fd = k.descriptor[e].fd => d = e

\* The resources with a name are those not unlinked.
ListedOK(k) ==
  /\ \A r \in Resources : r \in k.resources_list <=> ~k.resource[r].unlinked
  /\ \A r \in k.resources_list : k.resource[r].id \in Ids
  /\ \A r, s \in k.resources_list : k.resource[r].id = k.resource[s].id => r = s

\* Of the resources in rs, those in use have a name or a descriptor.
HeldOK(k, rs) ==
  \A r \in rs : Held(k, r) <=> r \in k.resources_list \/ Of(k, r) # {}

\* The counters of the fifos count their descriptors, but for those of r opened in
\* mode, of which they count more too many.
CountsOff(k, r, mode, more) ==
  \A s \in Resources : s[1] = "fifo" =>
    /\ k.resource[s].readers_number =
         Cardinality(Opened(k, s, "RDONLY")) + IF s = r /\ mode = "RDONLY" THEN more ELSE 0
    /\ k.resource[s].writers_number =
         Cardinality(Opened(k, s, "WRONLY")) + IF s = r /\ mode = "WRONLY" THEN more ELSE 0

CountsOK(k) ==
  \A s \in Resources : s[1] = "fifo" =>
    /\ k.resource[s].readers_number = Cardinality(Opened(k, s, "RDONLY"))
    /\ k.resource[s].writers_number = Cardinality(Opened(k, s, "WRONLY"))

\* Dead processes have no descriptors.
AliveOK(k, living) ==
  /\ Init_pcb \in living /\ living \subseteq Pcbs
  /\ \A d \in Used(k) : k.descriptor[d].pcb \in living

\* What is disturbed only while a descriptor or a resource is made or destroyed, where
\* limit is last_fd, and what holds between two calls.
AllBut(k, limit) == ShapeOK(k) /\ LinksOK(k) /\ FdsOK(k, limit) /\ ListedOK(k)
Whole(k, limit) == AllBut(k, limit) /\ HeldOK(k, Resources) /\ CountsOK(k)

TablesInv ==
  /\ Whole(tables, tables.last_fd)
  /\ AliveOK(tables, alive)
  /\ DiesOnlyFull
  /\ panic \in BOOLEAN

-----------------------------------------------------------------------------
(* Resources and blocks.                                                   *)

\* A resource is a kind and the number of a block of that kind.
LEMMA ResourceIs ==
  /\ \A r \in Resources : r[1] \in Kinds /\ r[2] \in 0..(NumOf[r[1]] - 1) /\ r = <<r[1], r[2]>>
  /\ \A kind \in Kinds : \A i \in 0..(NumOf[kind] - 1) :
       <<kind, i>> \in Resources /\ <<kind, i>>[1] = kind /\ <<kind, i>>[2] = i
<1>1. ASSUME NEW r \in Resources
      PROVE  r[1] \in Kinds /\ r[2] \in 0..(NumOf[r[1]] - 1) /\ r = <<r[1], r[2]>>
  <2>1. PICK kind \in Kinds : r \in {kind} \X (0..(NumOf[kind] - 1))
    BY DEF Resources
  <2>. QED BY <2>1
<1>2. ASSUME NEW kind \in Kinds, NEW i \in 0..(NumOf[kind] - 1)
      PROVE  <<kind, i>> \in Resources /\ <<kind, i>>[1] = kind /\ <<kind, i>>[2] = i
  <2>1. <<kind, i>> \in {kind} \X (0..(NumOf[kind] - 1))
    OBVIOUS
  <2>. QED BY <2>1 DEF Resources
<1>. QED BY <1>1, <1>2

\* The numbers of blocks are positive, and there are two kinds of them.
LEMMA Sizes ==
  /\ NumDescriptors \in Nat /\ NumDescriptors > 0
  /\ Kinds = {"undefin", "fifo"}
  /\ \A kind \in Kinds : NumOf[kind] \in Nat /\ NumOf[kind] > 0
  /\ Descriptors = 0..(NumDescriptors - 1)
  /\ Init_pcb \in Pcbs /\ Others \subseteq Pcbs
<1>1. \A kind \in Kinds : NumOf[kind] \in Nat \ {0}
  BY DescriptorsAssumption DEF Kinds
<1>. QED BY <1>1, DescriptorsAssumption DEF Kinds, Descriptors, Pcbs

\* The descriptors in use are finitely many descriptors.
LEMMA UsedFinite ==
  ASSUME NEW k, ShapeOK(k)
  PROVE  /\ Used(k) \subseteq Descriptors /\ IsFiniteSet(Used(k))
         /\ \A r : Of(k, r) \subseteq Used(k)
         /\ \A r, mode : IsFiniteSet(Opened(k, r, mode))
<1>1. Used(k) \subseteq Descriptors
  BY Sizes, PoolWellFormed DEF Used, ShapeOK
<1>2. IsFiniteSet(Descriptors)
  BY Sizes, FS_Interval
<1>3. IsFiniteSet(Used(k))
  BY <1>1, <1>2, FS_Subset
<1>4. \A r, mode : Opened(k, r, mode) \subseteq Used(k)
  BY DEF Opened, Of
<1>5. \A r, mode : IsFiniteSet(Opened(k, r, mode))
  BY <1>3, <1>4, FS_Subset
<1>. QED BY <1>1, <1>3, <1>5 DEF Of

-----------------------------------------------------------------------------
(* What the steps of the calls do to the tables: n is k afterwards.        *)

\* Attached: the descriptor and its pointer get the block d.
Adds(k, n, d, p, fd, r, mode) ==
  /\ d = Block(k.descriptor_allocator)
  /\ DOMAIN n = Fields
  /\ n.descriptor_allocator = BlockTaken(k.descriptor_allocator)
  /\ n.descriptor_ptr_allocator = n.descriptor_allocator
  /\ n.descriptor = [k.descriptor EXCEPT
                       ![d] = [fd |-> fd, resource |-> r, pcb |-> p, mode |-> mode, ptr |-> d]]
  /\ n.descriptor_ptr = [k.descriptor_ptr EXCEPT ![d] = d]
  /\ n.descriptors = [k.descriptors EXCEPT ![p] = Append(k.descriptors[p], d)]
  /\ n.resource = [k.resource EXCEPT
                     ![r] = [k.resource[r] EXCEPT
                               !.descriptors_ptrs = Append(k.resource[r].descriptors_ptrs, d)]]
  /\ n.last_fd = k.last_fd /\ n.allocator = k.allocator /\ n.resources_list = k.resources_list

\* Attached does what Adds says.
LEMMA AttachedAdds ==
  ASSUME NEW k, ShapeOK(k), NEW p, NEW fd, NEW r, NEW mode
  PROVE  Adds(k, Attached(k, p, fd, r, mode), Block(k.descriptor_allocator), p, fd, r, mode)
<1>. DEFINE d == Block(k.descriptor_allocator)
            n == Attached(k, p, fd, r, mode)
<1>1. DOMAIN k = Fields /\ k.descriptor_ptr_allocator = k.descriptor_allocator
  BY DEF ShapeOK
<1>2. n = [k EXCEPT !.descriptor_allocator = BlockTaken(k.descriptor_allocator),
               !.descriptor_ptr_allocator = BlockTaken(k.descriptor_allocator),
               !.descriptor = [k.descriptor EXCEPT ![d] = [fd |-> fd, resource |-> r, pcb |-> p,
                                                            mode |-> mode, ptr |-> d]],
               !.descriptor_ptr = [k.descriptor_ptr EXCEPT ![d] = d],
               !.descriptors = [k.descriptors EXCEPT ![p] = Append(k.descriptors[p], d)],
               !.resource = [k.resource EXCEPT
                     ![r] = [k.resource[r] EXCEPT
                               !.descriptors_ptrs = Append(k.resource[r].descriptors_ptrs, d)]]]
  BY <1>1 DEF Attached
<1>. HIDE DEF d
<1>0. d = Block(k.descriptor_allocator)
  BY DEF d
<1>3. DOMAIN n = Fields
  BY <1>1, <1>2
<1>4. /\ n.descriptor_allocator = BlockTaken(k.descriptor_allocator)
      /\ n.descriptor_ptr_allocator = BlockTaken(k.descriptor_allocator)
      /\ n.last_fd = k.last_fd /\ n.allocator = k.allocator /\ n.resources_list = k.resources_list
  BY <1>1, <1>2 DEF Fields
<1>5. /\ n.descriptor = [k.descriptor EXCEPT
                       ![d] = [fd |-> fd, resource |-> r, pcb |-> p, mode |-> mode, ptr |-> d]]
      /\ n.descriptor_ptr = [k.descriptor_ptr EXCEPT ![d] = d]
      /\ n.descriptors = [k.descriptors EXCEPT ![p] = Append(k.descriptors[p], d)]
  BY <1>1, <1>2 DEF Fields
<1>6. n.resource = [k.resource EXCEPT
                     ![r] = [k.resource[r] EXCEPT
                               !.descriptors_ptrs = Append(k.resource[r].descriptors_ptrs, d)]]
  BY <1>1, <1>2 DEF Fields
<1>. HIDE DEF n
<1>7. Adds(k, n, d, p, fd, r, mode)
  BY <1>0, <1>3, <1>4, <1>5, <1>6 DEF Adds
<1>. QED BY <1>7 DEF n, d

\* Descriptor_destroy, where the pointer of d has the number of d.
Drops(k, n, d) ==
  LET p == k.descriptor[d].pcb
      r == k.descriptor[d].resource
  IN
  /\ DOMAIN n = Fields
  /\ n.descriptor_allocator = Released(k.descriptor_allocator, d)
  /\ n.descriptor_ptr_allocator = n.descriptor_allocator
  /\ n.descriptor = [k.descriptor EXCEPT ![d] = NoDescriptor]
  /\ n.descriptor_ptr = [k.descriptor_ptr EXCEPT ![d] = -1]
  /\ n.descriptors = [k.descriptors EXCEPT ![p] = Without(k.descriptors[p], {d})]
  /\ n.resource = [k.resource EXCEPT
                     ![r] = [k.resource[r] EXCEPT
                               !.descriptors_ptrs = Without(k.resource[r].descriptors_ptrs, {d})]]
  /\ n.last_fd = k.last_fd /\ n.allocator = k.allocator /\ n.resources_list = k.resources_list

\* Descriptor_destroy does what Drops says.
LEMMA DestroyDrops ==
  ASSUME NEW k, ShapeOK(k), NEW d, k.descriptor[d].ptr = d
  PROVE  Drops(k, Descriptor_destroy(k, d), d)
<1>. DEFINE p == k.descriptor[d].pcb
            r == k.descriptor[d].resource
            n == Descriptor_destroy(k, d)
<1>1. DOMAIN k = Fields /\ k.descriptor_ptr_allocator = k.descriptor_allocator
  BY DEF ShapeOK
<1>2. n = [k EXCEPT !.descriptors = [k.descriptors EXCEPT ![p] = Without(k.descriptors[p], {d})],
               !.resource = [k.resource EXCEPT
                     ![r] = [k.resource[r] EXCEPT
                               !.descriptors_ptrs = Without(k.resource[r].descriptors_ptrs, {d})]],
               !.descriptor_allocator = Released(k.descriptor_allocator, d),
               !.descriptor_ptr_allocator = Released(k.descriptor_allocator, d),
               !.descriptor = [k.descriptor EXCEPT ![d] = NoDescriptor],
               !.descriptor_ptr = [k.descriptor_ptr EXCEPT ![d] = -1]]
  BY <1>1 DEF Descriptor_destroy
<1>3. DOMAIN n = Fields
  BY <1>1, <1>2
<1>4. /\ n.descriptor_allocator = Released(k.descriptor_allocator, d)
      /\ n.descriptor_ptr_allocator = Released(k.descriptor_allocator, d)
      /\ n.last_fd = k.last_fd /\ n.allocator = k.allocator /\ n.resources_list = k.resources_list
  BY <1>1, <1>2 DEF Fields
<1>5. /\ n.descriptor = [k.descriptor EXCEPT ![d] = NoDescriptor]
      /\ n.descriptor_ptr = [k.descriptor_ptr EXCEPT ![d] = -1]
      /\ n.descriptors = [k.descriptors EXCEPT ![p] = Without(k.descriptors[p], {d})]
  BY <1>1, <1>2 DEF Fields
<1>6. n.resource = [k.resource EXCEPT
                     ![r] = [k.resource[r] EXCEPT
                               !.descriptors_ptrs = Without(k.resource[r].descriptors_ptrs, {d})]]
  BY <1>1, <1>2 DEF Fields
<1>. HIDE DEF n
<1>7. Drops(k, n, d)
  BY <1>3, <1>4, <1>5, <1>6 DEF Drops
<1>. QED BY <1>7 DEF n

\* The descriptors and the lists they are on are the same.
SameLinks(k, n) ==
  /\ DOMAIN n = Fields
  /\ n.descriptor_allocator = k.descriptor_allocator
  /\ n.descriptor_ptr_allocator = k.descriptor_ptr_allocator
  /\ n.descriptor = k.descriptor /\ n.descriptor_ptr = k.descriptor_ptr
  /\ n.descriptors = k.descriptors
  /\ n.resource \in [Resources -> Res]
  /\ \A s \in Resources : n.resource[s].descriptors_ptrs = k.resource[s].descriptors_ptrs

\* Counted.
Recounts(k, n, r, mode, more) ==
  /\ SameLinks(k, n)
  /\ n.last_fd = k.last_fd /\ n.allocator = k.allocator /\ n.resources_list = k.resources_list
  /\ \A s \in Resources :
       /\ n.resource[s].id = k.resource[s].id /\ n.resource[s].unlinked = k.resource[s].unlinked
       /\ s[1] = "fifo" =>
            /\ n.resource[s].readers_number =
                 k.resource[s].readers_number + IF s = r /\ mode = "RDONLY" THEN more ELSE 0
            /\ n.resource[s].writers_number =
                 k.resource[s].writers_number + IF s = r /\ mode = "WRONLY" THEN more ELSE 0

\* Counted does what Recounts says.
LEMMA CountedRecounts ==
  ASSUME NEW k, ShapeOK(k), NEW r \in Resources, NEW mode, NEW more \in Int
  PROVE  Recounts(k, Counted(k, r, mode, more), r, mode, more)
<1>. DEFINE n == Counted(k, r, mode, more)
            x == k.resource[r]
            i == IF mode = "RDONLY" THEN x.readers_number + more ELSE x.readers_number
            j == IF mode = "WRONLY" THEN x.writers_number + more ELSE x.writers_number
            y == [x EXCEPT !.readers_number = i, !.writers_number = j]
<1>1. DOMAIN k = Fields /\ k.resource \in [Resources -> Res] /\ x \in Res
  BY DEF ShapeOK
<1>2. \A s \in Resources : k.resource[s].readers_number \in Int /\ k.resource[s].writers_number \in Int
  BY <1>1 DEF Res
<1>3. CASE r[1] # "fifo"
  <2>1. n = k
    BY <1>3 DEF Counted
  <2>. HIDE DEF n
  <2>2. SameLinks(k, n)
    BY <1>1, <2>1 DEF SameLinks
  <2>3. \A s \in Resources : s[1] = "fifo" => s # r
    BY <1>3
  <2>4. Recounts(k, n, r, mode, more)
    BY <1>2, <2>1, <2>2, <2>3 DEF Recounts
  <2>. QED BY <2>4 DEF n
<1>4. CASE r[1] = "fifo"
  <2>1. n = [k EXCEPT !.resource = [k.resource EXCEPT ![r] = y]]
    <3>1. n = [k EXCEPT !.resource = [k.resource EXCEPT ![r] = [x EXCEPT !.readers_number = i]],
                        !.resource[r].writers_number = IF mode = "WRONLY" THEN @ + more ELSE @]
      BY <1>4 DEF Counted
    <3>. QED BY <1>1, <1>4, <3>1 DEF Counted, Res, Fields
  <2>2. i \in Int /\ j \in Int
    BY <1>2
  <2>. HIDE DEF i, j
  <2>3. /\ y \in Res
        /\ y.id = x.id /\ y.unlinked = x.unlinked /\ y.descriptors_ptrs = x.descriptors_ptrs
        /\ y.readers_number = i /\ y.writers_number = j
    BY <1>1, <2>2 DEF Res
  <2>. HIDE DEF y
  <2>4. /\ DOMAIN n = Fields /\ n.resource = [k.resource EXCEPT ![r] = y]
        /\ n.descriptor_allocator = k.descriptor_allocator
        /\ n.descriptor_ptr_allocator = k.descriptor_ptr_allocator
        /\ n.descriptor = k.descriptor /\ n.descriptor_ptr = k.descriptor_ptr
        /\ n.descriptors = k.descriptors
        /\ n.last_fd = k.last_fd /\ n.allocator = k.allocator
        /\ n.resources_list = k.resources_list
    BY <1>1, <2>1 DEF Fields
  <2>. HIDE DEF n
  <2>5. n.resource \in [Resources -> Res]
    BY <1>1, <2>3, <2>4
  <2>6. SameLinks(k, n)
    BY <1>1, <2>3, <2>4, <2>5 DEF SameLinks
  <2>7. ASSUME NEW s \in Resources
        PROVE  /\ n.resource[s].id = k.resource[s].id /\ n.resource[s].unlinked = k.resource[s].unlinked
               /\ s[1] = "fifo" =>
                    /\ n.resource[s].readers_number =
                         k.resource[s].readers_number + IF s = r /\ mode = "RDONLY" THEN more ELSE 0
                    /\ n.resource[s].writers_number =
                         k.resource[s].writers_number + IF s = r /\ mode = "WRONLY" THEN more ELSE 0
    <3>1. CASE s = r
      BY <1>1, <1>2, <2>3, <2>4, <3>1 DEF i, j
    <3>2. CASE s # r
      BY <1>1, <1>2, <2>4, <3>2
    <3>. QED BY <3>1, <3>2
  <2>8. Recounts(k, n, r, mode, more)
    BY <2>4, <2>6, <2>7 DEF Recounts
  <2>. QED BY <2>8 DEF n
<1>. QED BY <1>3, <1>4

\* Made: r is the block it gets.
Makes(k, n, r, id) ==
  /\ SameLinks(k, n)
  /\ n.last_fd = k.last_fd
  /\ n.allocator = [k.allocator EXCEPT ![r[1]] = BlockTaken(k.allocator[r[1]])]
  /\ n.resource = [k.resource EXCEPT ![r] = NewResource(id)]
  /\ n.resources_list = IF id = Anonymous THEN k.resources_list ELSE k.resources_list \cup {r}

\* Resource_destroy that destroys.
Frees(k, n, r) ==
  /\ SameLinks(k, n)
  /\ n.last_fd = k.last_fd
  /\ n.allocator = [k.allocator EXCEPT ![r[1]] = Released(k.allocator[r[1]], r[2])]
  /\ n.resource = [k.resource EXCEPT ![r] = NewResource(Anonymous)]
  /\ n.resources_list = k.resources_list

\* The beginning of Resource_unlink.
Unlinks(k, n, r) ==
  /\ SameLinks(k, n)
  /\ n.last_fd = k.last_fd /\ n.allocator = k.allocator
  /\ n.resource = [k.resource EXCEPT ![r] = [k.resource[r] EXCEPT !.unlinked = TRUE]]
  /\ n.resources_list = k.resources_list \ {r}

\* A process takes another number for its next descriptor.
Renumbers(k, n, p, fd) ==
  /\ SameLinks(k, n)
  /\ n.last_fd = [k.last_fd EXCEPT ![p] = fd]
  /\ n.allocator = k.allocator /\ n.resource = k.resource /\ n.resources_list = k.resources_list

\* The fields of a resource just made, or freed.
LEMMA NewResourceType ==
  ASSUME NEW id \in Ids \cup {Anonymous}
  PROVE  /\ NewResource(id) \in Res
         /\ NewResource(id).id = id /\ NewResource(id).descriptors_ptrs = <<>>
         /\ NewResource(id).unlinked = (id = Anonymous)
         /\ NewResource(id).readers_number = 0 /\ NewResource(id).writers_number = 0
BY EmptySeq DEF NewResource, Res

\* An empty list of descriptor pointers belongs to a resource without descriptors.
LEMMA EmptyIffUnopened ==
  ASSUME NEW k, ShapeOK(k), LinksOK(k), NEW r \in Resources
  PROVE  k.resource[r].descriptors_ptrs = <<>> <=> Of(k, r) = {}
<1>1. k.resource[r].descriptors_ptrs \in Seq(Descriptors)
  BY DEF ShapeOK, Res
<1>2. Range(k.resource[r].descriptors_ptrs) = Of(k, r)
  BY DEF LinksOK
<1>. DEFINE s == k.resource[r].descriptors_ptrs
<1>. HIDE DEF s
<1>3. ASSUME s \in Seq(Descriptors) PROVE s = <<>> <=> Range(s) = {}
  <2>1. DOMAIN s = 1..Len(s) /\ Len(s) \in Nat
    BY <1>3, LenProperties
  <2>2. CASE s = <<>>
    BY <2>2 DEF Range
  <2>3. CASE s # <<>>
    <3>1. Len(s) # 0
      BY <1>3, <2>3, EmptySeq
    <3>2. 1 \in DOMAIN s
      BY <2>1, <3>1
    <3>. QED BY <2>3, <3>2 DEF Range
  <2>. QED BY <2>2, <2>3
<1>. QED BY <1>1, <1>2, <1>3 DEF s

\* A block of the pool of a kind that is not in use is a resource that is not held.
LEMMA MadeMakes ==
  ASSUME NEW k, ShapeOK(k), LinksOK(k), HeldOK(k, Resources),
         NEW kind \in Kinds, ~NoBlock(k.allocator[kind]), NEW id \in Ids \cup {Anonymous}
  PROVE  /\ <<kind, Block(k.allocator[kind])>> \in Resources
         /\ ~Held(k, <<kind, Block(k.allocator[kind])>>)
         /\ Makes(k, Made(k, kind, id), <<kind, Block(k.allocator[kind])>>, id)
<1>. DEFINE i == Block(k.allocator[kind])
            r == <<kind, i>>
            n == Made(k, kind, id)
<1>1. DOMAIN k = Fields /\ k.resource \in [Resources -> Res] /\ DOMAIN k.allocator = Kinds
  BY DEF ShapeOK
<1>2. i \in (0..(NumOf[kind] - 1)) \ Detached(k.allocator[kind])
  <2>1. Pool(k.allocator[kind], NumOf[kind]) /\ NumOf[kind] \in Nat
    BY Sizes DEF ShapeOK
  <2>. QED BY <2>1, TakenPool
<1>3. n = [k EXCEPT !.allocator = [k.allocator EXCEPT ![kind] = BlockTaken(k.allocator[kind])],
                    !.resource = [k.resource EXCEPT ![r] = NewResource(id)],
                    !.resources_list = IF id = Anonymous THEN k.resources_list
                                       ELSE k.resources_list \cup {r}]
  BY <1>1 DEF Made
<1>. HIDE DEF i
<1>4. r \in Resources /\ r[1] = kind /\ r[2] = i
  BY <1>2, ResourceIs
<1>5. ~Held(k, r)
  BY <1>2, <1>4 DEF Held
<1>. HIDE DEF r
<1>6. k.resource[r].descriptors_ptrs = <<>>
  BY <1>4, <1>5, EmptyIffUnopened DEF HeldOK
<1>7. /\ DOMAIN n = Fields
      /\ n.allocator = [k.allocator EXCEPT ![kind] = BlockTaken(k.allocator[kind])]
      /\ n.resource = [k.resource EXCEPT ![r] = NewResource(id)]
      /\ n.resources_list = IF id = Anonymous THEN k.resources_list ELSE k.resources_list \cup {r}
      /\ n.descriptor_allocator = k.descriptor_allocator
      /\ n.descriptor_ptr_allocator = k.descriptor_ptr_allocator
      /\ n.descriptor = k.descriptor /\ n.descriptor_ptr = k.descriptor_ptr
      /\ n.descriptors = k.descriptors /\ n.last_fd = k.last_fd
  BY <1>1, <1>3 DEF Fields
<1>. HIDE DEF n
<1>8. n.resource \in [Resources -> Res]
  BY <1>1, <1>4, <1>7, NewResourceType
<1>9. SameLinks(k, n)
  <2>1. ASSUME NEW s \in Resources PROVE n.resource[s].descriptors_ptrs = k.resource[s].descriptors_ptrs
    BY <1>1, <1>6, <1>7, NewResourceType
  <2>. QED BY <1>7, <1>8, <2>1 DEF SameLinks
<1>10. Makes(k, n, r, id)
  BY <1>4, <1>7, <1>9 DEF Makes
<1>. QED BY <1>4, <1>5, <1>10 DEF n, r, i

\* Resource_destroy frees a resource that nobody has, and does nothing to another.
LEMMA DestroyFrees ==
  ASSUME NEW k, ShapeOK(k), LinksOK(k), ListedOK(k), NEW r \in Resources
  PROVE  IF r \notin k.resources_list /\ Of(k, r) = {}
         THEN Frees(k, Resource_destroy(k, r), r)
         ELSE Resource_destroy(k, r) = k
<1>. DEFINE n == Resource_destroy(k, r)
<1>1. DOMAIN k = Fields /\ k.resource \in [Resources -> Res] /\ DOMAIN k.allocator = Kinds
  BY DEF ShapeOK
<1>2. k.resource[r].descriptors_ptrs = <<>> <=> Of(k, r) = {}
  BY EmptyIffUnopened
<1>3. r \in k.resources_list <=> ~k.resource[r].unlinked
  BY DEF ListedOK
<1>4. CASE ~(r \notin k.resources_list /\ Of(k, r) = {})
  BY <1>2, <1>3, <1>4 DEF Resource_destroy
<1>5. CASE r \notin k.resources_list /\ Of(k, r) = {}
  <2>1. n = [k EXCEPT !.allocator = [k.allocator EXCEPT ![r[1]] = Released(k.allocator[r[1]], r[2])],
                      !.resource = [k.resource EXCEPT ![r] = NewResource(Anonymous)]]
    BY <1>1, <1>2, <1>3, <1>5 DEF Resource_destroy
  <2>2. /\ DOMAIN n = Fields
        /\ n.allocator = [k.allocator EXCEPT ![r[1]] = Released(k.allocator[r[1]], r[2])]
        /\ n.resource = [k.resource EXCEPT ![r] = NewResource(Anonymous)]
        /\ n.resources_list = k.resources_list
        /\ n.descriptor_allocator = k.descriptor_allocator
        /\ n.descriptor_ptr_allocator = k.descriptor_ptr_allocator
        /\ n.descriptor = k.descriptor /\ n.descriptor_ptr = k.descriptor_ptr
        /\ n.descriptors = k.descriptors /\ n.last_fd = k.last_fd
    BY <1>1, <2>1 DEF Fields
  <2>. HIDE DEF n
  <2>3. n.resource \in [Resources -> Res]
    BY <1>1, <2>2, NewResourceType
  <2>4. SameLinks(k, n)
    <3>1. ASSUME NEW s \in Resources
          PROVE  n.resource[s].descriptors_ptrs = k.resource[s].descriptors_ptrs
      BY <1>1, <1>2, <1>5, <2>2, NewResourceType
    <3>. QED BY <2>2, <2>3, <3>1 DEF SameLinks
  <2>5. Frees(k, n, r)
    BY <2>2, <2>4 DEF Frees
  <2>. QED BY <1>5, <2>5 DEF n
<1>. QED BY <1>4, <1>5

\* The beginning of Resource_unlink does what Unlinks says.
LEMMA UnlinkedUnlinks ==
  ASSUME NEW k, ShapeOK(k), NEW r \in Resources
  PROVE  Unlinks(k, [k EXCEPT !.resource[r].unlinked = TRUE, !.resources_list = @ \ {r}], r)
<1>. DEFINE n == [k EXCEPT !.resource[r].unlinked = TRUE, !.resources_list = @ \ {r}]
            x == [k.resource[r] EXCEPT !.unlinked = TRUE]
<1>1. DOMAIN k = Fields /\ k.resource \in [Resources -> Res]
  BY DEF ShapeOK
<1>2. n = [k EXCEPT !.resource = [k.resource EXCEPT ![r] = x],
                    !.resources_list = k.resources_list \ {r}]
  BY <1>1
<1>3. /\ DOMAIN n = Fields
      /\ n.resource = [k.resource EXCEPT ![r] = x]
      /\ n.resources_list = k.resources_list \ {r} /\ n.allocator = k.allocator
      /\ n.descriptor_allocator = k.descriptor_allocator
      /\ n.descriptor_ptr_allocator = k.descriptor_ptr_allocator
      /\ n.descriptor = k.descriptor /\ n.descriptor_ptr = k.descriptor_ptr
      /\ n.descriptors = k.descriptors /\ n.last_fd = k.last_fd
  BY <1>1, <1>2 DEF Fields
<1>4. x \in Res /\ x.descriptors_ptrs = k.resource[r].descriptors_ptrs
  BY <1>1 DEF Res
<1>5. /\ n.resource \in [Resources -> Res]
      /\ \A s \in Resources : n.resource[s].descriptors_ptrs = k.resource[s].descriptors_ptrs
  <2>. HIDE DEF n, x
  <2>. QED BY <1>1, <1>3, <1>4
<1>. HIDE DEF n
<1>6. Unlinks(k, n, r)
  BY <1>3, <1>5 DEF Unlinks, SameLinks
<1>. QED BY <1>6 DEF n

\* An update of last_fd does what Renumbers says.
LEMMA UpdateRenumbers ==
  ASSUME NEW k, ShapeOK(k), NEW p, NEW fd
  PROVE  Renumbers(k, [k EXCEPT !.last_fd[p] = fd], p, fd)
<1>. DEFINE n == [k EXCEPT !.last_fd[p] = fd]
<1>1. DOMAIN k = Fields /\ k.resource \in [Resources -> Res]
  BY DEF ShapeOK
<1>2. n = [k EXCEPT !.last_fd = [k.last_fd EXCEPT ![p] = fd]]
  BY <1>1
<1>3. /\ DOMAIN n = Fields
      /\ n.resource = k.resource /\ n.last_fd = [k.last_fd EXCEPT ![p] = fd]
      /\ n.resources_list = k.resources_list /\ n.allocator = k.allocator
      /\ n.descriptor_allocator = k.descriptor_allocator
      /\ n.descriptor_ptr_allocator = k.descriptor_ptr_allocator
      /\ n.descriptor = k.descriptor /\ n.descriptor_ptr = k.descriptor_ptr
      /\ n.descriptors = k.descriptors
  BY <1>1, <1>2 DEF Fields
<1>. HIDE DEF n
<1>4. Renumbers(k, n, p, fd)
  BY <1>1, <1>3 DEF Renumbers, SameLinks
<1>. QED BY <1>4 DEF n

-----------------------------------------------------------------------------
(* The steps that leave the descriptors alone.                             *)

\* The links, the numbers and the owners are about those fields only.
LEMMA SameLinksKept ==
  ASSUME NEW k, NEW n, SameLinks(k, n)
  PROVE  /\ Used(n) = Used(k)
         /\ \A r : Of(n, r) = Of(k, r)
         /\ \A r, mode : Opened(n, r, mode) = Opened(k, r, mode)
         /\ LinksOK(k) => LinksOK(n)
         /\ \A limit : FdsOK(k, limit) => FdsOK(n, limit)
         /\ \A living : AliveOK(k, living) => AliveOK(n, living)
<1>1. Used(n) = Used(k)
  BY DEF SameLinks, Used
<1>2. /\ n.descriptor = k.descriptor /\ n.descriptor_ptr = k.descriptor_ptr
      /\ n.descriptors = k.descriptors
      /\ \A s \in Resources : n.resource[s].descriptors_ptrs = k.resource[s].descriptors_ptrs
  BY DEF SameLinks
<1>3. \A r : Of(n, r) = Of(k, r)
  BY <1>1, <1>2 DEF Of
<1>4. \A r, mode : Opened(n, r, mode) = Opened(k, r, mode)
  BY <1>2, <1>3 DEF Opened
<1>5. LinksOK(k) => LinksOK(n)
  BY <1>1, <1>2, <1>3 DEF LinksOK
<1>6. \A limit : FdsOK(k, limit) => FdsOK(n, limit)
  BY <1>1, <1>2 DEF FdsOK
<1>7. \A living : AliveOK(k, living) => AliveOK(n, living)
  BY <1>1, <1>2 DEF AliveOK
<1>. QED BY <1>1, <1>3, <1>4, <1>5, <1>6, <1>7

\* The types then only depend on the other fields.
LEMMA SameLinksShape ==
  ASSUME NEW k, NEW n, ShapeOK(k), SameLinks(k, n), n.last_fd \in [Pcbs -> Nat],
         DOMAIN n.allocator = Kinds, \A kind \in Kinds : Pool(n.allocator[kind], NumOf[kind]),
         n.resources_list \subseteq Resources
  PROVE  ShapeOK(n)
BY DEF ShapeOK, SameLinks

\* Counting changes the counters only.
LEMMA RecountsKeeps ==
  ASSUME NEW k, NEW n, NEW r, NEW mode, NEW more \in Int, Recounts(k, n, r, mode, more), ShapeOK(k)
  PROVE  /\ ShapeOK(n)
         /\ ListedOK(k) => ListedOK(n)
         /\ \A rs \in SUBSET Resources : HeldOK(k, rs) => HeldOK(n, rs)
         /\ \A was \in Int : CountsOff(k, r, mode, was) => CountsOff(n, r, mode, was + more)
<1>1. /\ SameLinks(k, n)
      /\ n.last_fd = k.last_fd /\ n.allocator = k.allocator /\ n.resources_list = k.resources_list
  BY DEF Recounts
<1>2. ShapeOK(n)
  BY <1>1, SameLinksShape DEF ShapeOK
<1>3. \A s \in Resources :
        n.resource[s].id = k.resource[s].id /\ n.resource[s].unlinked = k.resource[s].unlinked
  BY DEF Recounts
<1>4. ListedOK(k) => ListedOK(n)
  <2>1. k.resources_list \subseteq Resources
    BY DEF ShapeOK
  <2>. QED BY <1>1, <1>3, <2>1 DEF ListedOK
<1>5. \A rs \in SUBSET Resources : HeldOK(k, rs) => HeldOK(n, rs)
  BY <1>1, SameLinksKept DEF HeldOK, Held
<1>6. ASSUME NEW was \in Int, CountsOff(k, r, mode, was)
      PROVE  CountsOff(n, r, mode, was + more)
  <2>1. ASSUME NEW s \in Resources, s[1] = "fifo"
        PROVE  /\ n.resource[s].readers_number =
                    Cardinality(Opened(n, s, "RDONLY"))
                      + IF s = r /\ mode = "RDONLY" THEN was + more ELSE 0
               /\ n.resource[s].writers_number =
                    Cardinality(Opened(n, s, "WRONLY"))
                      + IF s = r /\ mode = "WRONLY" THEN was + more ELSE 0
    <3>1. /\ n.resource[s].readers_number =
               k.resource[s].readers_number + IF s = r /\ mode = "RDONLY" THEN more ELSE 0
          /\ n.resource[s].writers_number =
               k.resource[s].writers_number + IF s = r /\ mode = "WRONLY" THEN more ELSE 0
      BY <2>1 DEF Recounts
    <3>2. /\ k.resource[s].readers_number =
               Cardinality(Opened(k, s, "RDONLY")) + IF s = r /\ mode = "RDONLY" THEN was ELSE 0
          /\ k.resource[s].writers_number =
               Cardinality(Opened(k, s, "WRONLY")) + IF s = r /\ mode = "WRONLY" THEN was ELSE 0
      BY <1>6, <2>1 DEF CountsOff
    <3>3. \A m : Cardinality(Opened(n, s, m)) = Cardinality(Opened(k, s, m))
      BY <1>1, SameLinksKept
    <3>4. \A m : Cardinality(Opened(k, s, m)) \in Nat
      BY UsedFinite, FS_CardinalityType
    <3>. QED BY <3>1, <3>2, <3>3, <3>4
  <2>. QED BY <2>1 DEF CountsOff
<1>. QED BY <1>2, <1>4, <1>5, <1>6

\* A resource is made with a name nobody has, or without one, and is held.
LEMMA MakesKeeps ==
  ASSUME NEW k, NEW n, NEW r \in Resources, NEW id \in Ids \cup {Anonymous}, Makes(k, n, r, id),
         AllBut(k, k.last_fd), HeldOK(k, Resources), CountsOK(k), ~Held(k, r), ById(k, id) = {},
         ~NoBlock(k.allocator[r[1]]), Block(k.allocator[r[1]]) = r[2]
  PROVE  /\ AllBut(n, n.last_fd)
         /\ HeldOK(n, IF id = Anonymous THEN Resources \ {r} ELSE Resources)
         /\ Held(n, r) /\ Of(n, r) = {} /\ (r \in n.resources_list <=> id # Anonymous)
         /\ CountsOK(n)
<1>. USE DEF AllBut
<1>1. SameLinks(k, n) /\ n.last_fd = k.last_fd
  BY DEF Makes
<1>2. /\ n.allocator = [k.allocator EXCEPT ![r[1]] = BlockTaken(k.allocator[r[1]])]
      /\ n.resource = [k.resource EXCEPT ![r] = NewResource(id)]
      /\ n.resources_list = IF id = Anonymous THEN k.resources_list ELSE k.resources_list \cup {r}
  BY DEF Makes
<1>3. /\ k.resource \in [Resources -> Res] /\ DOMAIN k.allocator = Kinds
      /\ k.resources_list \subseteq Resources /\ r[1] \in Kinds
      /\ \A kind \in Kinds : Pool(k.allocator[kind], NumOf[kind]) /\ NumOf[kind] \in Nat
  BY Sizes, ResourceIs DEF ShapeOK
<1>4. /\ Pool(BlockTaken(k.allocator[r[1]]), NumOf[r[1]])
      /\ Detached(BlockTaken(k.allocator[r[1]])) = Detached(k.allocator[r[1]]) \cup {r[2]}
  BY <1>3, TakenPool
<1>5. ShapeOK(n)
  <2>1. DOMAIN n.allocator = Kinds /\ \A kind \in Kinds : Pool(n.allocator[kind], NumOf[kind])
    BY <1>2, <1>3, <1>4
  <2>2. n.resources_list \subseteq Resources
    BY <1>2, <1>3
  <2>3. n.last_fd \in [Pcbs -> Nat] /\ ShapeOK(k)
    BY <1>1 DEF ShapeOK
  <2>. QED BY <1>1, <2>1, <2>2, <2>3, SameLinksShape
<1>6. LinksOK(n) /\ FdsOK(n, n.last_fd)
  BY <1>1, SameLinksKept
<1>7. /\ \A s \in Resources \ {r} : n.resource[s] = k.resource[s]
      /\ n.resource[r].id = id /\ n.resource[r].unlinked = (id = Anonymous)
      /\ n.resource[r].readers_number = 0 /\ n.resource[r].writers_number = 0
  BY <1>2, <1>3, NewResourceType
<1>8. Of(k, r) = {} /\ r \notin k.resources_list
  BY DEF HeldOK
<1>9. r \in n.resources_list <=> id # Anonymous
  BY <1>2, <1>8
<1>10. \A s \in Resources \ {r} : s \in n.resources_list <=> s \in k.resources_list
  BY <1>2
<1>11. ListedOK(n)
  <2>1. \A s \in Resources : s \in n.resources_list <=> ~n.resource[s].unlinked
    BY <1>7, <1>9, <1>10 DEF ListedOK
  <2>2. \A s \in n.resources_list : n.resource[s].id \in Ids
    BY <1>3, <1>5, <1>7, <1>9, <1>10 DEF ListedOK, ShapeOK
  <2>3. \A s \in k.resources_list : k.resource[s].id # id
    BY DEF ById
  <2>4. \A s, t \in n.resources_list : n.resource[s].id = n.resource[t].id => s = t
    <3>1. ASSUME NEW s \in n.resources_list, NEW t \in n.resources_list,
                 n.resource[s].id = n.resource[t].id
          PROVE  s = t
      <4>1. s \in Resources /\ t \in Resources
        BY <1>5 DEF ShapeOK
      <4>2. CASE s # r /\ t # r
        BY <1>7, <1>10, <3>1, <4>1, <4>2 DEF ListedOK
      <4>3. CASE s = r /\ t # r
        BY <1>7, <1>10, <2>3, <3>1, <4>1, <4>3
      <4>4. CASE s # r /\ t = r
        BY <1>7, <1>10, <2>3, <3>1, <4>1, <4>4
      <4>. QED BY <4>2, <4>3, <4>4
    <3>. QED BY <3>1
  <2>. QED BY <2>1, <2>2, <2>4 DEF ListedOK
<1>12. Held(n, r) /\ \A s \in Resources \ {r} : Held(n, s) <=> Held(k, s)
  <2>1. Held(n, r)
    BY <1>2, <1>3, <1>4 DEF Held
  <2>2. ASSUME NEW s \in Resources \ {r} PROVE Held(n, s) <=> Held(k, s)
    <3>1. CASE s[1] # r[1]
      BY <1>2, <1>3, <3>1, ResourceIs DEF Held
    <3>2. CASE s[1] = r[1]
      <4>1. s[2] # r[2]
        BY <3>2, ResourceIs
      <4>. QED BY <1>2, <1>3, <1>4, <3>2, <4>1 DEF Held
    <3>. QED BY <3>1, <3>2
  <2>. QED BY <2>1, <2>2
<1>13. \A s : Of(n, s) = Of(k, s)
  BY <1>1, SameLinksKept
<1>14. HeldOK(n, IF id = Anonymous THEN Resources \ {r} ELSE Resources)
  <2>1. HeldOK(n, Resources \ {r})
    BY <1>10, <1>12, <1>13 DEF HeldOK
  <2>. QED BY <1>9, <1>12, <2>1 DEF HeldOK
<1>15. CountsOK(n)
  <2>1. ASSUME NEW s \in Resources, s[1] = "fifo"
        PROVE  /\ n.resource[s].readers_number = Cardinality(Opened(n, s, "RDONLY"))
               /\ n.resource[s].writers_number = Cardinality(Opened(n, s, "WRONLY"))
    <3>1. CASE s # r
      <4>1. \A m : Opened(n, s, m) = Opened(k, s, m)
        BY <1>1, SameLinksKept
      <4>. QED BY <1>7, <2>1, <3>1, <4>1 DEF CountsOK
    <3>2. CASE s = r
      <4>1. \A m : Opened(n, s, m) = {}
        BY <1>8, <1>13, <3>2 DEF Opened
      <4>. QED BY <1>7, <3>2, <4>1, FS_EmptySet
    <3>. QED BY <3>1, <3>2
  <2>. QED BY <2>1 DEF CountsOK
<1>. QED BY <1>1, <1>5, <1>6, <1>8, <1>9, <1>11, <1>12, <1>13, <1>14, <1>15

\* A resource nobody has is freed: all the others stay.
LEMMA FreesKeeps ==
  ASSUME NEW k, NEW n, NEW r \in Resources, Frees(k, n, r),
         AllBut(k, k.last_fd), HeldOK(k, Resources \ {r}), CountsOK(k),
         Held(k, r), r \notin k.resources_list, Of(k, r) = {}
  PROVE  AllBut(n, n.last_fd) /\ HeldOK(n, Resources) /\ CountsOK(n)
<1>. USE DEF AllBut
<1>1. SameLinks(k, n) /\ n.last_fd = k.last_fd /\ n.resources_list = k.resources_list
  BY DEF Frees
<1>2. /\ n.allocator = [k.allocator EXCEPT ![r[1]] = Released(k.allocator[r[1]], r[2])]
      /\ n.resource = [k.resource EXCEPT ![r] = NewResource(Anonymous)]
  BY DEF Frees
<1>3. /\ k.resource \in [Resources -> Res] /\ DOMAIN k.allocator = Kinds
      /\ k.resources_list \subseteq Resources /\ r[1] \in Kinds
      /\ \A kind \in Kinds : Pool(k.allocator[kind], NumOf[kind]) /\ NumOf[kind] \in Nat
  BY Sizes, ResourceIs DEF ShapeOK
<1>4. /\ Pool(Released(k.allocator[r[1]], r[2]), NumOf[r[1]])
      /\ Detached(Released(k.allocator[r[1]], r[2])) = Detached(k.allocator[r[1]]) \ {r[2]}
  BY <1>3, ReleasedPool DEF Held
<1>5. ShapeOK(n)
  <2>1. DOMAIN n.allocator = Kinds /\ \A kind \in Kinds : Pool(n.allocator[kind], NumOf[kind])
    BY <1>2, <1>3, <1>4
  <2>2. n.last_fd \in [Pcbs -> Nat] /\ ShapeOK(k)
    BY <1>1 DEF ShapeOK
  <2>. QED BY <1>1, <1>3, <2>1, <2>2, SameLinksShape
<1>6. LinksOK(n) /\ FdsOK(n, n.last_fd)
  BY <1>1, SameLinksKept
<1>7. /\ \A s \in Resources \ {r} : n.resource[s] = k.resource[s]
      /\ n.resource[r].unlinked = TRUE
      /\ n.resource[r].readers_number = 0 /\ n.resource[r].writers_number = 0
  BY <1>2, <1>3, NewResourceType
<1>8. ListedOK(n)
  <2>1. \A s \in n.resources_list : s \in Resources \ {r}
    BY <1>1, <1>3
  <2>. QED BY <1>1, <1>7, <2>1 DEF ListedOK
<1>9. ~Held(n, r) /\ \A s \in Resources \ {r} : Held(n, s) <=> Held(k, s)
  <2>1. ~Held(n, r)
    BY <1>2, <1>3, <1>4 DEF Held
  <2>2. ASSUME NEW s \in Resources \ {r} PROVE Held(n, s) <=> Held(k, s)
    <3>1. CASE s[1] # r[1]
      BY <1>2, <1>3, <3>1, ResourceIs DEF Held
    <3>2. CASE s[1] = r[1]
      <4>1. s[2] # r[2]
        BY <3>2, ResourceIs
      <4>. QED BY <1>2, <1>3, <1>4, <3>2, <4>1 DEF Held
    <3>. QED BY <3>1, <3>2
  <2>. QED BY <2>1, <2>2
<1>10. \A s : Of(n, s) = Of(k, s)
  BY <1>1, SameLinksKept
<1>11. HeldOK(n, Resources)
  BY <1>1, <1>9, <1>10 DEF HeldOK
<1>12. CountsOK(n)
  <2>1. ASSUME NEW s \in Resources, s[1] = "fifo"
        PROVE  /\ n.resource[s].readers_number = Cardinality(Opened(n, s, "RDONLY"))
               /\ n.resource[s].writers_number = Cardinality(Opened(n, s, "WRONLY"))
    <3>1. CASE s # r
      <4>1. \A m : Opened(n, s, m) = Opened(k, s, m)
        BY <1>1, SameLinksKept
      <4>. QED BY <1>7, <2>1, <3>1, <4>1 DEF CountsOK
    <3>2. CASE s = r
      <4>1. \A m : Opened(n, s, m) = {}
        BY <1>10, <3>2 DEF Opened
      <4>. QED BY <1>7, <3>2, <4>1, FS_EmptySet
    <3>. QED BY <3>1, <3>2
  <2>. QED BY <2>1 DEF CountsOK
<1>. QED BY <1>5, <1>6, <1>8, <1>11, <1>12

\* Resource_destroy frees a resource as soon as nobody has it.
LEMMA DestroyKeeps ==
  ASSUME NEW k, NEW r \in Resources,
         AllBut(k, k.last_fd), HeldOK(k, Resources \ {r}), CountsOK(k), Held(k, r)
  PROVE  /\ AllBut(Resource_destroy(k, r), k.last_fd)
         /\ HeldOK(Resource_destroy(k, r), Resources)
         /\ CountsOK(Resource_destroy(k, r))
         /\ SameLinks(k, Resource_destroy(k, r))
         /\ Resource_destroy(k, r).last_fd = k.last_fd
<1>. DEFINE n == Resource_destroy(k, r)
<1>1. CASE r \notin k.resources_list /\ Of(k, r) = {}
  <2>1. Frees(k, n, r)
    BY <1>1, DestroyFrees DEF AllBut
  <2>. HIDE DEF n
  <2>2. AllBut(n, n.last_fd) /\ HeldOK(n, Resources) /\ CountsOK(n)
    BY <1>1, <2>1, FreesKeeps
  <2>3. SameLinks(k, n) /\ n.last_fd = k.last_fd
    BY <2>1 DEF Frees
  <2>. QED BY <2>2, <2>3 DEF n
<1>2. CASE ~(r \notin k.resources_list /\ Of(k, r) = {})
  <2>1. n = k
    BY <1>2, DestroyFrees DEF AllBut
  <2>. HIDE DEF n
  <2>2. HeldOK(k, Resources)
    BY <1>2 DEF HeldOK
  <2>3. SameLinks(k, k)
    BY DEF AllBut, ShapeOK, SameLinks
  <2>. QED BY <2>1, <2>2, <2>3 DEF n
<1>. QED BY <1>1, <1>2

\* An unlinked resource may have nobody left.
LEMMA UnlinksKeeps ==
  ASSUME NEW k, NEW n, NEW r \in k.resources_list, Unlinks(k, n, r),
         AllBut(k, k.last_fd), HeldOK(k, Resources), CountsOK(k)
  PROVE  /\ AllBut(n, n.last_fd) /\ HeldOK(n, Resources \ {r}) /\ CountsOK(n)
         /\ Held(n, r) /\ SameLinks(k, n) /\ n.last_fd = k.last_fd
<1>. USE DEF AllBut
<1>1. /\ SameLinks(k, n) /\ n.last_fd = k.last_fd /\ n.allocator = k.allocator
      /\ n.resource = [k.resource EXCEPT ![r] = [k.resource[r] EXCEPT !.unlinked = TRUE]]
      /\ n.resources_list = k.resources_list \ {r}
  BY DEF Unlinks
<1>2. k.resource \in [Resources -> Res] /\ k.resources_list \subseteq Resources /\ r \in Resources
  BY DEF ShapeOK
<1>3. ShapeOK(n)
  <2>1. n.resources_list \subseteq Resources
    BY <1>1, <1>2
  <2>2. DOMAIN n.allocator = Kinds /\ \A kind \in Kinds : Pool(n.allocator[kind], NumOf[kind])
    BY <1>1 DEF ShapeOK
  <2>3. n.last_fd \in [Pcbs -> Nat] /\ ShapeOK(k)
    BY <1>1 DEF ShapeOK
  <2>. QED BY <1>1, <2>1, <2>2, <2>3, SameLinksShape
<1>4. LinksOK(n) /\ FdsOK(n, n.last_fd)
  BY <1>1, SameLinksKept
<1>5. /\ \A s \in Resources \ {r} : n.resource[s] = k.resource[s]
      /\ n.resource[r].unlinked = TRUE
      /\ n.resource[r].readers_number = k.resource[r].readers_number
      /\ n.resource[r].writers_number = k.resource[r].writers_number
  <2>1. k.resource[r] \in Res
    BY <1>2
  <2>. QED BY <1>1, <1>2, <2>1 DEF Res
<1>6. ListedOK(n)
  <2>1. \A s \in n.resources_list : s \in Resources \ {r} /\ s \in k.resources_list
    BY <1>1, <1>2
  <2>2. \A s \in Resources \ {r} : s \in n.resources_list <=> s \in k.resources_list
    BY <1>1
  <2>3. r \notin n.resources_list
    BY <1>1
  <2>. QED BY <1>5, <2>1, <2>2, <2>3 DEF ListedOK
<1>7. \A s : Of(n, s) = Of(k, s)
  BY <1>1, SameLinksKept
<1>8. \A s : Held(n, s) <=> Held(k, s)
  BY <1>1 DEF Held
<1>9. HeldOK(n, Resources \ {r}) /\ Held(n, r)
  BY <1>1, <1>2, <1>7, <1>8 DEF HeldOK
<1>10. CountsOK(n)
  <2>1. ASSUME NEW s \in Resources
        PROVE  /\ n.resource[s].readers_number = k.resource[s].readers_number
               /\ n.resource[s].writers_number = k.resource[s].writers_number
    BY <1>5
  <2>2. \A s, m : Opened(n, s, m) = Opened(k, s, m)
    BY <1>1, SameLinksKept
  <2>. QED BY <2>1, <2>2 DEF CountsOK
<1>. QED BY <1>1, <1>3, <1>4, <1>6, <1>9, <1>10

\* A process may take any number above those it has.
LEMMA RenumbersKeeps ==
  ASSUME NEW k, NEW n, NEW p \in Pcbs, NEW fd \in Nat, Renumbers(k, n, p, fd),
         ShapeOK(k), LinksOK(k), FdsOK(k, [k.last_fd EXCEPT ![p] = fd]), ListedOK(k)
  PROVE  /\ AllBut(n, n.last_fd) /\ SameLinks(k, n)
         /\ \A rs \in SUBSET Resources : HeldOK(k, rs) => HeldOK(n, rs)
         /\ CountsOK(k) => CountsOK(n)
<1>1. /\ SameLinks(k, n) /\ n.last_fd = [k.last_fd EXCEPT ![p] = fd]
      /\ n.allocator = k.allocator /\ n.resource = k.resource
      /\ n.resources_list = k.resources_list
  BY DEF Renumbers
<1>2. ShapeOK(n)
  <2>1. n.last_fd \in [Pcbs -> Nat]
    BY <1>1 DEF ShapeOK
  <2>. QED BY <1>1, <2>1, SameLinksShape DEF ShapeOK
<1>3. LinksOK(n) /\ FdsOK(n, n.last_fd)
  BY <1>1, SameLinksKept
<1>4. ListedOK(n)
  BY <1>1 DEF ListedOK
<1>5. \A rs \in SUBSET Resources : HeldOK(k, rs) => HeldOK(n, rs)
  BY <1>1, SameLinksKept DEF HeldOK, Held
<1>6. CountsOK(k) => CountsOK(n)
  <2>1. \A s, m : Opened(n, s, m) = Opened(k, s, m)
    BY <1>1, SameLinksKept
  <2>. QED BY <1>1, <2>1 DEF CountsOK
<1>. QED BY <1>1, <1>2, <1>3, <1>4, <1>5, <1>6 DEF AllBut

-----------------------------------------------------------------------------
(* A descriptor is made.                                                   *)

\* A descriptor more, with a free block, on the two lists.
LEMMA AddsKeeps ==
  ASSUME NEW k, NEW n, NEW p \in Pcbs, NEW fd \in 0..LastFd, NEW r \in Resources,
         NEW mode \in AllModes, NEW d,
         Adds(k, n, d, p, fd, r, mode), ~NoBlock(k.descriptor_allocator),
         ShapeOK(k), LinksOK(k)
  PROVE  /\ d \in Descriptors \ Used(k) /\ Used(n) = Used(k) \cup {d}
         /\ \A e \in Used(k) : n.descriptor[e] = k.descriptor[e]
         /\ n.descriptor[d].fd = fd /\ n.descriptor[d].resource = r
         /\ n.descriptor[d].pcb = p /\ n.descriptor[d].mode = mode
         /\ ShapeOK(n) /\ LinksOK(n)
<1>1. /\ d = Block(k.descriptor_allocator)
      /\ n.descriptor_allocator = BlockTaken(k.descriptor_allocator)
      /\ n.descriptor_ptr_allocator = n.descriptor_allocator
      /\ n.descriptor = [k.descriptor EXCEPT
                       ![d] = [fd |-> fd, resource |-> r, pcb |-> p, mode |-> mode, ptr |-> d]]
      /\ n.descriptor_ptr = [k.descriptor_ptr EXCEPT ![d] = d]
      /\ n.descriptors = [k.descriptors EXCEPT ![p] = Append(k.descriptors[p], d)]
      /\ n.resource = [k.resource EXCEPT
                     ![r] = [k.resource[r] EXCEPT
                               !.descriptors_ptrs = Append(k.resource[r].descriptors_ptrs, d)]]
      /\ n.last_fd = k.last_fd /\ n.allocator = k.allocator /\ n.resources_list = k.resources_list
  BY DEF Adds
<1>2. /\ Pool(k.descriptor_allocator, NumDescriptors)
      /\ k.descriptor \in [Descriptors -> Desc]
      /\ k.descriptor_ptr \in [Descriptors -> Descriptors \cup {-1}]
      /\ k.descriptors \in [Pcbs -> Seq(Descriptors)]
      /\ k.resource \in [Resources -> Res]
  BY DEF ShapeOK
<1>3. /\ d \in Descriptors \ Used(k)
      /\ Pool(n.descriptor_allocator, NumDescriptors)
      /\ Used(n) = Used(k) \cup {d}
  <2>1. /\ Block(k.descriptor_allocator) \in (0..(NumDescriptors - 1)) \ Detached(k.descriptor_allocator)
        /\ Pool(BlockTaken(k.descriptor_allocator), NumDescriptors)
        /\ Detached(BlockTaken(k.descriptor_allocator)) =
             Detached(k.descriptor_allocator) \cup {Block(k.descriptor_allocator)}
    BY <1>2, Sizes, TakenPool
  <2>. QED BY <1>1, <2>1, Sizes DEF Used
<1>4. d \in Descriptors /\ fd \in -1..LastFd
  BY <1>3, DescriptorsAssumption
<1>5. /\ n.descriptor[d] = [fd |-> fd, resource |-> r, pcb |-> p, mode |-> mode, ptr |-> d]
      /\ \A e \in Descriptors \ {d} : n.descriptor[e] = k.descriptor[e]
      /\ n.descriptor_ptr[d] = d
      /\ \A e \in Descriptors \ {d} : n.descriptor_ptr[e] = k.descriptor_ptr[e]
  BY <1>1, <1>2, <1>3
<1>6. n.descriptor \in [Descriptors -> Desc]
  <2>. DEFINE item == [fd |-> fd, resource |-> r, pcb |-> p, mode |-> mode, ptr |-> d]
  <2>1. item \in Desc
    BY <1>4 DEF Desc
  <2>2. n.descriptor = [k.descriptor EXCEPT ![d] = item]
    BY <1>1
  <2>3. k.descriptor \in [Descriptors -> Desc]
    BY <1>2
  <2>. HIDE DEF item
  <2>. QED BY <2>1, <2>2, <2>3, Zenon
<1>7. Used(k) \subseteq Descriptors \ {d}
  BY <1>3, UsedFinite
<1>. DEFINE own == k.descriptors[p]
            ptrs == k.resource[r].descriptors_ptrs
<1>8. /\ own \in Seq(Descriptors) /\ IsInjective(own)
      /\ Range(own) = {e \in Used(k) : k.descriptor[e].pcb = p}
  BY <1>2 DEF LinksOK
<1>9. ptrs \in Seq(Descriptors) /\ IsInjective(ptrs) /\ Range(ptrs) = Of(k, r)
  BY <1>2 DEF LinksOK, Res
<1>10. /\ Append(own, d) \in Seq(Descriptors)
       /\ Range(Append(own, d)) = Range(own) \cup {d}
       /\ IsInjective(Append(own, d))
  <2>. HIDE DEF own
  <2>. QED BY <1>3, <1>8, AppendRange
<1>11. /\ Append(ptrs, d) \in Seq(Descriptors)
       /\ Range(Append(ptrs, d)) = Range(ptrs) \cup {d}
       /\ IsInjective(Append(ptrs, d))
  <2>1. d \notin Range(ptrs)
    BY <1>3, <1>9 DEF Of
  <2>. HIDE DEF ptrs
  <2>. QED BY <1>3, <1>9, <2>1, AppendRange
<1>12. /\ n.descriptors[p] = Append(own, d)
       /\ \A q \in Pcbs \ {p} : n.descriptors[q] = k.descriptors[q]
       /\ n.descriptors \in [Pcbs -> Seq(Descriptors)]
  BY <1>1, <1>2, <1>10
<1>13. /\ n.resource[r].descriptors_ptrs = Append(ptrs, d)
       /\ \A s \in Resources \ {r} : n.resource[s] = k.resource[s]
       /\ n.resource \in [Resources -> Res]
  <2>1. k.resource[r] \in Res
    BY <1>2
  <2>. DEFINE x == [k.resource[r] EXCEPT !.descriptors_ptrs = Append(ptrs, d)]
  <2>2. x \in Res /\ x.descriptors_ptrs = Append(ptrs, d)
    <3>. HIDE DEF ptrs
    <3>. QED BY <1>11, <2>1 DEF Res
  <2>3. n.resource = [k.resource EXCEPT ![r] = x]
    BY <1>1
  <2>. HIDE DEF x
  <2>. QED BY <1>2, <2>2, <2>3
<1>14. n.descriptor_ptr \in [Descriptors -> Descriptors \cup {-1}]
  BY <1>1, <1>2, <1>3
<1>15. ShapeOK(n)
  <2>1. DOMAIN n = Fields
    BY DEF Adds
  <2>. QED BY <1>1, <1>3, <1>6, <1>12, <1>13, <1>14, <2>1 DEF ShapeOK
<1>16. \A s : Of(n, s) = IF s = r THEN Of(k, s) \cup {d} ELSE Of(k, s)
  BY <1>3, <1>5, <1>7 DEF Of
<1>17. LinksOK(n)
  <2>1. \A e \in Used(n) :
          n.descriptor[e].resource \in Resources /\ n.descriptor[e].ptr = e /\ n.descriptor_ptr[e] = e
    <3>1. \A e \in Used(k) : /\ k.descriptor[e].resource \in Resources /\ k.descriptor[e].ptr = e
                             /\ k.descriptor_ptr[e] = e
      BY DEF LinksOK
    <3>. QED BY <1>3, <1>5, <1>7, <3>1
  <2>2. ASSUME NEW q \in Pcbs
        PROVE  /\ IsInjective(n.descriptors[q])
               /\ Range(n.descriptors[q]) = {e \in Used(n) : n.descriptor[e].pcb = q}
    <3>1. CASE q = p
      <4>1. {e \in Used(n) : n.descriptor[e].pcb = p} = {e \in Used(k) : k.descriptor[e].pcb = p} \cup {d}
        BY <1>3, <1>5, <1>7
      <4>. QED BY <1>8, <1>10, <1>12, <3>1, <4>1
    <3>2. CASE q # p
      <4>1. {e \in Used(n) : n.descriptor[e].pcb = q} = {e \in Used(k) : k.descriptor[e].pcb = q}
        BY <1>3, <1>5, <1>7, <3>2
      <4>. QED BY <1>12, <3>2, <4>1 DEF LinksOK
    <3>. QED BY <3>1, <3>2
  <2>3. ASSUME NEW s \in Resources
        PROVE  /\ IsInjective(n.resource[s].descriptors_ptrs)
               /\ Range(n.resource[s].descriptors_ptrs) = Of(n, s)
    <3>1. CASE s = r
      BY <1>9, <1>11, <1>13, <1>16, <3>1
    <3>2. CASE s # r
      BY <1>13, <1>16, <3>2 DEF LinksOK
    <3>. QED BY <3>1, <3>2
  <2>. QED BY <2>1, <2>2, <2>3 DEF LinksOK
<1>. QED BY <1>3, <1>5, <1>7, <1>15, <1>17

\* What follows for the other parts: the counters of r are one too low.
LEMMA AddsOthers ==
  ASSUME NEW k, NEW n, NEW p \in Pcbs, NEW fd \in 0..LastFd, NEW r \in Resources,
         NEW mode \in AllModes, NEW d,
         Adds(k, n, d, p, fd, r, mode), ~NoBlock(k.descriptor_allocator),
         ShapeOK(k), LinksOK(k)
  PROVE  /\ \A limit : /\ FdsOK(k, limit) /\ fd < limit[p]
                       /\ \A e \in Used(k) : k.descriptor[e].pcb = p => k.descriptor[e].fd # fd
                       => FdsOK(n, limit)
         /\ ListedOK(k) => ListedOK(n)
         /\ HeldOK(k, Resources \ {r}) /\ Held(k, r) => HeldOK(n, Resources)
         /\ \A was \in Int : CountsOff(k, r, mode, was) => CountsOff(n, r, mode, was - 1)
         /\ \A living : AliveOK(k, living) /\ p \in living => AliveOK(n, living)
<1>1. /\ d \in Descriptors \ Used(k) /\ Used(n) = Used(k) \cup {d}
      /\ \A e \in Used(k) : n.descriptor[e] = k.descriptor[e]
      /\ n.descriptor[d].fd = fd /\ n.descriptor[d].resource = r
      /\ n.descriptor[d].pcb = p /\ n.descriptor[d].mode = mode
      /\ ShapeOK(n)
  BY AddsKeeps
<1>2. /\ n.descriptor[d].fd = fd /\ n.descriptor[d].resource = r
      /\ n.descriptor[d].pcb = p /\ n.descriptor[d].mode = mode
  BY <1>1
<1>3. ASSUME NEW limit, FdsOK(k, limit), fd < limit[p],
             \A e \in Used(k) : k.descriptor[e].pcb = p => k.descriptor[e].fd # fd
      PROVE  FdsOK(n, limit)
  <2>1. \A e \in Used(n) :
          n.descriptor[e].fd \in 0..LastFd /\ n.descriptor[e].fd < limit[n.descriptor[e].pcb]
    BY <1>1, <1>2, <1>3 DEF FdsOK
  <2>2. ASSUME NEW e \in Used(n), NEW f \in Used(n),
               n.descriptor[e].pcb = n.descriptor[f].pcb, n.descriptor[e].fd = n.descriptor[f].fd
        PROVE  e = f
    <3>1. CASE e # d /\ f # d
      BY <1>1, <1>3, <2>2, <3>1 DEF FdsOK
    <3>2. CASE e = d /\ f # d
      BY <1>1, <1>2, <1>3, <2>2, <3>2
    <3>3. CASE e # d /\ f = d
      BY <1>1, <1>2, <1>3, <2>2, <3>3
    <3>. QED BY <3>1, <3>2, <3>3
  <2>. QED BY <2>1, <2>2 DEF FdsOK
<1>4. /\ k.resource \in [Resources -> Res] /\ n.allocator = k.allocator
      /\ n.resources_list = k.resources_list /\ k.resources_list \subseteq Resources
      /\ n.resource = [k.resource EXCEPT
                     ![r] = [k.resource[r] EXCEPT
                               !.descriptors_ptrs = Append(k.resource[r].descriptors_ptrs, d)]]
  BY DEF Adds, ShapeOK
<1>5. \A s \in Resources :
        /\ n.resource[s].id = k.resource[s].id /\ n.resource[s].unlinked = k.resource[s].unlinked
        /\ n.resource[s].readers_number = k.resource[s].readers_number
        /\ n.resource[s].writers_number = k.resource[s].writers_number
  <2>1. k.resource[r] \in Res
    BY <1>4
  <2>2. ASSUME NEW s \in Resources, s # r PROVE n.resource[s] = k.resource[s]
    BY <1>4, <2>2
  <2>3. n.resource[r] = [k.resource[r] EXCEPT
                               !.descriptors_ptrs = Append(k.resource[r].descriptors_ptrs, d)]
    BY <1>4
  <2>. QED BY <2>1, <2>2, <2>3 DEF Res
<1>6. ListedOK(k) => ListedOK(n)
  BY <1>4, <1>5 DEF ListedOK
<1>7. \A s : Of(n, s) = IF s = r THEN Of(k, s) \cup {d} ELSE Of(k, s)
  BY <1>1, <1>2 DEF Of
<1>8. HeldOK(k, Resources \ {r}) /\ Held(k, r) => HeldOK(n, Resources)
  <2>1. \A s : Held(n, s) <=> Held(k, s)
    BY <1>4 DEF Held
  <2>. QED BY <1>4, <1>7, <2>1 DEF HeldOK
<1>9. ASSUME NEW was \in Int, CountsOff(k, r, mode, was)
      PROVE  CountsOff(n, r, mode, was - 1)
  <2>1. ASSUME NEW s \in Resources, NEW m
        PROVE  /\ Cardinality(Opened(k, s, m)) \in Nat
               /\ Cardinality(Opened(n, s, m)) =
                    Cardinality(Opened(k, s, m)) + IF s = r /\ m = mode THEN 1 ELSE 0
    <3>1. IsFiniteSet(Opened(k, s, m)) /\ Cardinality(Opened(k, s, m)) \in Nat
      BY UsedFinite, FS_CardinalityType
    <3>2. CASE s = r /\ m = mode
      <4>1. Opened(n, s, m) = Opened(k, s, m) \cup {d}
        BY <1>1, <1>2, <1>7, <3>2 DEF Opened, Of
      <4>2. d \notin Opened(k, s, m)
        BY <1>1 DEF Opened, Of
      <4>3. Cardinality(Opened(k, s, m) \cup {d}) = Cardinality(Opened(k, s, m)) + 1
        BY <3>1, <4>2, FS_AddElement
      <4>. QED BY <3>1, <3>2, <4>1, <4>3
    <3>3. CASE ~(s = r /\ m = mode)
      <4>1. Opened(n, s, m) = Opened(k, s, m)
        BY <1>1, <1>2, <1>7, <3>3 DEF Opened, Of
      <4>. QED BY <3>1, <3>3, <4>1
    <3>. QED BY <3>2, <3>3
  <2>2. ASSUME NEW s \in Resources, s[1] = "fifo"
        PROVE  /\ n.resource[s].readers_number =
                    Cardinality(Opened(n, s, "RDONLY")) + IF s = r /\ mode = "RDONLY" THEN was - 1 ELSE 0
               /\ n.resource[s].writers_number =
                    Cardinality(Opened(n, s, "WRONLY")) + IF s = r /\ mode = "WRONLY" THEN was - 1 ELSE 0
    <3>1. /\ k.resource[s].readers_number =
               Cardinality(Opened(k, s, "RDONLY")) + IF s = r /\ mode = "RDONLY" THEN was ELSE 0
          /\ k.resource[s].writers_number =
               Cardinality(Opened(k, s, "WRONLY")) + IF s = r /\ mode = "WRONLY" THEN was ELSE 0
      BY <1>9, <2>2 DEF CountsOff
    <3>. QED BY <1>5, <2>1, <3>1
  <2>. QED BY <2>2 DEF CountsOff
<1>10. \A living : AliveOK(k, living) /\ p \in living => AliveOK(n, living)
  BY <1>1, <1>2 DEF AliveOK
<1>. QED BY <1>3, <1>6, <1>8, <1>9, <1>10

-----------------------------------------------------------------------------
(* A descriptor is destroyed.                                              *)

\* A descriptor less, on no list any more.
LEMMA DropsKeeps ==
  ASSUME NEW k, NEW n, NEW d \in Used(k), Drops(k, n, d), ShapeOK(k), LinksOK(k)
  PROVE  /\ Used(n) = Used(k) \ {d}
         /\ \A e \in Used(n) : n.descriptor[e] = k.descriptor[e]
         /\ n.last_fd = k.last_fd
         /\ ShapeOK(n) /\ LinksOK(n)
<1>. DEFINE p == k.descriptor[d].pcb
            r == k.descriptor[d].resource
<1>1. /\ n.descriptor_allocator = Released(k.descriptor_allocator, d)
      /\ n.descriptor_ptr_allocator = n.descriptor_allocator
      /\ n.descriptor = [k.descriptor EXCEPT ![d] = NoDescriptor]
      /\ n.descriptor_ptr = [k.descriptor_ptr EXCEPT ![d] = -1]
      /\ n.descriptors = [k.descriptors EXCEPT ![p] = Without(k.descriptors[p], {d})]
      /\ n.resource = [k.resource EXCEPT
                     ![r] = [k.resource[r] EXCEPT
                               !.descriptors_ptrs = Without(k.resource[r].descriptors_ptrs, {d})]]
      /\ n.last_fd = k.last_fd /\ n.allocator = k.allocator /\ n.resources_list = k.resources_list
      /\ DOMAIN n = Fields
  BY DEF Drops
<1>2. /\ Pool(k.descriptor_allocator, NumDescriptors)
      /\ k.descriptor \in [Descriptors -> Desc]
      /\ k.descriptor_ptr \in [Descriptors -> Descriptors \cup {-1}]
      /\ k.descriptors \in [Pcbs -> Seq(Descriptors)]
      /\ k.resource \in [Resources -> Res]
  BY DEF ShapeOK
<1>3. /\ Pool(n.descriptor_allocator, NumDescriptors)
      /\ Used(n) = Used(k) \ {d}
  <2>1. d \in Detached(k.descriptor_allocator)
    BY DEF Used
  <2>2. /\ Pool(Released(k.descriptor_allocator, d), NumDescriptors)
        /\ Detached(Released(k.descriptor_allocator, d)) = Detached(k.descriptor_allocator) \ {d}
    BY <1>2, <2>1, Sizes, ReleasedPool
  <2>. QED BY <1>1, <2>2 DEF Used
<1>4. Used(k) \subseteq Descriptors /\ d \in Descriptors
  BY UsedFinite
<1>5. p \in Pcbs /\ r \in Resources
  BY <1>2, <1>4 DEF LinksOK, Desc
<1>6. /\ \A e \in Used(n) : n.descriptor[e] = k.descriptor[e] /\ n.descriptor_ptr[e] = k.descriptor_ptr[e]
      /\ n.descriptor \in [Descriptors -> Desc]
      /\ n.descriptor_ptr \in [Descriptors -> Descriptors \cup {-1}]
  <2>1. NoDescriptor \in Desc
    <3>1. -1 \in -1..LastFd
      BY DescriptorsAssumption
    <3>. QED BY <3>1, Sizes DEF NoDescriptor, Desc, AllModes
  <2>. QED BY <1>1, <1>2, <1>3, <1>4, <2>1
<1>. DEFINE own == k.descriptors[p]
            ptrs == k.resource[r].descriptors_ptrs
<1>7. /\ own \in Seq(Descriptors) /\ IsInjective(own)
      /\ Range(own) = {e \in Used(k) : k.descriptor[e].pcb = p}
  BY <1>2, <1>5 DEF LinksOK
<1>8. ptrs \in Seq(Descriptors) /\ IsInjective(ptrs) /\ Range(ptrs) = Of(k, r)
  BY <1>2, <1>5 DEF LinksOK, Res
<1>9. /\ Without(own, {d}) \in Seq(Descriptors)
      /\ Range(Without(own, {d})) = Range(own) \ {d}
      /\ IsInjective(Without(own, {d}))
  <2>. HIDE DEF own
  <2>. QED BY <1>7, WithoutRange
<1>10. /\ Without(ptrs, {d}) \in Seq(Descriptors)
       /\ Range(Without(ptrs, {d})) = Range(ptrs) \ {d}
       /\ IsInjective(Without(ptrs, {d}))
  <2>. HIDE DEF ptrs
  <2>. QED BY <1>8, WithoutRange
<1>11. /\ n.descriptors[p] = Without(own, {d})
       /\ \A q \in Pcbs \ {p} : n.descriptors[q] = k.descriptors[q]
       /\ n.descriptors \in [Pcbs -> Seq(Descriptors)]
  BY <1>1, <1>2, <1>5, <1>9
<1>12. /\ n.resource[r].descriptors_ptrs = Without(ptrs, {d})
       /\ \A s \in Resources \ {r} : n.resource[s] = k.resource[s]
       /\ n.resource \in [Resources -> Res]
  <2>1. k.resource[r] \in Res
    BY <1>2, <1>5
  <2>. DEFINE x == [k.resource[r] EXCEPT !.descriptors_ptrs = Without(ptrs, {d})]
  <2>2. x \in Res /\ x.descriptors_ptrs = Without(ptrs, {d})
    <3>. HIDE DEF ptrs
    <3>. QED BY <1>10, <2>1 DEF Res
  <2>3. n.resource = [k.resource EXCEPT ![r] = x]
    BY <1>1
  <2>. HIDE DEF x
  <2>. QED BY <1>2, <1>5, <2>2, <2>3
<1>13. ShapeOK(n)
  BY <1>1, <1>3, <1>6, <1>11, <1>12 DEF ShapeOK
<1>14. \A s : Of(n, s) = Of(k, s) \ {d}
  BY <1>3, <1>6 DEF Of
<1>15. LinksOK(n)
  <2>1. \A e \in Used(n) :
          n.descriptor[e].resource \in Resources /\ n.descriptor[e].ptr = e /\ n.descriptor_ptr[e] = e
    BY <1>3, <1>6 DEF LinksOK
  <2>2. ASSUME NEW q \in Pcbs
        PROVE  /\ IsInjective(n.descriptors[q])
               /\ Range(n.descriptors[q]) = {e \in Used(n) : n.descriptor[e].pcb = q}
    <3>1. {e \in Used(n) : n.descriptor[e].pcb = q} = {e \in Used(k) : k.descriptor[e].pcb = q} \ {d}
      BY <1>3, <1>6
    <3>2. CASE q = p
      BY <1>7, <1>9, <1>11, <3>1, <3>2
    <3>3. CASE q # p
      <4>1. {e \in Used(k) : k.descriptor[e].pcb = q} \ {d} = {e \in Used(k) : k.descriptor[e].pcb = q}
        BY <3>3
      <4>. QED BY <1>11, <3>1, <3>3, <4>1 DEF LinksOK
    <3>. QED BY <3>2, <3>3
  <2>3. ASSUME NEW s \in Resources
        PROVE  /\ IsInjective(n.resource[s].descriptors_ptrs)
               /\ Range(n.resource[s].descriptors_ptrs) = Of(n, s)
    <3>1. CASE s = r
      BY <1>8, <1>10, <1>12, <1>14, <3>1
    <3>2. CASE s # r
      <4>1. Of(n, s) = Of(k, s)
        BY <1>14, <3>2 DEF Of
      <4>. QED BY <1>12, <3>2, <4>1 DEF LinksOK
    <3>. QED BY <3>1, <3>2
  <2>. QED BY <2>1, <2>2, <2>3 DEF LinksOK
<1>. QED BY <1>1, <1>3, <1>6, <1>13, <1>15

\* What follows for the other parts: the counters of r are one too high, and r may
\* have lost its last descriptor.
LEMMA DropsOthers ==
  ASSUME NEW k, NEW n, NEW d \in Used(k), Drops(k, n, d), ShapeOK(k), LinksOK(k),
         NEW r, r = k.descriptor[d].resource, NEW mode, mode = k.descriptor[d].mode
  PROVE  /\ \A limit : FdsOK(k, limit) => FdsOK(n, limit)
         /\ ListedOK(k) => ListedOK(n)
         /\ HeldOK(k, Resources) => HeldOK(n, Resources \ {r}) /\ Held(n, r)
         /\ \A was \in Int : CountsOff(k, r, mode, was) => CountsOff(n, r, mode, was + 1)
         /\ \A living : AliveOK(k, living) => AliveOK(n, living)
<1>1. /\ Used(n) = Used(k) \ {d}
      /\ \A e \in Used(n) : n.descriptor[e] = k.descriptor[e]
  BY DropsKeeps
<1>2. \A limit : FdsOK(k, limit) => FdsOK(n, limit)
  BY <1>1 DEF FdsOK
<1>3. /\ k.resource \in [Resources -> Res] /\ n.allocator = k.allocator
      /\ n.resources_list = k.resources_list /\ k.resources_list \subseteq Resources
      /\ n.resource = [k.resource EXCEPT
                     ![r] = [k.resource[r] EXCEPT
                               !.descriptors_ptrs = Without(k.resource[r].descriptors_ptrs, {d})]]
      /\ r \in Resources
  BY DEF Drops, ShapeOK, LinksOK
<1>4. \A s \in Resources :
        /\ n.resource[s].id = k.resource[s].id /\ n.resource[s].unlinked = k.resource[s].unlinked
        /\ n.resource[s].readers_number = k.resource[s].readers_number
        /\ n.resource[s].writers_number = k.resource[s].writers_number
  <2>1. k.resource[r] \in Res
    BY <1>3
  <2>2. ASSUME NEW s \in Resources, s # r PROVE n.resource[s] = k.resource[s]
    BY <1>3, <2>2
  <2>3. n.resource[r] = [k.resource[r] EXCEPT
                               !.descriptors_ptrs = Without(k.resource[r].descriptors_ptrs, {d})]
    BY <1>3
  <2>. QED BY <2>1, <2>2, <2>3 DEF Res
<1>5. ListedOK(k) => ListedOK(n)
  BY <1>3, <1>4 DEF ListedOK
<1>6. \A s : Of(n, s) = Of(k, s) \ {d}
  BY <1>1 DEF Of
<1>7. d \in Of(k, r)
  BY DEF Of
<1>8. \A s : s # r => Of(n, s) = Of(k, s)
  BY <1>6, <1>7 DEF Of
<1>9. HeldOK(k, Resources) => HeldOK(n, Resources \ {r}) /\ Held(n, r)
  <2>1. \A s : Held(n, s) <=> Held(k, s)
    BY <1>3 DEF Held
  <2>. QED BY <1>3, <1>7, <1>8, <2>1 DEF HeldOK
<1>10. ASSUME NEW was \in Int, CountsOff(k, r, mode, was)
       PROVE  CountsOff(n, r, mode, was + 1)
  <2>1. ASSUME NEW s \in Resources, NEW m
        PROVE  /\ Cardinality(Opened(n, s, m)) \in Nat
               /\ Cardinality(Opened(k, s, m)) =
                    Cardinality(Opened(n, s, m)) + IF s = r /\ m = mode THEN 1 ELSE 0
    <3>1. IsFiniteSet(Opened(k, s, m)) /\ Cardinality(Opened(k, s, m)) \in Nat
      BY UsedFinite, FS_CardinalityType
    <3>2. CASE s = r /\ m = mode
      <4>1. Opened(n, s, m) = Opened(k, s, m) \ {d}
        BY <1>1, <1>6, <3>2 DEF Opened, Of
      <4>2. d \in Opened(k, s, m)
        BY <1>7, <3>2 DEF Opened
      <4>3. Cardinality(Opened(k, s, m) \ {d}) = Cardinality(Opened(k, s, m)) - 1
        BY <3>1, <4>2, FS_RemoveElement
      <4>4. Cardinality(Opened(k, s, m)) # 0
        BY <3>1, <4>2, FS_EmptySet
      <4>. QED BY <3>1, <3>2, <4>1, <4>3, <4>4
    <3>3. CASE ~(s = r /\ m = mode)
      <4>1. d \notin Opened(k, s, m)
        BY <3>3 DEF Opened, Of
      <4>2. Opened(n, s, m) = Opened(k, s, m)
        BY <1>1, <1>6, <4>1 DEF Opened, Of
      <4>. QED BY <3>1, <3>3, <4>2
    <3>. QED BY <3>2, <3>3
  <2>2. ASSUME NEW s \in Resources, s[1] = "fifo"
        PROVE  /\ n.resource[s].readers_number =
                    Cardinality(Opened(n, s, "RDONLY")) + IF s = r /\ mode = "RDONLY" THEN was + 1 ELSE 0
               /\ n.resource[s].writers_number =
                    Cardinality(Opened(n, s, "WRONLY")) + IF s = r /\ mode = "WRONLY" THEN was + 1 ELSE 0
    <3>1. /\ k.resource[s].readers_number =
               Cardinality(Opened(k, s, "RDONLY")) + IF s = r /\ mode = "RDONLY" THEN was ELSE 0
          /\ k.resource[s].writers_number =
               Cardinality(Opened(k, s, "WRONLY")) + IF s = r /\ mode = "WRONLY" THEN was ELSE 0
      BY <1>10, <2>2 DEF CountsOff
    <3>. QED BY <1>4, <2>1, <2>2, <3>1
  <2>. QED BY <2>2 DEF CountsOff
<1>11. \A living : AliveOK(k, living) => AliveOK(n, living)
  BY <1>1 DEF AliveOK
<1>. QED BY <1>2, <1>5, <1>9, <1>10, <1>11

-----------------------------------------------------------------------------
(* The functions the calls are made of.                                    *)

\* Counters that are right are zero too many.
LEMMA CountsExactly ==
  ASSUME NEW k, NEW r, NEW mode, ShapeOK(k)
  PROVE  CountsOK(k) <=> CountsOff(k, r, mode, 0)
<1>1. \A s, m : Cardinality(Opened(k, s, m)) \in Nat
  BY UsedFinite, FS_CardinalityType
<1>2. \A s, m : \A b \in BOOLEAN :
        Cardinality(Opened(k, s, m)) + (IF b THEN 0 ELSE 0) = Cardinality(Opened(k, s, m))
  BY <1>1
<1>. QED BY <1>1, <1>2 DEF CountsOK, CountsOff

\* The counters are about the descriptors and the resources only.
LEMMA CountsOffSame ==
  ASSUME NEW k, NEW n, SameLinks(k, n), n.resource = k.resource
  PROVE  \A r, mode, off : CountsOff(k, r, mode, off) => CountsOff(n, r, mode, off)
<1>1. \A s, m : Opened(n, s, m) = Opened(k, s, m)
  BY SameLinksKept
<1>. QED BY <1>1 DEF CountsOff

\* Descriptor_mk that makes a descriptor, not counted yet.
LEMMA MkKeeps ==
  ASSUME NEW k, NEW p \in Pcbs, NEW r \in Resources, NEW mode \in AllModes,
         AllBut(k, k.last_fd), HeldOK(k, Resources \ {r}), Held(k, r),
         MakesDescriptor(k, p), k.last_fd[p] <= LastFd
  PROVE  LET n == Descriptor_mk(k, p, r, mode)
             d == Block(k.descriptor_allocator)
         IN  /\ AllBut(n, n.last_fd) /\ HeldOK(n, Resources)
             /\ \A was \in Int : CountsOff(k, r, mode, was) => CountsOff(n, r, mode, was - 1)
             /\ \A living : AliveOK(k, living) /\ p \in living => AliveOK(n, living)
             /\ d \in Used(n)
             /\ n.descriptor[d].resource = r /\ n.descriptor[d].mode = mode
             /\ n.descriptor_allocator = BlockTaken(k.descriptor_allocator)
             /\ n.descriptors[p] = Append(k.descriptors[p], d)
             /\ n.last_fd[p] = k.last_fd[p] + 1
             /\ n.resources_list = k.resources_list /\ n.allocator = k.allocator
<1>. DEFINE d == Block(k.descriptor_allocator)
            fd == k.last_fd[p]
            m == Attached(k, p, fd, r, mode)
            n == Descriptor_mk(k, p, r, mode)
<1>. USE DEF AllBut
<1>1. Adds(k, m, d, p, fd, r, mode)
  BY AttachedAdds
<1>2. k.last_fd \in [Pcbs -> Nat] /\ fd \in Nat /\ fd \in 0..LastFd
  BY DescriptorsAssumption DEF ShapeOK
<1>3. ~NoBlock(k.descriptor_allocator)
  BY DEF MakesDescriptor
<1>4. m.last_fd = k.last_fd /\ m.descriptor_allocator = BlockTaken(k.descriptor_allocator)
      /\ m.resources_list = k.resources_list /\ m.allocator = k.allocator
      /\ m.descriptors = [k.descriptors EXCEPT ![p] = Append(k.descriptors[p], d)]
  BY <1>1 DEF Adds
<1>5. n = [m EXCEPT !.last_fd[p] = fd + 1]
  <2>1. n = [m EXCEPT !.last_fd[p] = @ + 1]
    BY DEF Descriptor_mk, MakesDescriptor
  <2>. HIDE DEF m, n
  <2>. QED BY <1>4, <2>1
<1>. HIDE DEF m, n
<1>6. /\ d \in Descriptors \ Used(k) /\ Used(m) = Used(k) \cup {d}
      /\ m.descriptor[d].resource = r /\ m.descriptor[d].mode = mode
      /\ ShapeOK(m) /\ LinksOK(m)
  <2>. HIDE DEF d, fd
  <2>. QED BY <1>1, <1>2, <1>3, AddsKeeps
<1>. DEFINE limit == [k.last_fd EXCEPT ![p] = fd + 1]
<1>7. /\ FdsOK(k, limit) /\ fd < limit[p]
      /\ \A e \in Used(k) : k.descriptor[e].pcb = p => k.descriptor[e].fd # fd
  <2>1. \A e \in Used(k) :
          /\ k.descriptor[e].pcb \in Pcbs /\ k.descriptor[e].fd \in Int
          /\ k.descriptor[e].fd < k.last_fd[k.descriptor[e].pcb]
    BY UsedFinite DEF ShapeOK, Desc, FdsOK
  <2>2. \A q \in Pcbs : k.last_fd[q] \in Nat /\ limit[q] \in Nat /\ k.last_fd[q] <= limit[q]
    BY <1>2
  <2>3. fd < limit[p]
    BY <1>2
  <2>4. \A e \in Used(k) : k.descriptor[e].fd < limit[k.descriptor[e].pcb]
    <3>. HIDE DEF limit
    <3>. QED BY <2>1, <2>2
  <2>5. FdsOK(k, limit)
    BY <2>4 DEF FdsOK
  <2>. QED BY <1>2, <2>1, <2>3, <2>5
<1>8. /\ FdsOK(m, limit) /\ ListedOK(m) /\ HeldOK(m, Resources)
      /\ \A was \in Int : CountsOff(k, r, mode, was) => CountsOff(m, r, mode, was - 1)
      /\ \A living : AliveOK(k, living) /\ p \in living => AliveOK(m, living)
  <2>. HIDE DEF d, fd, limit
  <2>. QED BY <1>1, <1>2, <1>3, <1>7, AddsOthers
<1>9. Renumbers(m, n, p, fd + 1)
  BY <1>5, <1>6, UpdateRenumbers
<1>10. /\ AllBut(n, n.last_fd) /\ SameLinks(m, n)
       /\ HeldOK(n, Resources)
  <2>1. FdsOK(m, [m.last_fd EXCEPT ![p] = fd + 1])
    BY <1>4, <1>8
  <2>2. fd + 1 \in Nat
    BY <1>2
  <2>. HIDE DEF fd
  <2>. QED BY <1>6, <1>8, <1>9, <2>1, <2>2, RenumbersKeeps
<1>11. \A was \in Int : CountsOff(k, r, mode, was) => CountsOff(n, r, mode, was - 1)
  BY <1>8, <1>9, <1>10, CountsOffSame DEF Renumbers
<1>12. \A living : AliveOK(k, living) /\ p \in living => AliveOK(n, living)
  BY <1>8, <1>10, SameLinksKept
<1>13. /\ d \in Used(n) /\ n.descriptor[d].resource = r /\ n.descriptor[d].mode = mode
  BY <1>6, <1>10, SameLinksKept DEF SameLinks
<1>14. /\ n.descriptor_allocator = BlockTaken(k.descriptor_allocator)
       /\ n.descriptors[p] = Append(k.descriptors[p], d)
       /\ n.last_fd[p] = fd + 1
       /\ n.resources_list = k.resources_list /\ n.allocator = k.allocator
  BY <1>2, <1>4, <1>9, <1>10 DEF Renumbers, SameLinks, ShapeOK
<1>. QED BY <1>10, <1>11, <1>12, <1>13, <1>14 DEF n

\* The descriptor just made is counted: the open succeeds.
LEMMA CountedKeeps ==
  ASSUME NEW k, NEW r \in Resources, NEW mode, NEW limit, AllBut(k, limit), HeldOK(k, Resources),
         CountsOff(k, r, mode, -1)
  PROVE  /\ Whole(Counted(k, r, mode, 1), limit)
         /\ SameLinks(k, Counted(k, r, mode, 1))
         /\ Counted(k, r, mode, 1).last_fd = k.last_fd
         /\ Counted(k, r, mode, 1).resources_list = k.resources_list
         /\ Counted(k, r, mode, 1).allocator = k.allocator
<1>. DEFINE n == Counted(k, r, mode, 1)
<1>1. Recounts(k, n, r, mode, 1)
  BY CountedRecounts DEF AllBut
<1>. HIDE DEF n
<1>2. /\ SameLinks(k, n) /\ n.last_fd = k.last_fd
      /\ n.resources_list = k.resources_list /\ n.allocator = k.allocator
  BY <1>1 DEF Recounts
<1>3. ShapeOK(n) /\ ListedOK(n) /\ HeldOK(n, Resources) /\ CountsOff(n, r, mode, (-1) + 1)
  BY <1>1, RecountsKeeps DEF AllBut
<1>4. CountsOK(n)
  BY <1>3, CountsExactly
<1>5. LinksOK(n) /\ FdsOK(n, limit)
  BY <1>2, SameLinksKept DEF AllBut
<1>6. Whole(n, limit)
  BY <1>3, <1>4, <1>5 DEF Whole, AllBut
<1>. QED BY <1>2, <1>6 DEF n

\* The open fails and is rolled back.
LEMMA RolledBackKeeps ==
  ASSUME NEW k, NEW d \in Used(k), NEW r, r = k.descriptor[d].resource, r \in k.resources_list,
         NEW mode, mode = k.descriptor[d].mode,
         AllBut(k, k.last_fd), HeldOK(k, Resources), CountsOff(k, r, mode, -1)
  PROVE  /\ Whole(Descriptor_destroy(k, d), Descriptor_destroy(k, d).last_fd)
         /\ \A living : AliveOK(k, living) => AliveOK(Descriptor_destroy(k, d), living)
<1>. DEFINE n == Descriptor_destroy(k, d)
<1>. USE DEF AllBut
<1>1. Drops(k, n, d)
  BY DestroyDrops DEF LinksOK
<1>. HIDE DEF n
<1>2. ShapeOK(n) /\ LinksOK(n) /\ n.last_fd = k.last_fd
  BY <1>1, DropsKeeps
<1>3. /\ FdsOK(n, k.last_fd) /\ ListedOK(n) /\ HeldOK(n, Resources \ {r}) /\ Held(n, r)
      /\ CountsOff(n, r, mode, (-1) + 1)
      /\ \A living : AliveOK(k, living) => AliveOK(n, living)
  <2>1. /\ FdsOK(n, k.last_fd) /\ ListedOK(n) /\ HeldOK(n, Resources \ {r}) /\ Held(n, r)
        /\ \A was \in Int : CountsOff(k, r, mode, was) => CountsOff(n, r, mode, was + 1)
        /\ \A living : AliveOK(k, living) => AliveOK(n, living)
    BY <1>1, DropsOthers
  <2>. QED BY <2>1
<1>4. r \in n.resources_list
  BY <1>1 DEF Drops
<1>5. HeldOK(n, Resources)
  BY <1>3, <1>4 DEF HeldOK
<1>6. CountsOK(n)
  BY <1>2, <1>3, CountsExactly
<1>7. Whole(n, n.last_fd)
  BY <1>2, <1>3, <1>5, <1>6 DEF Whole
<1>. QED BY <1>3, <1>7 DEF n

\* Resource_close.
LEMMA ClosedKeeps ==
  ASSUME NEW k, NEW d \in Used(k), Whole(k, k.last_fd)
  PROVE  LET n == Closed(k, d)
         IN  /\ Whole(n, n.last_fd) /\ n.last_fd = k.last_fd
             /\ Used(n) = Used(k) \ {d}
             /\ \A e \in Used(n) : n.descriptor[e] = k.descriptor[e]
<1>. DEFINE r == k.descriptor[d].resource
            mode == k.descriptor[d].mode
            c == Counted(k, r, mode, -1)
            m == Descriptor_destroy(c, d)
            n == Closed(k, d)
<1>. USE DEF AllBut, Whole
<1>1. r \in Resources /\ k.descriptor[d].ptr = d
  BY DEF LinksOK
<1>2. Recounts(k, c, r, mode, -1)
  BY <1>1, CountedRecounts
<1>3. n = Resource_destroy(m, r)
  BY DEF Closed
<1>. HIDE DEF c, n
<1>4. SameLinks(k, c) /\ c.last_fd = k.last_fd
  BY <1>2 DEF Recounts
<1>5. /\ Used(c) = Used(k) /\ c.descriptor = k.descriptor
      /\ LinksOK(c) /\ FdsOK(c, k.last_fd)
  BY <1>4, SameLinksKept DEF SameLinks
<1>6. CountsOff(k, r, mode, 0)
  BY CountsExactly
<1>7. /\ ShapeOK(c) /\ ListedOK(c) /\ HeldOK(c, Resources) /\ CountsOff(c, r, mode, 0 + (-1))
  <2>. HIDE DEF r, mode
  <2>. QED BY <1>2, <1>6, RecountsKeeps
<1>8. Drops(c, m, d)
  BY <1>1, <1>5, <1>7, DestroyDrops
<1>. HIDE DEF m
<1>9. /\ Used(m) = Used(k) \ {d} /\ \A e \in Used(m) : m.descriptor[e] = k.descriptor[e]
      /\ m.last_fd = k.last_fd /\ ShapeOK(m) /\ LinksOK(m)
  BY <1>4, <1>5, <1>7, <1>8, DropsKeeps
<1>10. /\ FdsOK(m, k.last_fd) /\ ListedOK(m) /\ HeldOK(m, Resources \ {r}) /\ Held(m, r)
       /\ CountsOff(m, r, mode, (0 + (-1)) + 1)
  <2>1. r = c.descriptor[d].resource /\ mode = c.descriptor[d].mode /\ d \in Used(c)
    BY <1>5
  <2>2. 0 + (-1) \in Int
    OBVIOUS
  <2>. HIDE DEF r, mode
  <2>. QED BY <1>5, <1>7, <1>8, <2>1, <2>2, DropsOthers
<1>11. CountsOK(m)
  <2>. HIDE DEF r, mode
  <2>. QED BY <1>9, <1>10, CountsExactly
<1>12. /\ Whole(n, n.last_fd) /\ SameLinks(m, n) /\ n.last_fd = k.last_fd
  <2>1. AllBut(m, m.last_fd)
    BY <1>9, <1>10
  <2>. HIDE DEF r, AllBut
  <2>. QED BY <1>1, <1>3, <1>9, <1>10, <1>11, <2>1, DestroyKeeps
<1>13. Used(n) = Used(m) /\ n.descriptor = m.descriptor
  BY <1>12, SameLinksKept DEF SameLinks
<1>. QED BY <1>9, <1>12, <1>13 DEF n

\* One turn of the loop of internal_spawn_withfd.
LEMMA CloneKeeps ==
  ASSUME NEW k, NEW limit, Whole(k, limit), NEW child \in Pcbs, NEW e \in Used(k),
         ~NoBlock(k.descriptor_allocator), k.descriptor[e].fd < limit[child],
         \A f \in Used(k) : k.descriptor[f].pcb = child => k.descriptor[f].fd # k.descriptor[e].fd
  PROVE  LET n == Clone(k, child, e)
             d == Block(k.descriptor_allocator)
         IN  /\ Whole(n, limit) /\ n.last_fd = k.last_fd
             /\ d \notin Used(k) /\ Used(n) = Used(k) \cup {d}
             /\ \A f \in Used(k) : n.descriptor[f] = k.descriptor[f]
             /\ n.descriptor[d].pcb = child /\ n.descriptor[d].fd = k.descriptor[e].fd
             /\ n.descriptor_allocator = BlockTaken(k.descriptor_allocator)
<1>. DEFINE d == Block(k.descriptor_allocator)
            r == k.descriptor[e].resource
            mode == k.descriptor[e].mode
            fd == k.descriptor[e].fd
            m == Attached(k, child, fd, r, mode)
            n == Clone(k, child, e)
<1>. USE DEF AllBut, Whole
<1>1. n = Counted(m, r, mode, 1)
  BY DEF Clone
<1>2. Adds(k, m, d, child, fd, r, mode)
  BY AttachedAdds
<1>3. /\ r \in Resources /\ mode \in AllModes /\ fd \in 0..LastFd
  <2>1. e \in Descriptors /\ k.descriptor[e] \in Desc
    BY UsedFinite DEF ShapeOK
  <2>. QED BY <2>1 DEF Desc, LinksOK, FdsOK
<1>4. Held(k, r)
  <2>1. e \in Of(k, r)
    BY DEF Of
  <2>. QED BY <1>3, <2>1 DEF HeldOK
<1>5. /\ fd < limit[child]
      /\ \A f \in Used(k) : k.descriptor[f].pcb = child => k.descriptor[f].fd # fd
  OBVIOUS
<1>6. CountsOff(k, r, mode, 0)
  BY CountsExactly
<1>7. HeldOK(k, Resources \ {r})
  BY DEF HeldOK
<1>. HIDE DEF m, n
<1>8. /\ d \notin Used(k) /\ Used(m) = Used(k) \cup {d}
      /\ \A f \in Used(k) : m.descriptor[f] = k.descriptor[f]
      /\ m.descriptor[d].pcb = child /\ m.descriptor[d].fd = fd
      /\ ShapeOK(m) /\ LinksOK(m)
  <2>. HIDE DEF d, r, mode, fd
  <2>. QED BY <1>2, <1>3, <1>5, AddsKeeps
<1>9. /\ FdsOK(m, limit) /\ ListedOK(m) /\ HeldOK(m, Resources)
      /\ CountsOff(m, r, mode, 0 - 1)
  <2>. HIDE DEF d, r, mode, fd
  <2>1. /\ FdsOK(m, limit) /\ ListedOK(m) /\ HeldOK(m, Resources)
        /\ \A was \in Int : CountsOff(k, r, mode, was) => CountsOff(m, r, mode, was - 1)
    BY <1>2, <1>3, <1>4, <1>5, <1>7, AddsOthers
  <2>. QED BY <1>6, <2>1
<1>10. /\ m.last_fd = k.last_fd /\ m.descriptor_allocator = BlockTaken(k.descriptor_allocator)
  BY <1>2 DEF Adds
<1>11. /\ Whole(n, limit) /\ SameLinks(m, n) /\ n.last_fd = m.last_fd
  <2>1. AllBut(m, limit) /\ CountsOff(m, r, mode, -1)
    BY <1>8, <1>9
  <2>. HIDE DEF r, mode, AllBut
  <2>. QED BY <1>1, <1>3, <1>9, <2>1, CountedKeeps
<1>12. Used(n) = Used(m) /\ n.descriptor = m.descriptor
       /\ n.descriptor_allocator = m.descriptor_allocator
  BY <1>11, SameLinksKept DEF SameLinks
<1>. QED BY <1>8, <1>10, <1>11, <1>12 DEF n

-----------------------------------------------------------------------------
(* The loops.                                                              *)

\* The tables between the turns of the loop of internal_spawn_withfd.
LEMMA ClonedSteps ==
  ASSUME NEW k, NEW child, NEW S, NEW ds \in Seq(S)
  PROVE  \E f : /\ f[0] = k
                /\ \A i \in 1..Len(ds) : f[i] = Clone(f[i - 1], child, ds[i])
                /\ Cloned(k, child, ds) = f[Len(ds)]
<1>. DEFINE n == Len(ds)
            Step(g, i) == IF i = 0 THEN k ELSE Clone(g[i - 1], child, ds[i])
            Good(g, m) == g = [i \in 0..m |-> Step(g, i)]
            T == {m \in 0..n : \E g : Good(g, m)}
<1>1. n \in Nat
  BY LenProperties
<1>2. 0 \in T
  <2>1. Good([i \in 0..0 |-> k], 0)
    OBVIOUS
  <2>. HIDE DEF Good
  <2>. QED BY <1>1, <2>1
<1>3. ASSUME NEW m \in 1..n, m - 1 \in T
      PROVE  m \in T
  <2>1. PICK g : Good(g, m - 1)
    BY <1>3
  <2>. DEFINE h == [i \in 0..m |-> IF i = m THEN Step(g, m) ELSE g[i]]
  <2>2. ASSUME NEW i \in 0..m
        PROVE  h[i] = Step(h, i)
    <3>1. CASE i = m
      <4>1. m - 1 \in 0..m /\ m - 1 # m
        BY <1>1
      <4>2. h[m - 1] = g[m - 1] /\ h[m] = Step(g, m)
        BY <1>1, <4>1
      <4>. QED BY <3>1, <4>2
    <3>2. CASE i # m
      <4>1. i \in 0..(m - 1)
        BY <1>1, <3>2
      <4>2. h[i] = Step(g, i)
        BY <2>1, <3>2, <4>1
      <4>3. i # 0 => i - 1 \in 0..m /\ i - 1 # m
        BY <1>1, <3>2
      <4>4. i # 0 => h[i - 1] = g[i - 1]
        BY <4>3
      <4>. QED BY <4>2, <4>4
    <3>. QED BY <3>1, <3>2
  <2>3. Good(h, m)
    BY <2>2
  <2>. HIDE DEF h, Good
  <2>. QED BY <1>1, <2>3
<1>4. n \in T
  <2>. HIDE DEF T
  <2>1. \A i \in 1..n : i - 1 \in T => i \in T
    BY <1>3
  <2>2. \A i \in 0..n : i \in T
    <3>. HIDE DEF n
    <3>. QED BY <1>1, <1>2, <2>1, Upwards
  <2>. QED BY <1>1, <2>2
<1>. DEFINE f == CHOOSE g : Good(g, n)
<1>5. Good(f, n)
  BY <1>4
<1>6. Cloned(k, child, ds) = f[n]
  BY DEF Cloned
<1>7. f[0] = k /\ \A i \in 1..n : f[i] = Step(f, i)
  <2>1. f = [i \in 0..n |-> Step(f, i)]
    BY <1>5
  <2>. HIDE DEF f, n, Step
  <2>2. \A i \in 0..n : f[i] = Step(f, i)
    BY <2>1
  <2>. QED BY <1>1, <2>2 DEF Step
<1>. QED
  <2>. HIDE DEF f
  <2>. QED BY <1>1, <1>6, <1>7

\* The tables between the turns of the loop of internal_exit.
LEMMA ExitedSteps ==
  ASSUME NEW p, NEW S, tables.descriptors[p] \in Seq(S)
  PROVE  \E f : /\ f[0] = tables
                /\ \A i \in 1..Len(tables.descriptors[p]) : f[i] = Closed(f[i - 1], tables.descriptors[p][i])
                /\ Exited(p) = f[Len(tables.descriptors[p])]
<1>. DEFINE n == Len(tables.descriptors[p])
            Step(g, i) == IF i = 0 THEN tables ELSE Closed(g[i - 1], tables.descriptors[p][i])
            Good(g, m) == g = [i \in 0..m |-> Step(g, i)]
            T == {m \in 0..n : \E g : Good(g, m)}
<1>1. n \in Nat
  BY LenProperties
<1>2. 0 \in T
  <2>1. Good([i \in 0..0 |-> tables], 0)
    OBVIOUS
  <2>. HIDE DEF Good
  <2>. QED BY <1>1, <2>1
<1>3. ASSUME NEW m \in 1..n, m - 1 \in T
      PROVE  m \in T
  <2>1. PICK g : Good(g, m - 1)
    BY <1>3
  <2>. DEFINE h == [i \in 0..m |-> IF i = m THEN Step(g, m) ELSE g[i]]
  <2>2. ASSUME NEW i \in 0..m
        PROVE  h[i] = Step(h, i)
    <3>1. CASE i = m
      <4>1. m - 1 \in 0..m /\ m - 1 # m
        BY <1>1
      <4>2. h[m - 1] = g[m - 1] /\ h[m] = Step(g, m)
        BY <1>1, <4>1
      <4>. QED BY <3>1, <4>2
    <3>2. CASE i # m
      <4>1. i \in 0..(m - 1)
        BY <1>1, <3>2
      <4>2. h[i] = Step(g, i)
        BY <2>1, <3>2, <4>1
      <4>3. i # 0 => i - 1 \in 0..m /\ i - 1 # m
        BY <1>1, <3>2
      <4>4. i # 0 => h[i - 1] = g[i - 1]
        BY <4>3
      <4>. QED BY <4>2, <4>4
    <3>. QED BY <3>1, <3>2
  <2>3. Good(h, m)
    BY <2>2
  <2>. HIDE DEF h, Good
  <2>. QED BY <1>1, <2>3
<1>4. n \in T
  <2>. HIDE DEF T
  <2>1. \A i \in 1..n : i - 1 \in T => i \in T
    BY <1>3
  <2>2. \A i \in 0..n : i \in T
    <3>. HIDE DEF n
    <3>. QED BY <1>1, <1>2, <2>1, Upwards
  <2>. QED BY <1>1, <2>2
<1>. DEFINE f == CHOOSE g : Good(g, n)
<1>5. Good(f, n)
  BY <1>4
<1>6. Exited(p) = f[n]
  BY DEF Exited
<1>7. f[0] = tables /\ \A i \in 1..n : f[i] = Step(f, i)
  <2>1. f = [i \in 0..n |-> Step(f, i)]
    BY <1>5
  <2>. HIDE DEF f, n, Step
  <2>2. \A i \in 0..n : f[i] = Step(f, i)
    BY <2>1
  <2>. QED BY <1>1, <2>2 DEF Step
<1>. QED
  <2>. HIDE DEF f
  <2>. QED BY <1>1, <1>6, <1>7

\* A child that had no descriptor gets copies of its parent's, with their numbers,
\* which are below its parent's limit.
LEMMA ClonedKeeps ==
  ASSUME NEW k, NEW p \in Pcbs, NEW child \in Pcbs, Whole(k, k.last_fd),
         NEW living, AliveOK(k, living), p \in living, child \notin living,
         Len(k.descriptors[p]) <= k.descriptor_allocator.size
  PROVE  LET n == Cloned(k, child, k.descriptors[p])
         IN  /\ Whole(n, [k.last_fd EXCEPT ![child] = k.last_fd[p]])
             /\ n.last_fd = k.last_fd
             /\ AliveOK(n, living \cup {child})
<1>. DEFINE ds == k.descriptors[p]
            limit == [k.last_fd EXCEPT ![child] = k.last_fd[p]]
            n == Cloned(k, child, ds)
<1>. USE DEF AllBut, Whole
<1>1. /\ ds \in Seq(Descriptors) /\ Len(ds) \in Nat /\ DOMAIN ds = 1..Len(ds)
      /\ IsInjective(ds) /\ Range(ds) = {d \in Used(k) : k.descriptor[d].pcb = p}
      /\ k.last_fd \in [Pcbs -> Nat]
  BY LenProperties DEF ShapeOK, LinksOK
<1>2. \A i \in 1..Len(ds) : ds[i] \in Used(k) /\ k.descriptor[ds[i]].pcb = p
  BY <1>1 DEF Range
<1>3. \A i, j \in 1..Len(ds) : k.descriptor[ds[i]].fd = k.descriptor[ds[j]].fd => i = j
  <2>1. \A i, j \in 1..Len(ds) : ds[i] = ds[j] => i = j
    BY <1>1 DEF IsInjective
  <2>. QED BY <1>2, <2>1 DEF FdsOK
<1>4. \A d \in Used(k) : k.descriptor[d].pcb # child
  BY DEF AliveOK
<1>5. PICK f : /\ f[0] = k
               /\ \A i \in 1..Len(ds) : f[i] = Clone(f[i - 1], child, ds[i])
               /\ n = f[Len(ds)]
  <2>1. \E f : /\ f[0] = k
               /\ \A i \in 1..Len(ds) : f[i] = Clone(f[i - 1], child, ds[i])
               /\ Cloned(k, child, ds) = f[Len(ds)]
    <3>. HIDE DEF ds, n
    <3>. QED BY <1>1, ClonedSteps
  <2>. HIDE DEF ds
  <2>. QED BY <2>1
<1>6. limit \in [Pcbs -> Nat] /\ limit[child] = k.last_fd[p]
      /\ \A q \in Pcbs \ {child} : limit[q] = k.last_fd[q]
  BY <1>1
<1>7. Whole(k, limit)
  <2>1. \A d \in Used(k) : k.descriptor[d].pcb \in Pcbs \ {child}
    BY <1>4, UsedFinite DEF ShapeOK, Desc
  <2>2. FdsOK(k, limit)
    BY <1>6, <2>1 DEF FdsOK
  <2>. QED BY <2>2
<1>8. \A i \in 1..Len(ds) : k.descriptor[ds[i]].fd < limit[child]
  BY <1>2, <1>6 DEF FdsOK
<1>. DEFINE Turn(i) ==
              /\ Whole(f[i], limit) /\ f[i].last_fd = k.last_fd
              /\ Used(k) \subseteq Used(f[i])
              /\ \A d \in Used(k) : f[i].descriptor[d] = k.descriptor[d]
              /\ \A d \in Used(f[i]) \ Used(k) :
                   /\ f[i].descriptor[d].pcb = child
                   /\ \E j \in 1..i : f[i].descriptor[d].fd = k.descriptor[ds[j]].fd
              /\ f[i].descriptor_allocator.size = k.descriptor_allocator.size - i
            T == {i \in 0..Len(ds) : Turn(i)}
<1>. HIDE DEF ds, n, limit
<1>9. k.descriptor_allocator.size \in Nat
  BY Sizes, PoolCounts DEF ShapeOK
<1>10. Turn(0)
  BY <1>5, <1>7, <1>9
<1>11. ASSUME NEW i \in 1..Len(ds), Turn(i - 1)
       PROVE  Turn(i)
  <2>. DEFINE a == f[i - 1]
              b == f[i]
              e == ds[i]
              d == Block(a.descriptor_allocator)
  <2>1. /\ Whole(a, limit) /\ a.last_fd = k.last_fd
        /\ Used(k) \subseteq Used(a)
        /\ \A x \in Used(k) : a.descriptor[x] = k.descriptor[x]
        /\ \A x \in Used(a) \ Used(k) :
             /\ a.descriptor[x].pcb = child
             /\ \E j \in 1..(i - 1) : a.descriptor[x].fd = k.descriptor[ds[j]].fd
        /\ a.descriptor_allocator.size = k.descriptor_allocator.size - (i - 1)
    BY <1>11
  <2>2. b = Clone(a, child, e)
    BY <1>5
  <2>. HIDE DEF a, b
  <2>3. e \in Used(a) /\ a.descriptor[e] = k.descriptor[e] /\ a.descriptor[e].fd < limit[child]
    BY <1>2, <1>8, <2>1
  <2>4. ~NoBlock(a.descriptor_allocator)
    <3>1. a.descriptor_allocator.size # 0
      BY <1>1, <1>9, <2>1 DEF ds
    <3>. QED BY <2>1, <3>1, Sizes, PoolCounts DEF ShapeOK
  <2>5. ASSUME NEW x \in Used(a), a.descriptor[x].pcb = child
        PROVE  a.descriptor[x].fd # a.descriptor[e].fd
    <3>1. x \notin Used(k)
      BY <1>4, <2>1, <2>5
    <3>2. PICK j \in 1..(i - 1) : a.descriptor[x].fd = k.descriptor[ds[j]].fd
      BY <2>1, <3>1
    <3>3. j \in 1..Len(ds) /\ j # i
      BY <1>1
    <3>. QED BY <1>3, <2>3, <3>2, <3>3
  <2>. HIDE DEF e
  <2>6. /\ Whole(b, limit) /\ b.last_fd = a.last_fd
        /\ d \notin Used(a) /\ Used(b) = Used(a) \cup {d}
        /\ \A x \in Used(a) : b.descriptor[x] = a.descriptor[x]
        /\ b.descriptor[d].pcb = child /\ b.descriptor[d].fd = a.descriptor[e].fd
        /\ b.descriptor_allocator = BlockTaken(a.descriptor_allocator)
    BY <2>1, <2>2, <2>3, <2>4, <2>5, CloneKeeps
  <2>7. b.descriptor_allocator.size = k.descriptor_allocator.size - i
    BY <1>9, <2>1, <2>6 DEF BlockTaken
  <2>. HIDE DEF d
  <2>8. Used(k) \subseteq Used(b) /\ \A x \in Used(k) : b.descriptor[x] = k.descriptor[x]
    BY <2>1, <2>6
  <2>9. ASSUME NEW x \in Used(b) \ Used(k)
        PROVE  /\ b.descriptor[x].pcb = child
               /\ \E j \in 1..i : b.descriptor[x].fd = k.descriptor[ds[j]].fd
    <3>1. CASE x = d
      <4>1. b.descriptor[x].fd = k.descriptor[ds[i]].fd
        BY <2>3, <2>6, <3>1 DEF e
      <4>. QED BY <2>6, <3>1, <4>1
    <3>2. CASE x # d
      <4>1. x \in Used(a) \ Used(k)
        BY <2>6, <3>2
      <4>2. PICK j \in 1..(i - 1) : a.descriptor[x].fd = k.descriptor[ds[j]].fd
        BY <2>1, <4>1
      <4>3. j \in 1..i
        OBVIOUS
      <4>. QED BY <2>1, <2>6, <4>1, <4>2, <4>3
    <3>. QED BY <3>1, <3>2
  <2>10. Whole(b, limit) /\ b.last_fd = k.last_fd
    BY <2>1, <2>6
  <2>. HIDE DEF AllBut, Whole
  <2>. QED BY <2>7, <2>8, <2>9, <2>10 DEF b
<1>12. Turn(Len(ds))
  <2>. HIDE DEF Turn
  <2>1. 0 \in T
    BY <1>1, <1>10
  <2>2. ASSUME NEW i \in 1..Len(ds), i - 1 \in T PROVE i \in T
    BY <1>11, <2>2
  <2>. HIDE DEF T
  <2>3. \A i \in 0..Len(ds) : i \in T
    BY <1>1, <2>1, <2>2, Upwards
  <2>. QED BY <1>1, <2>3 DEF T
<1>13. /\ Whole(n, limit) /\ n.last_fd = k.last_fd
       /\ \A d \in Used(n) : IF d \in Used(k) THEN n.descriptor[d] = k.descriptor[d]
                                               ELSE n.descriptor[d].pcb = child
  BY <1>5, <1>12
<1>14. AliveOK(n, living \cup {child})
  <2>1. \A d \in Used(k) : k.descriptor[d].pcb \in living
    BY DEF AliveOK
  <2>2. \A d \in Used(n) : n.descriptor[d].pcb \in living \cup {child}
    BY <1>13, <2>1
  <2>. QED BY <2>2 DEF AliveOK
<1>. HIDE DEF Whole
<1>. QED BY <1>13, <1>14 DEF n, ds, limit

\* A process that exits leaves none of its descriptors and all of the others'.
LEMMA ExitedKeeps ==
  ASSUME NEW p \in Pcbs, p # Init_pcb, Whole(tables, tables.last_fd), AliveOK(tables, alive)
  PROVE  /\ Whole(Exited(p), Exited(p).last_fd)
         /\ AliveOK(Exited(p), alive \ {p})
<1>. DEFINE ds == tables.descriptors[p]
            n == Exited(p)
<1>1. /\ ds \in Seq(Descriptors) /\ Len(ds) \in Nat /\ DOMAIN ds = 1..Len(ds)
      /\ IsInjective(ds) /\ Range(ds) = {d \in Used(tables) : tables.descriptor[d].pcb = p}
  BY LenProperties DEF Whole, AllBut, ShapeOK, LinksOK
<1>2. \A i \in 1..Len(ds) : ds[i] \in Used(tables)
  BY <1>1 DEF Range
<1>3. \A i, j \in 1..Len(ds) : ds[i] = ds[j] => i = j
  BY <1>1 DEF IsInjective
<1>4. PICK f : /\ f[0] = tables
               /\ \A i \in 1..Len(ds) : f[i] = Closed(f[i - 1], ds[i])
               /\ n = f[Len(ds)]
  BY <1>1, ExitedSteps
<1>. DEFINE Gone(i) == {ds[j] : j \in 1..i}
            Turn(i) ==
              /\ Whole(f[i], f[i].last_fd)
              /\ Used(f[i]) = Used(tables) \ Gone(i)
              /\ \A d \in Used(f[i]) : f[i].descriptor[d] = tables.descriptor[d]
            T == {i \in 0..Len(ds) : Turn(i)}
<1>. HIDE DEF ds, n
<1>5. Turn(0)
  BY <1>4
<1>6. ASSUME NEW i \in 1..Len(ds), Turn(i - 1)
      PROVE  Turn(i)
  <2>. DEFINE a == f[i - 1]
              b == f[i]
              e == ds[i]
  <2>1. /\ Whole(a, a.last_fd) /\ Used(a) = Used(tables) \ Gone(i - 1)
        /\ \A d \in Used(a) : a.descriptor[d] = tables.descriptor[d]
    BY <1>6
  <2>2. b = Closed(a, e)
    BY <1>4
  <2>. HIDE DEF a, b
  <2>3. e \in Used(a)
    <3>1. \A j \in 1..(i - 1) : j \in 1..Len(ds) /\ j # i
      BY <1>1
    <3>. QED BY <1>2, <1>3, <2>1, <3>1
  <2>4. /\ Whole(b, b.last_fd) /\ Used(b) = Used(a) \ {e}
        /\ \A d \in Used(b) : b.descriptor[d] = a.descriptor[d]
    <3>. HIDE DEF e
    <3>. QED BY <2>1, <2>2, <2>3, ClosedKeeps
  <2>5. Gone(i) = Gone(i - 1) \cup {e}
    <3>1. 1..i = (1..(i - 1)) \cup {i}
      OBVIOUS
    <3>. QED BY <3>1
  <2>6. Used(b) = Used(tables) \ Gone(i)
    <3>. HIDE DEF Gone, e
    <3>. QED BY <2>1, <2>4, <2>5
  <2>7. \A d \in Used(b) : b.descriptor[d] = tables.descriptor[d]
    BY <2>1, <2>4
  <2>. HIDE DEF Gone
  <2>. QED BY <2>4, <2>6, <2>7 DEF b
<1>7. Turn(Len(ds))
  <2>. HIDE DEF Turn
  <2>1. 0 \in T
    BY <1>1, <1>5
  <2>2. ASSUME NEW i \in 1..Len(ds), i - 1 \in T PROVE i \in T
    BY <1>6, <2>2
  <2>. HIDE DEF T
  <2>3. \A i \in 0..Len(ds) : i \in T
    BY <1>1, <2>1, <2>2, Upwards
  <2>. QED BY <1>1, <2>3 DEF T
<1>8. /\ Whole(n, n.last_fd) /\ Used(n) = Used(tables) \ Range(ds)
      /\ \A d \in Used(n) : n.descriptor[d] = tables.descriptor[d]
  <2>1. Gone(Len(ds)) = Range(ds)
    BY <1>1 DEF Range
  <2>. QED BY <1>4, <1>7, <2>1
<1>9. AliveOK(n, alive \ {p})
  BY <1>1, <1>8 DEF AliveOK
<1>. QED BY <1>8, <1>9 DEF n

-----------------------------------------------------------------------------
(* The calls.                                                              *)

\* A call that answers leaves the tables k.
LEMMA AnswerKeeps ==
  ASSUME NEW k, Answer(k), panic = FALSE, Whole(k, k.last_fd), AliveOK(k, alive)
  PROVE  TablesInv'
<1>1. tables' = k /\ alive' = alive /\ panic' = panic
  BY DEF Answer
<1>2. Whole(tables', tables'.last_fd) /\ AliveOK(tables', alive')
  BY <1>1
<1>3. panic' = FALSE
  BY <1>1
<1>4. DiesOnlyFull'
  BY <1>3 DEF DiesOnlyFull
<1>. QED BY <1>2, <1>3, <1>4 DEF TablesInv

\* The descriptors on the lists of the living are those that are not free.
LEMMA HeldByLiving ==
  ASSUME Whole(tables, tables.last_fd), AliveOK(tables, alive)
  PROVE  LET held == Cardinality(UNION {ToSet(tables.descriptors[p]) : p \in alive})
         IN  /\ held \in Nat /\ tables.descriptor_allocator.size \in Nat
             /\ held + tables.descriptor_allocator.size = NumDescriptors
<1>. DEFINE lists == {ToSet(tables.descriptors[p]) : p \in alive}
<1>1. \A p \in alive : ToSet(tables.descriptors[p]) = {d \in Used(tables) : tables.descriptor[d].pcb = p}
  BY DEF Whole, AllBut, LinksOK, AliveOK, ToSet, Range
<1>2. \A d \in Used(tables) : tables.descriptor[d].pcb \in alive
  BY DEF AliveOK
<1>3. UNION lists = Used(tables)
  <2>1. ASSUME NEW d \in UNION lists PROVE d \in Used(tables)
    BY <1>1, <2>1
  <2>2. ASSUME NEW d \in Used(tables) PROVE d \in UNION lists
    <3>1. d \in ToSet(tables.descriptors[tables.descriptor[d].pcb])
      BY <1>1, <1>2
    <3>. QED BY <1>2, <3>1
  <2>. QED BY <2>1, <2>2
<1>4. /\ Cardinality(Used(tables)) \in Nat /\ tables.descriptor_allocator.size \in Nat
      /\ tables.descriptor_allocator.size + Cardinality(Used(tables)) = NumDescriptors
  BY Sizes, PoolCounts DEF Used, Whole, AllBut, ShapeOK
<1>5. Cardinality(UNION lists) = Cardinality(Used(tables))
  BY <1>3
<1>. HIDE DEF lists
<1>6. /\ Cardinality(UNION lists) \in Nat /\ tables.descriptor_allocator.size \in Nat
      /\ Cardinality(UNION lists) + tables.descriptor_allocator.size = NumDescriptors
  BY <1>4, <1>5
<1>. QED BY <1>6 DEF lists

\* The kernel may die where too few descriptors are left.
LEMMA DiesKeeps ==
  ASSUME TablesInv, Dies, NEW p \in alive,
         \/ Len(tables.descriptors[p]) > tables.descriptor_allocator.size
         \/ tables.descriptor_allocator.size = 1
         \/ Len(tables.descriptors[p]) + 1 = MaxPerProcess
  PROVE  TablesInv'
<1>1. tables' = tables /\ alive' = alive /\ panic' = TRUE
  BY DEF Dies
<1>2. Whole(tables', tables'.last_fd) /\ AliveOK(tables', alive')
  BY <1>1 DEF TablesInv
<1>. DEFINE held == Cardinality(UNION {ToSet(tables.descriptors[q]) : q \in alive})
<1>3. /\ held \in Nat /\ tables.descriptor_allocator.size \in Nat
      /\ held + tables.descriptor_allocator.size = NumDescriptors
  BY HeldByLiving DEF TablesInv
<1>4. Len(tables.descriptors[p]) \in Nat
  BY LenProperties DEF TablesInv, Whole, AllBut, ShapeOK, AliveOK
<1>5. \/ held + Len(tables.descriptors[p]) > NumDescriptors
      \/ held + 1 = NumDescriptors
      \/ Len(tables.descriptors[p]) + 1 = MaxPerProcess
  <2>. HIDE DEF held
  <2>. QED BY <1>3, <1>4, Sizes
<1>6. DiesOnlyFull'
  BY <1>1, <1>5 DEF DiesOnlyFull
<1>. QED BY <1>1, <1>2, <1>6 DEF TablesInv

\* A resource is made.
LEMMA MadeKeeps ==
  ASSUME NEW k, Whole(k, k.last_fd), NEW kind \in Kinds, ~NoBlock(k.allocator[kind]),
         NEW id \in Ids \cup {Anonymous}, ById(k, id) = {}
  PROVE  LET n == Made(k, kind, id)
             r == <<kind, Block(k.allocator[kind])>>
         IN  /\ r \in Resources /\ Held(n, r)
             /\ AllBut(n, n.last_fd) /\ CountsOK(n)
             /\ HeldOK(n, IF id = Anonymous THEN Resources \ {r} ELSE Resources)
             /\ r \in n.resources_list <=> id # Anonymous
             /\ SameLinks(k, n) /\ n.last_fd = k.last_fd
<1>. DEFINE n == Made(k, kind, id)
            r == <<kind, Block(k.allocator[kind])>>
<1>1. r \in Resources /\ ~Held(k, r) /\ Makes(k, n, r, id)
  BY MadeMakes DEF Whole, AllBut
<1>2. r[1] = kind /\ r[2] = Block(k.allocator[kind])
  OBVIOUS
<1>. HIDE DEF r, n
<1>3. /\ AllBut(n, n.last_fd) /\ CountsOK(n) /\ Held(n, r)
      /\ HeldOK(n, IF id = Anonymous THEN Resources \ {r} ELSE Resources)
      /\ r \in n.resources_list <=> id # Anonymous
  BY <1>1, <1>2, MakesKeeps DEF Whole
<1>4. SameLinks(k, n) /\ n.last_fd = k.last_fd
  BY <1>1 DEF Makes
<1>. QED BY <1>1, <1>3, <1>4 DEF r, n

\* No name of a resource is that of an anonymous one.
LEMMA NobodyAnonymous ==
  ASSUME NEW k, ListedOK(k)
  PROVE  Anonymous \notin Ids /\ ById(k, Anonymous) = {}
BY DescriptorsAssumption DEF ById, ListedOK, Anonymous

\* Descriptor_mk never finds a descriptor without a pointer.
LEMMA MkRefuses ==
  ASSUME NEW k, ShapeOK(k), NEW p, NEW r, NEW mode, ~MakesDescriptor(k, p)
  PROVE  Descriptor_mk(k, p, r, mode) = k
<1>1. k.descriptor_ptr_allocator = k.descriptor_allocator
  BY DEF ShapeOK
<1>. QED BY <1>1 DEF Descriptor_mk, MakesDescriptor

\* A resource with a name is made.
LEMMA MkStep ==
  ASSUME TablesInv, NEW p \in Pcbs, NEW kind \in Kinds, NEW id \in Ids, Mk(p, kind, id)
  PROVE  TablesInv'
<1>. DEFINE n == Made(tables, kind, id)
<1>1. /\ panic = FALSE /\ ById(tables, id) = {} /\ ~NoBlock(tables.allocator[kind]) /\ Answer(n)
      /\ Whole(tables, tables.last_fd) /\ AliveOK(tables, alive)
  BY DEF Mk, Issues, TablesInv
<1>2. id # Anonymous
  BY <1>1, NobodyAnonymous DEF Whole, AllBut
<1>3. /\ AllBut(n, n.last_fd) /\ CountsOK(n) /\ HeldOK(n, Resources) /\ SameLinks(tables, n)
  BY <1>1, <1>2, MadeKeeps
<1>. HIDE DEF n
<1>4. Whole(n, n.last_fd) /\ AliveOK(n, alive)
  BY <1>1, <1>3, SameLinksKept DEF Whole
<1>. QED BY <1>1, <1>4, AnswerKeeps

\* Resource_open from Descriptor_mk on, with what it does if it fails.
LEMMA OpenOnKeeps ==
  ASSUME NEW k, Whole(k, k.last_fd), AliveOK(k, alive), panic = FALSE,
         NEW p \in alive, k.last_fd[p] <= LastFd,
         NEW r \in k.resources_list, NEW mode \in AllModes, NEW nonblock, OpenOn(k, p, r, mode, nonblock)
  PROVE  TablesInv'
<1>. DEFINE made == Descriptor_mk(k, p, r, mode)
            d == Block(k.descriptor_allocator)
<1>1. /\ p \in Pcbs /\ r \in Resources /\ Held(k, r) /\ HeldOK(k, Resources \ {r})
      /\ AllBut(k, k.last_fd)
  <2>1. p \in Pcbs /\ r \in Resources
    BY DEF Whole, AllBut, ShapeOK, AliveOK
  <2>2. Held(k, r) /\ HeldOK(k, Resources \ {r})
    BY <2>1 DEF Whole, HeldOK
  <2>. QED BY <2>1, <2>2 DEF Whole
<1>2. CASE ~MakesDescriptor(k, p)
  <2>1. Descriptor_mk(k, p, r, mode) = k
    BY <1>1, <1>2, MkRefuses DEF AllBut
  <2>2. Answer(k)
    BY <1>2, <2>1 DEF OpenOn
  <2>. QED BY <2>2, AnswerKeeps
<1>3. CASE MakesDescriptor(k, p)
  <2>1. /\ AllBut(made, made.last_fd) /\ HeldOK(made, Resources)
        /\ \A was \in Int : CountsOff(k, r, mode, was) => CountsOff(made, r, mode, was - 1)
        /\ \A living : AliveOK(k, living) /\ p \in living => AliveOK(made, living)
        /\ d \in Used(made)
        /\ made.descriptor[d].resource = r /\ made.descriptor[d].mode = mode
        /\ made.resources_list = k.resources_list
    BY <1>1, <1>3, MkKeeps
  <2>2. CountsOff(k, r, mode, 0)
    BY <1>1, CountsExactly DEF Whole, AllBut
  <2>3. \A was \in Int : CountsOff(k, r, mode, was) => CountsOff(made, r, mode, was - 1)
    BY <2>1
  <2>4. CountsOff(made, r, mode, 0 - 1)
    BY <2>2, <2>3
  <2>5. CountsOff(made, r, mode, -1)
    BY <2>4
  <2>6. AliveOK(made, alive)
    BY <2>1
  <2>7. \/ Answer(Counted(made, r, mode, 1))
        \/ Answer(Descriptor_destroy(made, d))
    BY <1>3 DEF OpenOn
  <2>. HIDE DEF made, d
  <2>8. CASE Answer(Counted(made, r, mode, 1))
    <3>. DEFINE n == Counted(made, r, mode, 1)
    <3>1. Whole(n, made.last_fd) /\ SameLinks(made, n) /\ n.last_fd = made.last_fd
      BY <1>1, <2>1, <2>5, CountedKeeps
    <3>2. AliveOK(n, alive)
      BY <2>6, <3>1, SameLinksKept
    <3>. HIDE DEF n
    <3>3. Whole(n, n.last_fd)
      BY <3>1
    <3>. QED BY <2>8, <3>2, <3>3, AnswerKeeps DEF n
  <2>9. CASE Answer(Descriptor_destroy(made, d))
    <3>. DEFINE n == Descriptor_destroy(made, d)
    <3>1. Whole(n, n.last_fd) /\ \A living : AliveOK(made, living) => AliveOK(n, living)
      BY <2>1, <2>5, RolledBackKeeps
    <3>2. AliveOK(n, alive)
      BY <2>6, <3>1
    <3>. QED BY <2>9, <3>1, <3>2, AnswerKeeps
  <2>. QED BY <2>7, <2>8, <2>9
<1>. QED BY <1>2, <1>3

\* An open of a resource there is, or of one made for it.
LEMMA OpenStep ==
  ASSUME TablesInv, NEW p \in Pcbs, NEW id \in Ids, NEW mode \in Modes, NEW nonblock,
         Resource_open(p, id, mode, nonblock)
  PROVE  TablesInv'
<1>1. /\ panic = FALSE /\ p \in alive /\ tables.last_fd[p] <= LastFd
      /\ Whole(tables, tables.last_fd) /\ AliveOK(tables, alive)
      /\ mode \in AllModes
  BY DescriptorsAssumption DEF Resource_open, Issues, TablesInv, AllModes
<1>2. ASSUME NEW r \in ById(tables, id), OpenOn(tables, p, r, mode, nonblock)
      PROVE  TablesInv'
  <2>1. r \in tables.resources_list
    BY DEF ById
  <2>. QED BY <1>1, <1>2, <2>1, OpenOnKeeps
<1>3. ASSUME ById(tables, id) = {}, ~NoBlock(tables.allocator["undefin"]),
             OpenOn(Made(tables, "undefin", id), p,
                    <<"undefin", Block(tables.allocator["undefin"])>>, mode, nonblock)
      PROVE  TablesInv'
  <2>. DEFINE n == Made(tables, "undefin", id)
              r == <<"undefin", Block(tables.allocator["undefin"])>>
  <2>1. "undefin" \in Kinds /\ id # Anonymous
    BY <1>1, Sizes, NobodyAnonymous DEF Whole, AllBut
  <2>2. /\ r \in Resources /\ AllBut(n, n.last_fd) /\ CountsOK(n)
        /\ HeldOK(n, IF id = Anonymous THEN Resources \ {r} ELSE Resources)
        /\ r \in n.resources_list <=> id # Anonymous
        /\ SameLinks(tables, n) /\ n.last_fd = tables.last_fd
    BY <1>1, <1>3, <2>1, MadeKeeps
  <2>3. OpenOn(n, p, r, mode, nonblock)
    BY <1>3
  <2>. HIDE DEF n, r
  <2>4. r \in n.resources_list /\ HeldOK(n, Resources)
    BY <2>1, <2>2
  <2>5. Whole(n, n.last_fd) /\ AliveOK(n, alive) /\ n.last_fd[p] <= LastFd
    BY <1>1, <2>2, <2>4, SameLinksKept DEF Whole
  <2>. QED BY <1>1, <2>3, <2>4, <2>5, OpenOnKeeps
<1>. QED BY <1>2, <1>3 DEF Resource_open

\* Descriptor_mk and onopen.
LEMMA MkCounted ==
  ASSUME NEW k, NEW p \in Pcbs, NEW r \in Resources, NEW mode \in AllModes,
         AllBut(k, k.last_fd), HeldOK(k, Resources \ {r}), Held(k, r), CountsOK(k),
         NEW living, AliveOK(k, living), p \in living,
         MakesDescriptor(k, p), k.last_fd[p] <= LastFd
  PROVE  LET n == Counted(Descriptor_mk(k, p, r, mode), r, mode, 1)
         IN  /\ Whole(n, n.last_fd) /\ AliveOK(n, living) /\ Held(n, r)
             /\ n.descriptor_allocator = BlockTaken(k.descriptor_allocator)
             /\ n.descriptors[p] = Append(k.descriptors[p], Block(k.descriptor_allocator))
             /\ n.last_fd[p] = k.last_fd[p] + 1
<1>. DEFINE made == Descriptor_mk(k, p, r, mode)
            n == Counted(made, r, mode, 1)
            d == Block(k.descriptor_allocator)
<1>1. /\ AllBut(made, made.last_fd) /\ HeldOK(made, Resources)
      /\ \A was \in Int : CountsOff(k, r, mode, was) => CountsOff(made, r, mode, was - 1)
      /\ \A l : AliveOK(k, l) /\ p \in l => AliveOK(made, l)
      /\ made.descriptor_allocator = BlockTaken(k.descriptor_allocator)
      /\ made.descriptors[p] = Append(k.descriptors[p], d)
      /\ made.last_fd[p] = k.last_fd[p] + 1
      /\ made.allocator = k.allocator
  BY MkKeeps
<1>2. CountsOff(made, r, mode, -1)
  <2>1. CountsOff(k, r, mode, 0)
    BY CountsExactly DEF AllBut
  <2>2. \A was \in Int : CountsOff(k, r, mode, was) => CountsOff(made, r, mode, was - 1)
    BY <1>1
  <2>. HIDE DEF made
  <2>3. CountsOff(made, r, mode, 0 - 1)
    BY <2>1, <2>2
  <2>. QED BY <2>3
<1>3. AliveOK(made, living)
  BY <1>1
<1>. HIDE DEF made
<1>4. /\ Whole(n, made.last_fd) /\ SameLinks(made, n) /\ n.last_fd = made.last_fd
      /\ n.allocator = made.allocator
  BY <1>1, <1>2, CountedKeeps
<1>. HIDE DEF n
<1>5. Held(n, r)
  BY <1>1, <1>4 DEF Held
<1>6. Whole(n, n.last_fd) /\ AliveOK(n, living)
  BY <1>3, <1>4, SameLinksKept
<1>7. /\ n.descriptor_allocator = BlockTaken(k.descriptor_allocator)
      /\ n.descriptors[p] = Append(k.descriptors[p], d)
      /\ n.last_fd[p] = k.last_fd[p] + 1
  BY <1>1, <1>4 DEF SameLinks
<1>. QED BY <1>5, <1>6, <1>7 DEF n, made

\* Both ends of a pipe, only one, which kills the kernel, or none.
LEMMA PipeStep ==
  ASSUME TablesInv, NEW p \in Pcbs, Pipe_mk(p)
  PROVE  TablesInv'
<1>. DEFINE k == Made(tables, "fifo", Anonymous)
            r == <<"fifo", Block(tables.allocator["fifo"])>>
            reader == Counted(Descriptor_mk(k, p, r, "RDONLY"), r, "RDONLY", 1)
            writer == Counted(Descriptor_mk(reader, p, r, "WRONLY"), r, "WRONLY", 1)
<1>1. /\ panic = FALSE /\ p \in alive /\ tables.last_fd[p] < LastFd
      /\ Whole(tables, tables.last_fd) /\ AliveOK(tables, alive)
      /\ ~NoBlock(tables.allocator["fifo"])
      /\ tables.last_fd[p] \in Nat /\ tables.descriptors[p] \in Seq(Descriptors)
  BY DEF Pipe_mk, Issues, TablesInv, Whole, AllBut, ShapeOK
<1>2. "fifo" \in Kinds /\ Anonymous \in Ids \cup {Anonymous} /\ ById(tables, Anonymous) = {}
  BY <1>1, Sizes, NobodyAnonymous DEF Whole, AllBut
<1>3. /\ r \in Resources /\ AllBut(k, k.last_fd) /\ CountsOK(k) /\ Held(k, r)
      /\ HeldOK(k, Resources \ {r}) /\ SameLinks(tables, k) /\ k.last_fd = tables.last_fd
  <2>1. /\ r \in Resources /\ Held(k, r) /\ AllBut(k, k.last_fd) /\ CountsOK(k)
        /\ HeldOK(k, IF Anonymous = Anonymous THEN Resources \ {r} ELSE Resources)
        /\ SameLinks(tables, k) /\ k.last_fd = tables.last_fd
    BY <1>1, <1>2, MadeKeeps
  <2>. HIDE DEF k, r
  <2>. QED BY <2>1
<1>4. \/ ~MakesDescriptor(k, p) /\ Answer(Resource_destroy(Descriptor_mk(k, p, r, "RDONLY"), r))
      \/ MakesDescriptor(k, p) /\ ~MakesDescriptor(reader, p) /\ Dies
      \/ MakesDescriptor(k, p) /\ MakesDescriptor(reader, p) /\ Answer(writer)
  BY DEF Pipe_mk
<1>. HIDE DEF r, k
<1>5. AliveOK(k, alive) /\ k.descriptors[p] = tables.descriptors[p]
      /\ k.descriptor_allocator = tables.descriptor_allocator
  BY <1>1, <1>3, SameLinksKept DEF SameLinks
<1>6. CASE ~MakesDescriptor(k, p)
  <2>. DEFINE n == Resource_destroy(k, r)
  <2>1. Answer(n)
    BY <1>3, <1>4, <1>6, MkRefuses DEF AllBut
  <2>2. /\ AllBut(n, k.last_fd) /\ HeldOK(n, Resources) /\ CountsOK(n)
        /\ SameLinks(k, n) /\ n.last_fd = k.last_fd
    BY <1>3, DestroyKeeps
  <2>. HIDE DEF n
  <2>3. Whole(n, n.last_fd) /\ AliveOK(n, alive)
    BY <1>5, <2>2, SameLinksKept DEF Whole
  <2>. QED BY <1>1, <2>1, <2>3, AnswerKeeps
<1>7. CASE MakesDescriptor(k, p)
  <2>0. "RDONLY" \in AllModes /\ "WRONLY" \in AllModes
    BY DEF AllModes
  <2>1. k.last_fd[p] \in Nat /\ k.last_fd[p] <= LastFd /\ k.last_fd[p] + 1 <= LastFd
    BY <1>1, <1>3, DescriptorsAssumption
  <2>2. /\ Whole(reader, reader.last_fd) /\ AliveOK(reader, alive) /\ Held(reader, r)
        /\ reader.descriptor_allocator = BlockTaken(k.descriptor_allocator)
        /\ reader.descriptors[p] = Append(k.descriptors[p], Block(k.descriptor_allocator))
        /\ reader.last_fd[p] = k.last_fd[p] + 1
    BY <1>1, <1>3, <1>5, <1>7, <2>0, <2>1, MkCounted
  <2>. HIDE DEF reader
  <2>3. CASE ~MakesDescriptor(reader, p) /\ Dies
    <3>1. CASE ~(Len(reader.descriptors[p]) < MaxPerProcess)
      <4>1. Len(reader.descriptors[p]) = Len(tables.descriptors[p]) + 1
        BY <1>1, <1>5, <2>2, AppendProperties
      <4>2. Len(tables.descriptors[p]) < MaxPerProcess /\ Len(tables.descriptors[p]) \in Nat
        BY <1>1, <1>5, <1>7, LenProperties DEF MakesDescriptor
      <4>3. Len(tables.descriptors[p]) + 1 = MaxPerProcess
        BY <3>1, <4>1, <4>2, DescriptorsAssumption
      <4>. QED BY <1>1, <2>3, <4>3, DiesKeeps
    <3>2. CASE NoBlock(reader.descriptor_allocator)
      <4>1. Pool(tables.descriptor_allocator, NumDescriptors)
        BY <1>1 DEF Whole, AllBut, ShapeOK
      <4>2. Pool(reader.descriptor_allocator, NumDescriptors)
        BY <2>2 DEF Whole, AllBut, ShapeOK
      <4>3. reader.descriptor_allocator.size = 0 /\ tables.descriptor_allocator.size \in Nat
        BY <3>2, <4>1, <4>2, Sizes, PoolCounts
      <4>4. reader.descriptor_allocator.size = tables.descriptor_allocator.size - 1
        BY <1>5, <2>2 DEF BlockTaken
      <4>5. tables.descriptor_allocator.size = 1
        BY <4>3, <4>4
      <4>. QED BY <1>1, <2>3, <4>5, DiesKeeps
    <3>3. reader.descriptor_ptr_allocator = reader.descriptor_allocator
      BY <2>2 DEF Whole, AllBut, ShapeOK
    <3>. QED BY <2>3, <3>1, <3>2, <3>3 DEF MakesDescriptor
  <2>4. CASE MakesDescriptor(reader, p) /\ Answer(writer)
    <3>1. /\ AllBut(reader, reader.last_fd) /\ HeldOK(reader, Resources \ {r}) /\ CountsOK(reader)
          /\ reader.last_fd[p] <= LastFd
      BY <1>3, <2>1, <2>2 DEF Whole, HeldOK
    <3>2. Whole(writer, writer.last_fd) /\ AliveOK(writer, alive)
      BY <1>1, <1>3, <2>0, <2>2, <2>4, <3>1, MkCounted
    <3>. QED BY <1>1, <2>4, <3>2, AnswerKeeps
  <2>. QED BY <1>4, <1>7, <2>3, <2>4 DEF reader
<1>. QED BY <1>6, <1>7

\* A close finds a descriptor of the process, and closes it.
LEMMA CloseStep ==
  ASSUME TablesInv, NEW p \in Pcbs, NEW fd, Resource_close(p, fd)
  PROVE  TablesInv'
<1>. DEFINE own == tables.descriptors[p]
            i == ByFd(tables, p, fd)
<1>1. /\ panic = FALSE /\ p \in alive /\ i # 0 /\ Answer(Closed(tables, own[i]))
      /\ Whole(tables, tables.last_fd) /\ AliveOK(tables, alive) /\ own \in Seq(Descriptors)
  BY DEF Resource_close, Issues, TablesInv, Whole, AllBut, ShapeOK
<1>2. i \in DOMAIN own
  <2>. DEFINE those == {j \in 1..Len(own) : tables.descriptor[own[j]].fd = fd}
  <2>1. i = IF those # {} THEN Min(those) ELSE 0
    BY DEF ByFd, SelectInSeq
  <2>2. those # {} /\ those \in SUBSET Nat
    <3>1. those \in SUBSET Nat
      OBVIOUS
    <3>. HIDE DEF those
    <3>. QED BY <1>1, <2>1, <3>1
  <2>3. PICK m \in those : \A j \in those : m <= j
    <3>. HIDE DEF those
    <3>. QED BY <2>2, Least
  <2>4. Min(those) \in those
    BY <2>3 DEF Min
  <2>5. i \in those
    BY <2>1, <2>2, <2>4
  <2>. QED BY <1>1, <2>5, LenProperties
<1>3. own[i] \in Used(tables)
  <2>1. own[i] \in Range(own)
    BY <1>2 DEF Range
  <2>. QED BY <1>1, <2>1 DEF Whole, AllBut, LinksOK
<1>. DEFINE d == own[i]
            n == Closed(tables, d)
<1>4. d \in Used(tables) /\ Answer(n)
  BY <1>1, <1>3
<1>. HIDE DEF d
<1>5. /\ Whole(n, n.last_fd) /\ Used(n) = Used(tables) \ {d}
      /\ \A e \in Used(n) : n.descriptor[e] = tables.descriptor[e]
  BY <1>1, <1>4, ClosedKeeps
<1>. HIDE DEF n
<1>6. AliveOK(n, alive)
  BY <1>1, <1>5 DEF AliveOK
<1>. QED BY <1>1, <1>4, <1>5, <1>6, AnswerKeeps

\* A resource loses its name, and is destroyed if nobody has it open.
LEMMA UnlinkStep ==
  ASSUME TablesInv, NEW p \in Pcbs, NEW id, Resource_unlink(p, id)
  PROVE  TablesInv'
<1>1. /\ panic = FALSE /\ p \in alive
      /\ Whole(tables, tables.last_fd) /\ AliveOK(tables, alive)
  BY DEF Resource_unlink, Issues, TablesInv
<1>2. PICK r \in ById(tables, id) :
        Answer(Resource_destroy([tables EXCEPT !.resource[r].unlinked = TRUE,
                                               !.resources_list = @ \ {r}], r))
  BY DEF Resource_unlink
<1>. DEFINE m == [tables EXCEPT !.resource[r].unlinked = TRUE, !.resources_list = @ \ {r}]
            n == Resource_destroy(m, r)
<1>3. r \in tables.resources_list /\ r \in Resources
  BY <1>1 DEF ById, Whole, AllBut, ShapeOK
<1>4. Unlinks(tables, m, r) /\ Answer(n)
  BY <1>1, <1>2, <1>3, UnlinkedUnlinks DEF Whole, AllBut
<1>. HIDE DEF m
<1>5. /\ AllBut(m, m.last_fd) /\ HeldOK(m, Resources \ {r}) /\ CountsOK(m)
      /\ Held(m, r) /\ SameLinks(tables, m) /\ m.last_fd = tables.last_fd
  <2>1. /\ AllBut(m, m.last_fd) /\ HeldOK(m, Resources \ {r}) /\ CountsOK(m)
        /\ Held(m, r)
    BY <1>1, <1>3, <1>4, UnlinksKeeps DEF Whole
  <2>. QED BY <1>4, <2>1 DEF Unlinks
<1>6. /\ AllBut(n, m.last_fd) /\ HeldOK(n, Resources) /\ CountsOK(n)
      /\ SameLinks(m, n) /\ n.last_fd = m.last_fd
  BY <1>3, <1>5, DestroyKeeps
<1>. HIDE DEF n
<1>7. Whole(n, n.last_fd) /\ AliveOK(n, alive)
  BY <1>1, <1>5, <1>6, SameLinksKept DEF Whole
<1>. QED BY <1>1, <1>4, <1>7, AnswerKeeps

\* A child with copies of the descriptors, which numbers its own from above them.
LEMMA SpawnFdStep ==
  ASSUME TablesInv, NEW p \in Pcbs, NEW child \in Others, spawn_withfd(p, child)
  PROVE  TablesInv'
<1>. DEFINE own == tables.descriptors[p]
            k == Cloned(tables, child, own)
            n == [k EXCEPT !.last_fd[child] = FdOfClone(p)]
<1>1. /\ panic = FALSE /\ p \in alive /\ child \notin alive /\ child \in Pcbs
      /\ Whole(tables, tables.last_fd) /\ AliveOK(tables, alive)
      /\ tables.descriptor_ptr_allocator = tables.descriptor_allocator
      /\ tables.last_fd \in [Pcbs -> Nat]
      /\ own \in Seq(Descriptors) /\ tables.descriptor_allocator.size \in Nat
  <2>1. tables.descriptor_allocator.size \in Nat
    BY Sizes, PoolCounts DEF TablesInv, Whole, AllBut, ShapeOK
  <2>. QED BY <2>1, Sizes DEF spawn_withfd, Issues, TablesInv, Whole, AllBut, ShapeOK
<1>2. CASE Len(own) > tables.descriptor_allocator.size /\ Dies
  BY <1>1, <1>2, DiesKeeps
<1>3. CASE /\ Len(own) <= tables.descriptor_allocator.size
           /\ tables' = n /\ alive' = alive \cup {child} /\ UNCHANGED panic
  <2>1. /\ Whole(k, [tables.last_fd EXCEPT ![child] = tables.last_fd[p]])
        /\ k.last_fd = tables.last_fd
        /\ AliveOK(k, alive \cup {child})
    BY <1>1, <1>3, ClonedKeeps
  <2>. HIDE DEF k
  <2>2. ShapeOK(k) /\ LinksOK(k) /\ ListedOK(k) /\ HeldOK(k, Resources) /\ CountsOK(k)
        /\ FdsOK(k, [k.last_fd EXCEPT ![child] = FdOfClone(p)])
    BY <2>1 DEF Whole, AllBut, FdOfClone
  <2>3. Renumbers(k, n, child, FdOfClone(p)) /\ FdOfClone(p) \in Nat
    BY <1>1, <2>2, UpdateRenumbers DEF FdOfClone
  <2>. HIDE DEF n
  <2>4. /\ AllBut(n, n.last_fd) /\ SameLinks(k, n) /\ HeldOK(n, Resources) /\ CountsOK(n)
    BY <1>1, <2>2, <2>3, RenumbersKeeps
  <2>5. Whole(n, n.last_fd) /\ AliveOK(n, alive \cup {child})
    BY <2>1, <2>4, SameLinksKept DEF Whole
  <2>6. Whole(tables', tables'.last_fd) /\ AliveOK(tables', alive') /\ panic' = FALSE
    BY <1>1, <1>3, <2>5
  <2>. QED BY <2>6 DEF TablesInv, DiesOnlyFull
<1>. QED BY <1>1, <1>2, <1>3 DEF spawn_withfd

\* A child without descriptors.
LEMMA SpawnStep ==
  ASSUME TablesInv, NEW p \in Pcbs, NEW child \in Others, spawn(p, child)
  PROVE  TablesInv'
<1>1. panic' = FALSE /\ tables' = tables /\ alive' = alive \cup {child} /\ child \in Pcbs
  BY Sizes DEF spawn, Issues, TablesInv
<1>2. Whole(tables', tables'.last_fd) /\ AliveOK(tables', alive')
  BY <1>1 DEF TablesInv, AliveOK, Used
<1>. QED BY <1>1, <1>2 DEF TablesInv, DiesOnlyFull

\* Who exits starts again from zero, without descriptors.
LEMMA ExitStep ==
  ASSUME TablesInv, NEW p \in Pcbs, exit(p)
  PROVE  TablesInv'
<1>. DEFINE k == Exited(p)
            n == [k EXCEPT !.last_fd[p] = 0]
<1>1. /\ panic' = FALSE /\ p # Init_pcb /\ tables' = n /\ alive' = alive \ {p}
      /\ Whole(tables, tables.last_fd) /\ AliveOK(tables, alive)
  BY DEF exit, Issues, TablesInv
<1>2. Whole(k, k.last_fd) /\ AliveOK(k, alive \ {p})
  BY <1>1, ExitedKeeps
<1>. HIDE DEF k
<1>3. FdsOK(k, [k.last_fd EXCEPT ![p] = 0])
  <2>1. \A d \in Used(k) : k.descriptor[d].pcb # p /\ k.descriptor[d].pcb \in Pcbs
    BY <1>2 DEF AliveOK
  <2>2. k.last_fd \in [Pcbs -> Nat] /\ FdsOK(k, k.last_fd)
    BY <1>2 DEF Whole, AllBut, ShapeOK
  <2>. QED BY <2>1, <2>2 DEF FdsOK
<1>4. ShapeOK(k) /\ LinksOK(k) /\ ListedOK(k) /\ HeldOK(k, Resources) /\ CountsOK(k)
  BY <1>2 DEF Whole, AllBut
<1>5. Renumbers(k, n, p, 0)
  BY <1>4, UpdateRenumbers
<1>. HIDE DEF n
<1>6. AllBut(n, n.last_fd) /\ SameLinks(k, n) /\ HeldOK(n, Resources) /\ CountsOK(n)
  BY <1>3, <1>4, <1>5, RenumbersKeeps
<1>7. Whole(n, n.last_fd) /\ AliveOK(n, alive \ {p})
  BY <1>2, <1>6, SameLinksKept DEF Whole
<1>8. Whole(tables', tables'.last_fd) /\ AliveOK(tables', alive')
  BY <1>1, <1>7
<1>. QED BY <1>1, <1>8 DEF TablesInv, DiesOnlyFull

-----------------------------------------------------------------------------
(* The invariant.                                                          *)

\* The tables are whole at the start: all pools are full and all lists empty.
LEMMA DescriptorsInit ==
  ASSUME Init
  PROVE  TablesInv
<1>1. /\ Pool(tables.descriptor_allocator, NumDescriptors) /\ Used(tables) = {}
      /\ \A kind \in Kinds : /\ Pool(tables.allocator[kind], NumOf[kind])
                             /\ Detached(tables.allocator[kind]) = {}
  <2>1. NumDescriptors \in Nat \ {0} /\ \A kind \in Kinds : NumOf[kind] \in Nat \ {0}
    BY DescriptorsAssumption
  <2>2. Pool(tables.descriptor_allocator, NumDescriptors) /\ Used(tables) = {}
    BY <2>1, InitPool DEF Init, Used
  <2>3. ASSUME NEW kind \in Kinds
        PROVE  Pool(tables.allocator[kind], NumOf[kind]) /\ Detached(tables.allocator[kind]) = {}
    <3>1. tables.allocator[kind] = PoolAllocator_init(NumOf[kind])
      BY DEF Init
    <3>. QED BY <2>1, <3>1, InitPool
  <2>. QED BY <2>2, <2>3
<1>2. NewResource(Anonymous) \in Res /\ NewResource(Anonymous).unlinked
      /\ NewResource(Anonymous).descriptors_ptrs = <<>>
      /\ NewResource(Anonymous).readers_number = 0 /\ NewResource(Anonymous).writers_number = 0
  BY NewResourceType
<1>3. NoDescriptor \in Desc
  BY Sizes, DescriptorsAssumption DEF NoDescriptor, Desc, AllModes
<1>4. ShapeOK(tables)
  BY <1>1, <1>2, <1>3 DEF Init, ShapeOK, Fields
<1>5. IsInjective(<<>>) /\ Range(<<>>) = {}
  BY DEF IsInjective, Range
<1>6. /\ \A p \in Pcbs : tables.descriptors[p] = <<>>
      /\ \A r \in Resources : tables.resource[r] = NewResource(Anonymous)
      /\ tables.resources_list = {} /\ alive = {Init_pcb} /\ panic = FALSE
  BY DEF Init
<1>7. LinksOK(tables) /\ FdsOK(tables, tables.last_fd) /\ ListedOK(tables)
  BY <1>1, <1>2, <1>5, <1>6 DEF LinksOK, FdsOK, ListedOK, Of
<1>8. HeldOK(tables, Resources)
  BY <1>1, <1>6, ResourceIs DEF HeldOK, Held, Of
<1>9. CountsOK(tables)
  <2>1. \A r, mode : Opened(tables, r, mode) = {}
    BY <1>1 DEF Opened, Of
  <2>. QED BY <1>2, <1>6, <2>1, FS_EmptySet DEF CountsOK
<1>10. AliveOK(tables, alive)
  BY <1>1, <1>6, Sizes DEF AliveOK
<1>. QED BY <1>4, <1>6, <1>7, <1>8, <1>9, <1>10 DEF TablesInv, Whole, AllBut, DiesOnlyFull

\* Every call leaves them whole.
LEMMA DescriptorsNext ==
  ASSUME TablesInv, [Next]_vars
  PROVE  TablesInv'
<1>1. CASE UNCHANGED vars
  BY <1>1 DEF vars, TablesInv, DiesOnlyFull
<1>2. CASE Next
  <2>1. PICK p \in Pcbs :
          \/ \E id \in Ids :
               \/ Resource_mk(p, id) \/ Fifo_mk(p, id)
               \/ \E mode \in Modes, nonblock \in BOOLEAN : Resource_open(p, id, mode, nonblock)
               \/ Resource_unlink(p, id)
          \/ Pipe_mk(p)
          \/ \E fd \in 0..LastFd : Resource_close(p, fd)
          \/ \E child \in Others : spawn_withfd(p, child) \/ spawn(p, child)
          \/ exit(p)
    BY <1>2 DEF Next
  <2>2. ASSUME NEW id \in Ids, Resource_mk(p, id) \/ Fifo_mk(p, id) PROVE TablesInv'
    <3>1. "undefin" \in Kinds /\ "fifo" \in Kinds
      BY Sizes
    <3>2. Mk(p, "undefin", id) \/ Mk(p, "fifo", id)
      BY <2>2 DEF Resource_mk, Fifo_mk
    <3>. QED BY <3>1, <3>2, MkStep
  <2>3. ASSUME NEW id \in Ids, NEW mode \in Modes, NEW nonblock \in BOOLEAN,
               Resource_open(p, id, mode, nonblock)
        PROVE  TablesInv'
    BY <2>3, OpenStep
  <2>4. ASSUME NEW id \in Ids, Resource_unlink(p, id) PROVE TablesInv'
    BY <2>4, UnlinkStep
  <2>5. ASSUME Pipe_mk(p) PROVE TablesInv'
    BY <2>5, PipeStep
  <2>6. ASSUME NEW fd \in 0..LastFd, Resource_close(p, fd) PROVE TablesInv'
    BY <2>6, CloseStep
  <2>7. ASSUME NEW child \in Others, spawn_withfd(p, child) PROVE TablesInv'
    BY <2>7, SpawnFdStep
  <2>8. ASSUME NEW child \in Others, spawn(p, child) PROVE TablesInv'
    BY <2>8, SpawnStep
  <2>9. ASSUME exit(p) PROVE TablesInv'
    BY <2>9, ExitStep
  <2>. QED BY <2>1, <2>2, <2>3, <2>4, <2>5, <2>6, <2>7, <2>8, <2>9
<1>. QED BY <1>1, <1>2

\* Between two calls the tables are whole.
THEOREM DescriptorsInvariant == Spec => []TablesInv
BY DescriptorsInit, DescriptorsNext, PTL DEF Spec

\* Every table keeps its type, and every pool a well formed free list
\* (DescriptorsTypeOK).
THEOREM DescriptorsTypeCorrect == Spec => []DescriptorsTypeOK
<1>1. TablesInv => DescriptorsTypeOK
  <2>. SUFFICES ASSUME TablesInv PROVE DescriptorsTypeOK
    OBVIOUS
  <2>1. WellFormed(tables.descriptor_allocator) /\ WellFormed(tables.descriptor_ptr_allocator)
    BY Sizes, PoolWellFormed DEF TablesInv, Whole, AllBut, ShapeOK
  <2>2. \A kind \in Kinds : WellFormed(tables.allocator[kind])
    BY Sizes, PoolWellFormed DEF TablesInv, Whole, AllBut, ShapeOK
  <2>3. /\ tables.descriptor \in [Descriptors -> Desc]
        /\ tables.descriptor_ptr \in [Descriptors -> Descriptors \cup {-1}]
        /\ tables.descriptors \in [Pcbs -> Seq(Descriptors)]
        /\ tables.resource \in [Resources -> Res]
        /\ tables.resources_list \subseteq Resources
        /\ alive \subseteq Pcbs /\ panic \in BOOLEAN
    BY DEF TablesInv, Whole, AllBut, ShapeOK, AliveOK
  <2>. QED BY <2>1, <2>2, <2>3 DEF DescriptorsTypeOK, Desc, Res, AllModes
<1>. QED BY <1>1, DescriptorsInvariant, PTL

\* Every descriptor in use is on the list of its process and its pointer on that
\* of its resource, and the lists hold nothing else (ListsAgree).
THEOREM ListsAlwaysAgree == Spec => []ListsAgree
<1>1. TablesInv => ListsAgree
  <2>. SUFFICES ASSUME TablesInv PROVE ListsAgree
    OBVIOUS
  <2>. USE DEF TablesInv, Whole, AllBut
  <2>1. InUse = Used(tables) /\ \A s : ToSet(s) = Range(s)
    BY DEF InUse, Used, ToSet, Range
  <2>2. \A d \in InUse : tables.descriptor[d].ptr = d /\ tables.descriptor_ptr[d] = d
    BY <2>1 DEF LinksOK
  <2>3. ASSUME NEW p \in Pcbs
        PROVE  /\ IsInjective(tables.descriptors[p])
               /\ ToSet(tables.descriptors[p]) = {d \in InUse : tables.descriptor[d].pcb = p}
               /\ p \notin alive => tables.descriptors[p] = <<>>
    <3>1. /\ IsInjective(tables.descriptors[p])
          /\ ToSet(tables.descriptors[p]) = {d \in InUse : tables.descriptor[d].pcb = p}
      BY <2>1 DEF LinksOK
    <3>2. ASSUME p \notin alive PROVE tables.descriptors[p] = <<>>
      <4>1. \A d \in InUse : tables.descriptor[d].pcb # p
        BY <2>1, <3>2 DEF AliveOK
      <4>2. tables.descriptors[p] \in Seq(Descriptors)
        BY DEF ShapeOK
      <4>3. Range(tables.descriptors[p]) = {}
        BY <2>1, <3>1, <4>1
      <4>4. DOMAIN tables.descriptors[p] = {}
        BY <4>3 DEF Range
      <4>5. Len(tables.descriptors[p]) \in Nat
            /\ DOMAIN tables.descriptors[p] = 1..Len(tables.descriptors[p])
        BY <4>2, LenProperties
      <4>6. Len(tables.descriptors[p]) = 0
        <5>1. PICK n \in Nat : n = Len(tables.descriptors[p])
          BY <4>5
        <5>2. 1..n = {}
          BY <4>4, <4>5, <5>1
        <5>3. 1 \notin 1..n
          BY <5>2
        <5>. QED BY <5>1, <5>3
      <4>. QED BY <4>2, <4>6, EmptySeq
    <3>. QED BY <3>1, <3>2
  <2>4. ASSUME NEW r \in Resources
        PROVE  /\ IsInjective(tables.resource[r].descriptors_ptrs)
               /\ ToSet(tables.resource[r].descriptors_ptrs) =
                    {tables.descriptor[d].ptr : d \in {d \in InUse : tables.descriptor[d].resource = r}}
    <3>1. /\ IsInjective(tables.resource[r].descriptors_ptrs)
          /\ ToSet(tables.resource[r].descriptors_ptrs) = {d \in InUse : tables.descriptor[d].resource = r}
      BY <2>1 DEF LinksOK, Of
    <3>. QED BY <2>2, <3>1
  <2>5. Detached(tables.descriptor_ptr_allocator) = {tables.descriptor[d].ptr : d \in InUse}
    <3>1. Detached(tables.descriptor_ptr_allocator) = InUse
      BY DEF InUse, ShapeOK
    <3>. QED BY <2>2, <3>1
  <2>6. \A d \in InUse : tables.descriptor_ptr[tables.descriptor[d].ptr] = d
    BY <2>2
  <2>. QED BY <2>3, <2>4, <2>5, <2>6 DEF ListsAgree
<1>. QED BY <1>1, DescriptorsInvariant, PTL

\* A resource in use is one block of the pool of its kind.
LEMMA InUseIsHeld ==
  ASSUME NEW kind \in Kinds, ShapeOK(tables)
  PROVE  InUseOf(kind) = {r \in Resources : r[1] = kind /\ Held(tables, r)}
<1>1. Detached(tables.allocator[kind]) \subseteq 0..(NumOf[kind] - 1)
  BY Sizes, PoolWellFormed DEF ShapeOK
<1>2. ASSUME NEW r \in InUseOf(kind) PROVE r \in Resources /\ r[1] = kind /\ Held(tables, r)
  <2>1. PICK i \in Detached(tables.allocator[kind]) : r = <<kind, i>>
    BY <1>2 DEF InUseOf
  <2>. QED BY <1>1, <2>1, ResourceIs DEF Held
<1>3. ASSUME NEW r \in Resources, r[1] = kind, Held(tables, r) PROVE r \in InUseOf(kind)
  BY <1>3, ResourceIs DEF Held, InUseOf
<1>. QED BY <1>2, <1>3

\* A resource is in use exactly while it has a name or a descriptor, and the name
\* is its own (FreedWhenUnused).
THEOREM FreedExactlyWhenUnused == Spec => []FreedWhenUnused
<1>1. TablesInv => FreedWhenUnused
  <2>. SUFFICES ASSUME TablesInv PROVE FreedWhenUnused
    OBVIOUS
  <2>. USE DEF TablesInv, Whole, AllBut
  <2>1. ASSUME NEW kind \in Kinds
        PROVE  InUseOf(kind) = {r \in Resources :
                                  /\ r[1] = kind
                                  /\ \/ r \in tables.resources_list
                                     \/ \E d \in InUse : tables.descriptor[d].resource = r}
    <3>1. InUseOf(kind) = {r \in Resources : r[1] = kind /\ Held(tables, r)}
      BY InUseIsHeld
    <3>2. \A r \in Resources : Held(tables, r) <=> r \in tables.resources_list \/ Of(tables, r) # {}
      BY DEF HeldOK
    <3>3. \A r : Of(tables, r) # {} <=> \E d \in InUse : tables.descriptor[d].resource = r
      BY DEF Of, InUse, Used
    <3>. QED BY <3>1, <3>2, <3>3
  <2>2. \A r \in tables.resources_list : ~tables.resource[r].unlinked
    BY DEF ListedOK, ShapeOK
  <2>3. \A r, s \in tables.resources_list :
          tables.resource[r].id = tables.resource[s].id => r = s
    BY DEF ListedOK
  <2>. QED BY <2>1, <2>2, <2>3 DEF FreedWhenUnused
<1>. QED BY <1>1, DescriptorsInvariant, PTL

\* The counters of a fifo count the descriptors that are open on it (CountersFollow).
THEOREM CountersAlwaysFollow == Spec => []CountersFollow
<1>1. TablesInv => CountersFollow
  <2>. SUFFICES ASSUME TablesInv, NEW r \in InUseOf("fifo")
                PROVE  LET opened(mode) == {d \in InUse : tables.descriptor[d].resource = r
                                                          /\ tables.descriptor[d].mode = mode}
                       IN /\ tables.resource[r].readers_number = Cardinality(opened("RDONLY"))
                          /\ tables.resource[r].writers_number = Cardinality(opened("WRONLY"))
    BY DEF CountersFollow
  <2>. DEFINE opened(mode) == {d \in InUse : tables.descriptor[d].resource = r
                                             /\ tables.descriptor[d].mode = mode}
  <2>1. r \in Resources /\ r[1] = "fifo"
    BY Sizes, InUseIsHeld DEF TablesInv, Whole, AllBut
  <2>2. \A mode : Opened(tables, r, mode) = opened(mode)
    BY DEF Opened, Of, Used, InUse
  <2>3. /\ tables.resource[r].readers_number = Cardinality(Opened(tables, r, "RDONLY"))
        /\ tables.resource[r].writers_number = Cardinality(Opened(tables, r, "WRONLY"))
    BY <2>1 DEF TablesInv, Whole, CountsOK
  <2>4. /\ Cardinality(Opened(tables, r, "RDONLY")) = Cardinality(opened("RDONLY"))
        /\ Cardinality(Opened(tables, r, "WRONLY")) = Cardinality(opened("WRONLY"))
    BY <2>2
  <2>. QED BY <2>3, <2>4
<1>. QED BY <1>1, DescriptorsInvariant, PTL

\* No process has two descriptors with one number (FdsUnique).
THEOREM FdsAlwaysUnique == Spec => []FdsUnique
<1>1. TablesInv => FdsUnique
  BY DEF TablesInv, Whole, AllBut, FdsOK, FdsUnique, InUse, Used
<1>. QED BY <1>1, DescriptorsInvariant, PTL

\* The kernel dies only where the descriptors of the living leave too few (DiesOnlyFull).
THEOREM DescriptorsDiesOnlyFull == Spec => []DiesOnlyFull
<1>1. TablesInv => DiesOnlyFull
  BY DEF TablesInv
<1>. QED BY <1>1, DescriptorsInvariant, PTL

\* The pointers' pool is that of the descriptors, so that neither runs out before the
\* other, and Descriptor_mk never fails with a descriptor already on its list.
THEOREM NeverHalfMade ==
  Spec => [](tables.descriptor_ptr_allocator = tables.descriptor_allocator)
<1>1. TablesInv => tables.descriptor_ptr_allocator = tables.descriptor_allocator
  BY DEF TablesInv, Whole, AllBut, ShapeOK
<1>. QED BY <1>1, DescriptorsInvariant, PTL
=============================================================================
