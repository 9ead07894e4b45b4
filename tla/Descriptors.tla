------------------------------ MODULE Descriptors ------------------------------
(***************************************************************************)
(* The tables behind a file descriptor: the descriptors and descriptor     *)
(* pointers of disastrOS_descriptor.c and the resources of                 *)
(* disastrOS_resource.c and _fifo.c, each from its pool, and the lists     *)
(* they lie on.  Processes make, open, close and unlink resources, spawn   *)
(* with and without their descriptors, and exit.                           *)
(*                                                                         *)
(* All the calls here return at once: an open that would wait for the      *)
(* other side of a fifo is in Fifo.  The tables are one record because a   *)
(* call makes many changes to them one after another.  A free block keeps  *)
(* no contents.                                                            *)
(***************************************************************************)
EXTENDS PoolAllocator, Lists, FiniteSets, SequencesExt

CONSTANTS
  Init_pcb,          \* the first process, which does not exit
  Others,            \* the other PCBs
  MaxPerProcess,     \* MAX_NUM_DESCRIPTORS_PER_PROCESS
  NumDescriptors,    \* the blocks of the two pools of Descriptor_init
  NumOf,             \* for each kind of resource, the blocks of its pool
  Ids,               \* resource ids below DSOS_ANON_RES_STARTID
  Modes,             \* the access modes processes ask for
  LastFd             \* bound: no call that may give a larger fd is made

Pcbs == Others \cup {Init_pcb}
Kinds == DOMAIN NumOf

ASSUME DescriptorsAssumption ==
  /\ MaxPerProcess \in Nat /\ LastFd \in Nat
  /\ -1 \notin Ids
  /\ NumDescriptors \in Nat \ {0}
  /\ Modes \subseteq {"RDONLY", "WRONLY", "RDWR"}
  /\ DOMAIN NumOf = {"undefin", "fifo"}
  /\ \A kind \in Kinds : NumOf[kind] \in Nat \ {0}

VARIABLES
  tables,        \* see Init
  alive,         \* the PCBs in use
  panic          \* an assertion failed, or a null or uninitialised pointer was used

vars == <<tables, alive, panic>>

(***************************************************************************)
(* The blocks of the pools, by the index or by the kind and the index.     *)
(***************************************************************************)
Descriptors == 0..(NumDescriptors - 1)
Resources == UNION {{kind} \X (0..(NumOf[kind] - 1)) : kind \in Kinds}

NoDescriptor == [fd |-> -1, resource |-> <<>>, pcb |-> Init_pcb, mode |-> "RDONLY", ptr |-> -1]
Anonymous == -1
NewResource(id) ==
  [id |-> id, unlinked |-> id = Anonymous, descriptors_ptrs |-> <<>>,
   readers_number |-> 0, writers_number |-> 0]

-----------------------------------------------------------------------------
(* Descriptors.  k is the record of the tables.                            *)

\* Descriptor_alloc and DescriptorPtr_alloc, and both on their lists.
Attached(k, p, fd, r, mode) ==
  LET d == Block(k.descriptor_allocator)
      q == Block(k.descriptor_ptr_allocator)
  IN [k EXCEPT !.descriptor_allocator = BlockTaken(@),
               !.descriptor_ptr_allocator = BlockTaken(@),
               !.descriptor[d] = [fd |-> fd, resource |-> r, pcb |-> p, mode |-> mode, ptr |-> q],
               !.descriptor_ptr[q] = d,
               !.descriptors[p] = Append(@, d),
               !.resource[r].descriptors_ptrs = Append(@, q)]

MakesDescriptor(k, p) ==
  /\ Len(k.descriptors[p]) < MaxPerProcess         \* else DSOS_EMFILE
  /\ ~NoBlock(k.descriptor_allocator)              \* else DSOS_ENFILE
  /\ ~NoBlock(k.descriptor_ptr_allocator)          \* else DSOS_ENFILE

\* Descriptor_mk.  If only the pointer cannot be made the descriptor is freed,
\* and stays on the list of the process.
Descriptor_mk(k, p, r, mode) ==
  CASE MakesDescriptor(k, p) ->
         [Attached(k, p, k.last_fd[p], r, mode) EXCEPT !.last_fd[p] = @ + 1]
    [] /\ Len(k.descriptors[p]) < MaxPerProcess
       /\ ~NoBlock(k.descriptor_allocator)
       /\ NoBlock(k.descriptor_ptr_allocator) ->
         [k EXCEPT !.descriptors[p] = Append(@, Block(k.descriptor_allocator))]
    [] OTHER -> k

Descriptor_destroy_KeepsPtr(k, d) ==
  LET x == k.descriptor[d]
  IN [k EXCEPT !.descriptors[x.pcb] = Without(@, {d}),
               !.resource[x.resource].descriptors_ptrs = Without(@, {x.ptr}),
               !.descriptor_allocator = Released(@, d),
               !.descriptor[d] = NoDescriptor]

Descriptor_destroy(k, d) ==
  LET x == k.descriptor[d]
  IN [k EXCEPT !.descriptors[x.pcb] = Without(@, {d}),
               !.resource[x.resource].descriptors_ptrs = Without(@, {x.ptr}),
               !.descriptor_allocator = Released(@, d),
               !.descriptor_ptr_allocator = Released(@, x.ptr),
               !.descriptor[d] = NoDescriptor,
               !.descriptor_ptr[x.ptr] = -1]

\* DescriptorList_byFd: the place of the first of the process's descriptors with
\* that fd, 0 if there is none.
ByFd(k, p, fd) == SelectInSeq(k.descriptors[p], LAMBDA d : k.descriptor[d].fd = fd)

-----------------------------------------------------------------------------
(* Resources.                                                              *)

\* Resource_alloc and Fifo_alloc, and on resources_list if named.
Made(k, kind, id) ==
  LET r == <<kind, Block(k.allocator[kind])>>
  IN [k EXCEPT !.allocator[kind] = BlockTaken(@),
               !.resource[r] = NewResource(id),
               !.resources_list = IF id = Anonymous THEN @ ELSE @ \cup {r}]

\* ResourceList_byId.
ById(k, id) == {r \in k.resources_list : k.resource[r].id = id}

Resource_destroy_WhileOpen(k, r) ==
  IF ~k.resource[r].unlinked THEN k
  ELSE [k EXCEPT !.allocator[r[1]] = Released(@, r[2]), !.resource[r] = NewResource(Anonymous)]

Resource_destroy(k, r) ==
  IF ~k.resource[r].unlinked \/ k.resource[r].descriptors_ptrs # <<>> THEN k
  ELSE [k EXCEPT !.allocator[r[1]] = Released(@, r[2]), !.resource[r] = NewResource(Anonymous)]

\* Only fifos have onopen, onclone and onclose; they count their descriptors.
Counted(k, r, mode, n) ==
  IF r[1] # "fifo" THEN k
  ELSE [k EXCEPT !.resource[r].readers_number = IF mode = "RDONLY" THEN @ + n ELSE @,
                 !.resource[r].writers_number = IF mode = "WRONLY" THEN @ + n ELSE @]

\* Resource_close of the descriptor d.
Closed(k, d) ==
  LET x == k.descriptor[d]
      r == x.resource
  IN Resource_destroy(Descriptor_destroy(Counted(k, r, x.mode, -1), d), r)

\* Fifo_onopen: does the open succeed, or fail?  It waits if it does neither.
Opens(k, r, mode, nonblock) ==
  \/ r[1] # "fifo"
  \/ mode = "RDONLY" /\ (k.resource[r].writers_number > 0 \/ nonblock)
  \/ mode = "WRONLY" /\ k.resource[r].readers_number > 0

OpenFails(k, r, mode, nonblock) ==
  /\ r[1] = "fifo"
  /\ \/ mode = "RDWR"                                                         \* DSOS_EINVAL
     \/ mode = "WRONLY" /\ nonblock /\ k.resource[r].readers_number = 0       \* DSOS_ENXIO

-----------------------------------------------------------------------------
(* The system calls of a process p.                                        *)

Issues(p) == ~panic /\ p \in alive

Answer(k) == tables' = k /\ UNCHANGED <<alive, panic>>
Dies == panic' = TRUE /\ UNCHANGED <<tables, alive>>

\* The two system calls that make a named resource.  DSOS_EEXIST and DSOS_ENOMEM
\* change nothing.
Mk(p, kind, id) ==
  /\ Issues(p)
  /\ ById(tables, id) = {}
  /\ ~NoBlock(tables.allocator[kind])
  /\ Answer(Made(tables, kind, id))

Resource_mk(p, id) == Mk(p, "undefin", id)
Fifo_mk(p, id) == Mk(p, "fifo", id)

\* Resource_open from Descriptor_mk on, and its roll back.
OpenOn(k, p, r, mode, nonblock) ==
  \/ ~MakesDescriptor(k, p) /\ Answer(Descriptor_mk(k, p, r, mode))
  \/ /\ MakesDescriptor(k, p)
     /\ LET made == Descriptor_mk(k, p, r, mode) IN
        \/ Opens(k, r, mode, nonblock) /\ Answer(Counted(made, r, mode, 1))
        \/ /\ OpenFails(k, r, mode, nonblock)
           /\ Answer(Descriptor_destroy(made, Block(k.descriptor_allocator)))

\* DSOS_O_CREAT makes the resource first, and leaves it there if the descriptor
\* cannot be made.  An open that fails before that changes nothing.
Resource_open(p, id, mode, nonblock) ==
  /\ Issues(p)
  /\ tables.last_fd[p] <= LastFd
  /\ \/ \E r \in ById(tables, id) : OpenOn(tables, p, r, mode, nonblock)
     \/ /\ ById(tables, id) = {} /\ ~NoBlock(tables.allocator["undefin"])
        /\ OpenOn(Made(tables, "undefin", id), p, <<"undefin", Block(tables.allocator["undefin"])>>,
                  mode, nonblock)

\* If the second descriptor cannot be made, the roll back destroys a descriptor
\* that is null, or not initialised.
Pipe_mk(p) ==
  /\ Issues(p)
  /\ tables.last_fd[p] < LastFd
  /\ ~NoBlock(tables.allocator["fifo"])            \* else DSOS_ENOMEM
  /\ LET k == Made(tables, "fifo", Anonymous)
         r == <<"fifo", Block(tables.allocator["fifo"])>>
         reader == Counted(Descriptor_mk(k, p, r, "RDONLY"), r, "RDONLY", 1)
     IN \/ /\ ~MakesDescriptor(k, p)
           /\ Answer(Resource_destroy(Descriptor_mk(k, p, r, "RDONLY"), r))
        \/ MakesDescriptor(k, p) /\ ~MakesDescriptor(reader, p) /\ Dies
        \/ /\ MakesDescriptor(k, p) /\ MakesDescriptor(reader, p)
           /\ Answer(Counted(Descriptor_mk(reader, p, r, "WRONLY"), r, "WRONLY", 1))

Resource_close(p, fd) ==
  /\ Issues(p)
  /\ ByFd(tables, p, fd) # 0                       \* else DSOS_EBADFD
  /\ Answer(Closed(tables, tables.descriptors[p][ByFd(tables, p, fd)]))

Resource_unlink(p, id) ==
  /\ Issues(p)
  /\ \E r \in ById(tables, id) :
       Answer(Resource_destroy([tables EXCEPT !.resource[r].unlinked = TRUE,
                                              !.resources_list = @ \ {r}], r))

\* The loop of internal_spawn_withfd: the child's copies of the descriptors.
Clone_Uncounted(k, child, d) ==
  LET x == k.descriptor[d] IN Attached(k, child, x.fd, x.resource, x.mode)

Clone(k, child, d) ==
  LET x == k.descriptor[d]
  IN Counted(Attached(k, child, x.fd, x.resource, x.mode), x.resource, x.mode, 1)

Cloned(k, child, ds) ==
  LET after[i \in 0..Len(ds)] == IF i = 0 THEN k ELSE Clone(after[i - 1], child, ds[i])
  IN after[Len(ds)]

FdOfClone_Fresh(p) == 0
FdOfClone(p) == tables.last_fd[p]

\* A spawn that cannot clone every descriptor kills the kernel.
spawn_withfd(p, child) ==
  /\ Issues(p) /\ child \notin alive
  /\ LET own == tables.descriptors[p] IN
     \/ /\ \/ Len(own) > tables.descriptor_allocator.size
           \/ Len(own) > tables.descriptor_ptr_allocator.size
        /\ Dies
     \/ /\ Len(own) <= tables.descriptor_allocator.size
        /\ Len(own) <= tables.descriptor_ptr_allocator.size
        /\ tables' = [Cloned(tables, child, own) EXCEPT !.last_fd[child] = FdOfClone(p)]
        /\ alive' = alive \cup {child}
        /\ UNCHANGED panic

spawn(p, child) ==
  /\ Issues(p) /\ child \notin alive
  /\ alive' = alive \cup {child}
  /\ UNCHANGED <<tables, panic>>

\* internal_exit closes every descriptor of the process.
Exited_Leaking(p) == [tables EXCEPT !.descriptors[p] = <<>>]
Exited(p) ==
  LET own == tables.descriptors[p]
      after[i \in 0..Len(own)] == IF i = 0 THEN tables ELSE Closed(after[i - 1], own[i])
  IN after[Len(own)]

exit(p) ==
  /\ Issues(p) /\ p # Init_pcb
  /\ tables' = [Exited(p) EXCEPT !.last_fd[p] = 0]
  /\ alive' = alive \ {p}
  /\ UNCHANGED panic

-----------------------------------------------------------------------------
\* Descriptor_init, Resource_init, Ipc_init and Fifo_init, and PCB_init.
Init ==
  /\ tables = [descriptor_allocator     |-> PoolAllocator_init(NumDescriptors),
               descriptor_ptr_allocator |-> PoolAllocator_init(NumDescriptors),
               descriptor     |-> [d \in Descriptors |-> NoDescriptor],
               descriptor_ptr |-> [q \in Descriptors |-> -1],
               descriptors    |-> [p \in Pcbs |-> <<>>],
               last_fd        |-> [p \in Pcbs |-> 0],
               allocator      |-> [kind \in Kinds |-> PoolAllocator_init(NumOf[kind])],
               resource       |-> [r \in Resources |-> NewResource(Anonymous)],
               resources_list |-> {}]
  /\ alive = {Init_pcb}
  /\ panic = FALSE

Next ==
  \E p \in Pcbs :
    \/ \E id \in Ids :
         \/ Resource_mk(p, id) \/ Fifo_mk(p, id)
         \/ \E mode \in Modes, nonblock \in BOOLEAN : Resource_open(p, id, mode, nonblock)
         \/ Resource_unlink(p, id)
    \/ Pipe_mk(p)
    \/ \E fd \in 0..LastFd : Resource_close(p, fd)
    \/ \E child \in Others : spawn_withfd(p, child) \/ spawn(p, child)
    \/ exit(p)

Spec == Init /\ [][Next]_vars

-----------------------------------------------------------------------------
(* Properties.                                                             *)

InUse == Detached(tables.descriptor_allocator)
InUseOf(kind) == {<<kind, i>> : i \in Detached(tables.allocator[kind])}

\* Every table has its type and every pool a well formed free list.
DescriptorsTypeOK ==
  /\ \A a \in {tables.descriptor_allocator, tables.descriptor_ptr_allocator}
               \cup {tables.allocator[kind] : kind \in Kinds} : WellFormed(a)
  /\ tables.descriptor \in
       [Descriptors -> [fd : -1..LastFd, resource : Resources \cup {<<>>}, pcb : Pcbs,
                        mode : {"RDONLY", "WRONLY", "RDWR"}, ptr : Descriptors \cup {-1}]]
  /\ tables.descriptor_ptr \in [Descriptors -> Descriptors \cup {-1}]
  /\ tables.descriptors \in [Pcbs -> Seq(Descriptors)]
  /\ tables.resource \in
       [Resources -> [id : Ids \cup {Anonymous}, unlinked : BOOLEAN,
                      descriptors_ptrs : Seq(Descriptors), readers_number : Int,
                      writers_number : Int]]
  /\ tables.resources_list \subseteq Resources
  /\ alive \subseteq Pcbs /\ panic \in BOOLEAN

\* A descriptor is in use exactly while it is on the list of its process, and
\* its pointer exactly while it is on the list of its resource: no list holds a
\* freed block and no block is lost.  In particular one pool is never empty
\* before the other, which the failure path of Descriptor_mk would not survive.
ListsAgree ==
  /\ \A p \in Pcbs :
       /\ IsInjective(tables.descriptors[p])
       /\ ToSet(tables.descriptors[p]) = {d \in InUse : tables.descriptor[d].pcb = p}
       /\ p \notin alive => tables.descriptors[p] = <<>>
  /\ \A r \in Resources :
       /\ IsInjective(tables.resource[r].descriptors_ptrs)
       /\ ToSet(tables.resource[r].descriptors_ptrs) =
            {tables.descriptor[d].ptr : d \in {d \in InUse : tables.descriptor[d].resource = r}}
  /\ \A d \in InUse : tables.descriptor_ptr[tables.descriptor[d].ptr] = d
  /\ Detached(tables.descriptor_ptr_allocator) = {tables.descriptor[d].ptr : d \in InUse}

\* A resource is freed exactly when it is unlinked and nobody has it open: no
\* descriptor points to a freed resource and none is lost.  Two resources on
\* resources_list never have the same id.
FreedWhenUnused ==
  /\ \A kind \in Kinds :
       InUseOf(kind) = {r \in Resources :
                          /\ r[1] = kind
                          /\ \/ r \in tables.resources_list
                             \/ \E d \in InUse : tables.descriptor[d].resource = r}
  /\ \A r \in tables.resources_list : ~tables.resource[r].unlinked
  /\ \A r, s \in tables.resources_list : tables.resource[r].id = tables.resource[s].id => r = s

\* A fifo's counters count the descriptors of every process that inherited,
\* opened or got them from mkpipe, until they are closed or their process exits.
CountersFollow ==
  \A r \in InUseOf("fifo") :
    LET opened(mode) == {d \in InUse : tables.descriptor[d].resource = r
                                       /\ tables.descriptor[d].mode = mode}
    IN /\ tables.resource[r].readers_number = Cardinality(opened("RDONLY"))
       /\ tables.resource[r].writers_number = Cardinality(opened("WRONLY"))

\* A file descriptor names one descriptor of its process, also after some came
\* with the process and others were opened by it.
FdsUnique ==
  \A d, e \in InUse :
    /\ tables.descriptor[d].pcb = tables.descriptor[e].pcb
    /\ tables.descriptor[d].fd = tables.descriptor[e].fd
    => d = e

\* The kernel dies only if the descriptors of the living really leave too few
\* for a spawn or a pipe, or a process makes a pipe one below its limit: whoever
\* exits gives all of its descriptors back.  That it dies then is not excluded.
DiesOnlyFull ==
  panic =>
    LET held == Cardinality(UNION {ToSet(tables.descriptors[p]) : p \in alive})
    IN \E p \in alive :
         \/ held + Len(tables.descriptors[p]) > NumDescriptors
         \/ held + 1 = NumDescriptors
         \/ Len(tables.descriptors[p]) + 1 = MaxPerProcess
================================================================================
