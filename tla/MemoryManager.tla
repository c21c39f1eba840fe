---------------------------- MODULE MemoryManager ----------------------------
(***************************************************************************)
(* src/mem: MemoryManager over CPUAllocator, VulkanAllocator, the two      *)
(* MemoryPools, TransferManager and EvictionPolicy.  Every operation runs  *)
(* under MemoryManager::mutex_.                                            *)
(*                                                                         *)
(* A MemoryBlock is its id, its kind (a pooled size or another one), its   *)
(* location and its priority.  The memory behind it is what the allocator  *)
(* of the location has recorded under the id.  Both allocators count ids   *)
(* from 1, and activeBlocks_ is keyed by the id alone.  ResidencyManager   *)
(* (times of use, which candidates for eviction have all just had reset),  *)
(* statistics and the bytes themselves are left out.                       *)
(***************************************************************************)
EXTENDS Integers, Sequences, FiniteSets

CONSTANTS
    Locations,      \* a subset of {"CPU", "GPU"}: where blocks are asked for
    Kinds,          \* a subset of {"pool", "other"}: pooled size, any other size
    Priorities,     \* a subset of MemoryPriority
    Slots,          \* MemoryBlock handles that callers hold
    MaxFree,        \* maxFree_ of a pool
    EvictCount,     \* how many blocks enforcePressureLimits evicts
    MaxId           \* bound: allocations of an allocator

ASSUME MemoryAssumption ==
    /\ Locations \subseteq {"CPU", "GPU"}
    /\ Kinds \subseteq {"pool", "other"}
    /\ Priorities \subseteq {"LOW", "NORMAL", "HIGH", "CRITICAL"}
    /\ MaxFree \in Nat /\ EvictCount \in Nat /\ MaxId \in Nat

Places == {"CPU", "GPU"}

\* MemoryBlock{}.
NoBlock == [id |-> 0, kind |-> "none", loc |-> "CPU", pri |-> "NORMAL"]

VARIABLES
    mem,        \* per location: records_, nextId_ and the pool's freeList_
    active,     \* activeBlocks_
    held,       \* the callers' handles
    toEvict     \* the ids that enforcePressureLimits, which holds mutex_, has still to drop

managerVars == <<mem, active, held, toEvict>>

ManagerInit ==
    /\ mem = [l \in Places |-> [records |-> {}, next |-> 1, free |-> <<>>]]
    /\ active = <<>>
    /\ held = [s \in Slots |-> NoBlock]
    /\ toEvict = <<>>

FreeIds(l) == {mem[l].free[i] : i \in DOMAIN mem[l].free}

-----------------------------------------------------------------------------
(* The allocators and the pools: what they make of the part m of a location.*)

\* CPUAllocator::allocate, VulkanAllocator::allocate.
Fresh(m) == [m EXCEPT !.records = @ \cup {m.next}, !.next = @ + 1]

\* allocateInternal: the last block of the free list, a new one, or failure
\* (id 0).  A request of size 0 fails.
allocateInternal(m, kind) ==
    IF kind = "pool" /\ m.free # <<>>
    THEN {[m |-> [m EXCEPT !.free = SubSeq(@, 1, Len(@) - 1)], id |-> m.free[Len(m.free)]]}
    ELSE {[m |-> m, id |-> 0]} \cup
         (IF kind # "none" /\ m.next <= MaxId THEN {[m |-> Fresh(m), id |-> m.next]} ELSE {})

\* freeInternal: to the free list, if the size is pooled and the list is not
\* full, else to the allocator.  The caller sets the block to MemoryBlock{}.
freeInternal(m, b) ==
    IF b.id = 0 THEN m
    ELSE IF b.kind = "pool" /\ Len(m.free) < MaxFree THEN [m EXCEPT !.free = Append(@, b.id)]
    ELSE [m EXCEPT !.records = @ \ {b.id}]

\* activeBlocks_[block.id] = block.
Enter(b) == [i \in DOMAIN active \cup {b.id} |-> IF i = b.id THEN b ELSE active[i]]

\* The entry under an id, if there is one, is freed and erased.
Drop(i) ==
    IF i \in DOMAIN active
    THEN /\ mem' = [mem EXCEPT ![active[i].loc] = freeInternal(@, active[i])]
         /\ active' = [j \in DOMAIN active \ {i} |-> active[j]]
    ELSE UNCHANGED <<mem, active>>

-----------------------------------------------------------------------------
\* allocate: a GPU request that fails is retried on the CPU.
allocate(s, kind, preferred, pri) ==
    /\ held[s].id = 0
    /\ UNCHANGED toEvict
    /\ \E o \in allocateInternal(mem[preferred], kind) :
          IF o.id # 0
          THEN LET b == [id |-> o.id, kind |-> kind, loc |-> preferred, pri |-> pri] IN
               /\ mem' = [mem EXCEPT ![preferred] = o.m]
               /\ active' = Enter(b)
               /\ held' = [held EXCEPT ![s] = b]
          ELSE /\ preferred = "GPU"
               /\ \E c \in allocateInternal(mem["CPU"], kind) :
                     LET b == [id |-> c.id, kind |-> kind, loc |-> "CPU", pri |-> pri] IN
                     /\ c.id # 0
                     /\ mem' = [mem EXCEPT !["CPU"] = c.m]
                     /\ active' = Enter(b)
                     /\ held' = [held EXCEPT ![s] = b]

\* release: what is freed is the entry under the id of the handle.
release(s) ==
    /\ held[s].id # 0
    /\ Drop(held[s].id)
    /\ held' = [held EXCEPT ![s] = NoBlock]
    /\ UNCHANGED toEvict

\* A move goes on if the entry is on the other side of its destination.
Movable(s, d) ==
    /\ held[s].id \in DOMAIN active /\ held[s].loc # d
    /\ active[held[s].id].loc # d

\* Mutant: the transfer fails and the new block is kept.
MoveFailsKeeps(s, d) ==
    /\ Movable(s, d)
    /\ \E o \in allocateInternal(mem[d], active[held[s].id].kind) : mem' = [mem EXCEPT ![d] = o.m]
    /\ UNCHANGED <<active, held, toEvict>>

\* The new block, or the transfer, fails: the new block is freed again.
MoveFails(s, d) ==
    LET b == active[held[s].id] IN
    /\ Movable(s, d)
    /\ \E o \in allocateInternal(mem[d], b.kind) :
          mem' = [mem EXCEPT ![d] = freeInternal(o.m, [NoBlock EXCEPT !.id = o.id, !.kind = b.kind])]
    /\ UNCHANGED <<active, held, toEvict>>

\* The old memory is freed through the entry itself, which makes it
\* MemoryBlock{}; its location and memory are set after that, and the
\* handle becomes a copy of it.
MoveSucceeds(s, d) ==
    LET i == held[s].id
        b == active[i]
        moved == [NoBlock EXCEPT !.loc = d] IN
    /\ Movable(s, d)
    /\ \E o \in allocateInternal(mem[d], b.kind) :
          /\ o.id # 0
          /\ mem' = [mem EXCEPT ![d] = o.m, ![b.loc] = freeInternal(@, b)]
    /\ active' = [active EXCEPT ![i] = moved]
    /\ held' = [held EXCEPT ![s] = moved]
    /\ UNCHANGED toEvict

\* selectForEviction: candidates are on the GPU; CRITICAL ones are skipped.
Evictable == {i \in DOMAIN active : active[i].loc = "GPU" /\ active[i].pri # "CRITICAL"}

\* scoreBlock.  An entry whose block lost its id has no time of use: it
\* counts as old, which puts it before the NORMAL blocks it is one of.
scoreBlock(b) ==
    CASE b.pri = "LOW" -> 0
      [] b.pri = "NORMAL" -> IF b.id = 0 THEN 1 ELSE 2
      [] b.pri = "HIGH" -> 3
      [] OTHER -> 4

\* As many as asked for, the lowest scores first, equal ones in any order.
selectForEviction ==
    LET n == IF Cardinality(Evictable) < EvictCount THEN Cardinality(Evictable) ELSE EvictCount
        score(i) == scoreBlock(active[i])
    IN  {q \in [1..n -> Evictable] :
            /\ \A a, b \in 1..n : a < b => q[a] # q[b] /\ score(q[a]) <= score(q[b])
            /\ \A a \in 1..n, j \in Evictable \ {q[k] : k \in 1..n} : score(q[a]) <= score(j)}

\* enforcePressureLimits, under pressure.  What is selected are the ids in
\* the blocks: an entry whose block has lost its id is selected by id 0.
enforcePressureLimits ==
    /\ \E q \in selectForEviction : toEvict' = [k \in DOMAIN q |-> active[q[k]].id]
    /\ UNCHANGED <<mem, active, held>>

\* One turn of its loop: the block is dropped, whoever holds a handle.
evictNext ==
    /\ toEvict # <<>>
    /\ Drop(Head(toEvict))
    /\ toEvict' = Tail(toEvict)
    /\ UNCHANGED held

\* The operations hold mutex_ from their beginning to their end.
Operation ==
    \/ \E s \in Slots, k \in Kinds, l \in Locations, p \in Priorities : allocate(s, k, l, p)
    \/ \E s \in Slots : release(s)
    \/ \E s \in Slots, d \in Locations : MoveFails(s, d) \/ MoveSucceeds(s, d)
    \/ enforcePressureLimits

ManagerNext == (toEvict = <<>> /\ Operation) \/ evictNext

ManagerSpec == ManagerInit /\ [][ManagerNext]_managerVars

-----------------------------------------------------------------------------
(* Properties.                                                              *)

\* An entry with a block stands for memory that is allocated and not in the
\* free list, and a free list holds distinct allocated blocks, at most maxFree_
\* of them: nothing is freed twice, nothing is handed out while an entry has it.
EntriesBacked ==
    /\ \A i \in DOMAIN active :
          active[i].id # 0 =>
              /\ active[i].id = i
              /\ i \in mem[active[i].loc].records \ FreeIds(active[i].loc)
    /\ \A l \in Places :
          /\ Len(mem[l].free) <= MaxFree
          /\ FreeIds(l) \subseteq mem[l].records
          /\ \A j, k \in DOMAIN mem[l].free : mem[l].free[j] = mem[l].free[k] => j = k

\* The memory of a location that is handed out, and the part of it that an
\* entry stands for: the rest has no owner and is never freed.
Used(l) == mem[l].records \ FreeIds(l)
Owned(l) == {i \in DOMAIN active : active[i].id = i /\ active[i].loc = l}

\* The entry under the id of a handle is for memory where the handle says.
Valid(s) == held[s].id \in Owned(held[s].loc)

\* A step in which an allocation of the other allocator overwrites the entry i
\* of l, or in which a block arrives by a move: its entry has id 0.
Overwritten(i, l) == i \in Owned(l) /\ i \in DOMAIN active' /\ active'[i].id = i /\ active'[i].loc # l
Arrived(l) ==
    \E s \in Slots :
        /\ held[s].id # 0 /\ held[s].loc # l /\ held'[s] = [NoBlock EXCEPT !.loc = l]
        /\ held[s].id \in DOMAIN active' /\ active'[held[s].id] = held'[s]

\* Memory is given back only through its own entry, which goes with it, and is
\* left without an owner only in these two cases: by no failure, fallback,
\* release or eviction.
MemoryKept(l) ==
    /\ Used(l) \ Used(l)' \subseteq Owned(l) \ Owned(l)'
    /\ \A i \in Used(l)' \ Owned(l)' :
          i \notin Used(l) \ Owned(l) => Overwritten(i, l) \/ Arrived(l)

\* A handle becomes invalid, unless it is released or moved itself, only by an
\* eviction of its id or by what is done with another handle of an equal id.
HandleKept(s) ==
    Valid(s) /\ ~Valid(s)' =>
        \/ held'[s] # held[s]
        \/ toEvict # <<>> /\ Head(toEvict) = held[s].id
        \/ \E u \in Slots \ {s} :
              held'[u] # held[u] /\ held[s].id \in {held[u].id, held'[u].id}

\* What activeBlocks_ is worth as the record of who owns which memory.  Its
\* entries are backed, and memory and handles lose their entry only as said:
\* the two cases in which that goes wrong, and no others, are excepted.
MemoryHasOwner ==
    /\ []EntriesBacked
    /\ [][ \A l \in Places : MemoryKept(l) ]_managerVars
    /\ [][ \A s \in Slots : HandleKept(s) ]_managerVars

=============================================================================
