-------------------------- MODULE ContiguousAllocator --------------------------
(***************************************************************************)
(* The memory allocator of lab8/mm.cpp: a list of free blocks and a list   *)
(* of allocated ones, first, best or worst fit, and a rearrange after each *)
(* kill that sorts the free list and merges neighbours in one pass.        *)
(*                                                                         *)
(* insert_allocated reads the next field of a node fresh from malloc when  *)
(* the list is empty.  It is NULL in memory never used before.  A struct   *)
(* that a kill freed and malloc gives out again still holds its old next   *)
(* pointer; that leads to a struct with an old address only when a create  *)
(* that found no space took, and never returned, the struct on the other   *)
(* end.  The new node is then linked to itself, and the next walk over the *)
(* list does not end: looped.                                              *)
(***************************************************************************)
EXTENDS Integers, Sequences, SequencesExt, FiniteSets, FiniteSetsExt

CONSTANTS
    DefaultMem,     \* DEFAULT_MEM_SIZE
    MemSizes,       \* bound: memory sizes a user sets
    Sizes,          \* bound: process sizes a user asks for
    MaxPid          \* bound: creates

ASSUME AllocatorAssumption ==
    DefaultMem \in Nat /\ MemSizes \subseteq Nat /\ Sizes \subseteq Nat \ {0} /\ MaxPid \in Nat

VARIABLES
    mem_size, flag, func, pid,      \* the variables of mm.cpp
    free,           \* the list from free_block_head: start and size
    allocs,         \* the list from allocated_block_head: pid, start and size
    killed,         \* a struct allocated_block has been freed
    leaked,         \* a create that failed has kept such a struct
    looped          \* the allocated list has become a cycle

vars == <<mem_size, flag, func, pid, free, allocs, killed, leaked, looped>>

Block(start, size) == [start |-> start, size |-> size]

init_free_block(size) == <<Block(0, size)>>

Init ==
    /\ mem_size = DefaultMem /\ flag = FALSE /\ func = "first_fit" /\ pid = 0
    /\ free = init_free_block(DefaultMem) /\ allocs = <<>>
    /\ killed = FALSE /\ leaked = FALSE /\ looped = FALSE

-----------------------------------------------------------------------------
(* Choosing a block.                                                       *)

Fits(size) == {i \in DOMAIN free : free[i].size >= size}

first_fit(size) == Min(Fits(size))
best_fit(size) ==
    CHOOSE i \in Fits(size) : \A k \in Fits(size) :
        free[i].size < free[k].size \/ (free[i].size = free[k].size /\ i <= k)
worst_fit(size) ==
    CHOOSE i \in Fits(size) : \A k \in Fits(size) :
        free[i].size > free[k].size \/ (free[i].size = free[k].size /\ i <= k)

Chosen(size) ==
    CASE func = "first_fit" -> first_fit(size)
      [] func = "best_fit" -> best_fit(size)
      [] func = "worst_fit" -> worst_fit(size)

-----------------------------------------------------------------------------
(* The operations of the menu.                                             *)

set_mem_size(size) ==
    /\ ~flag
    /\ flag' = TRUE
    /\ mem_size' = size
    /\ free' = init_free_block(size)
    /\ UNCHANGED <<func, pid, allocs, killed, leaked, looped>>

Usemy_algo(f) ==
    /\ flag' = TRUE
    /\ func' = f
    /\ UNCHANGED <<mem_size, pid, free, allocs, killed, leaked, looped>>

\* Before the first block with a higher address, or at the end.
insert_allocated(b) ==
    LET higher == {i \in DOMAIN allocs : allocs[i].start > b.start}
    IN  InsertAt(allocs, IF higher = {} THEN Len(allocs) + 1 ELSE Min(higher), b)

\* The free list once size is taken from block i, leaving a remainder where
\* the block began.
TakenShort(i, size) ==
    LET b == free[i]
    IN  IF b.size = size THEN RemoveAt(free, i)
        ELSE [k \in DOMAIN free |-> IF k = i THEN Block(b.start, b.size - size) ELSE free[k]]

\* The free list once size is taken from the front of block i.
Taken(i, size) ==
    LET b == free[i]
    IN  IF b.size = size THEN RemoveAt(free, i)
        ELSE [k \in DOMAIN free |->
                IF k = i THEN Block(b.start + size, b.size - size) ELSE free[k]]

\* create_new_process, with a size allocate_mem finds a block for.
Create(size) ==
    /\ ~looped /\ pid < MaxPid
    /\ Fits(size) # {}
    /\ LET i == Chosen(size)
       IN  /\ free' = Taken(i, size)
           /\ allocs' = insert_allocated(
                [pid |-> pid + 1, start |-> free[i].start, size |-> size])
    /\ looped' \in {FALSE, leaked /\ allocs = <<>>}
    /\ flag' = TRUE
    /\ pid' = pid + 1
    /\ UNCHANGED <<mem_size, func, killed, leaked>>

\* The same when there is none: the pid and the struct are lost.
CreateFails(size) ==
    /\ ~looped /\ pid < MaxPid
    /\ Fits(size) = {}
    /\ leaked' = killed
    /\ flag' = TRUE
    /\ pid' = pid + 1
    /\ UNCHANGED <<mem_size, func, free, allocs, killed, looped>>

\* A display, a size that is not positive, or the kill of an unknown process.
NoEffect ==
    /\ ~looped
    /\ flag' = TRUE
    /\ UNCHANGED <<mem_size, func, pid, free, allocs, killed, leaked, looped>>

\* The two loops that sort: block i is compared with each that follows it.
Exchanged(f, i, k) ==
    IF f[k].start < f[i].start THEN [f EXCEPT ![i] = f[k], ![k] = f[i]] ELSE f

Exchanges(f, i) ==
    LET turn[k \in 0 .. Len(f) - i] ==
            IF k = 0 THEN f ELSE Exchanged(turn[k - 1], i, i + k)
    IN  turn[Len(f) - i]

SortByAddress(f) ==
    LET turn[i \in 0 .. Len(f)] == IF i = 0 THEN f ELSE Exchanges(turn[i - 1], i)
    IN  turn[Len(f)]

\* A turn of the loop that merges: out are the blocks so far, and skip is
\* whether the last of them has just taken in its neighbour; it is then left
\* behind without being compared with b, the one that follows.
MergeTurn(out, skip, b) ==
    LET n == Len(out)
    IN  IF n > 0 /\ ~skip /\ out[n].start + out[n].size = b.start
        THEN [out |-> [out EXCEPT ![n] = Block(out[n].start, out[n].size + b.size)],
              skip |-> TRUE]
        ELSE [out |-> Append(out, b), skip |-> FALSE]

MergePass(f) ==
    LET turn[i \in 0 .. Len(f)] ==
            IF i = 0 THEN [out |-> <<>>, skip |-> FALSE]
            ELSE MergeTurn(turn[i - 1].out, turn[i - 1].skip, f[i])
    IN  turn[Len(f)].out

\* Merges without sorting first.
rearrangeUnsorted(f) == MergePass(f)
rearrange(f) == MergePass(SortByAddress(f))

\* free_mem: the block goes behind the head of the free list, then rearrange;
\* an empty list just gets it.
Freed(new) == IF free = <<>> THEN <<new>> ELSE rearrange(InsertAt(free, 2, new))

\* free_mem and dispose, once find_process has found p.
kill_process(p) ==
    /\ ~looped
    /\ \E i \in DOMAIN allocs :
        /\ allocs[i].pid = p
        /\ free' = Freed(Block(allocs[i].start, allocs[i].size))
        /\ allocs' = RemoveAt(allocs, i)
    /\ killed' = TRUE
    /\ flag' = TRUE
    /\ UNCHANGED <<mem_size, func, pid, leaked, looped>>

Next ==
    \/ NoEffect
    \/ \E size \in MemSizes : set_mem_size(size)
    \/ \E f \in {"first_fit", "best_fit", "worst_fit"} : Usemy_algo(f)
    \/ \E size \in Sizes : Create(size) \/ CreateFails(size)
    \/ \E p \in 1 .. MaxPid : kill_process(p)

Spec == Init /\ [][Next]_vars

-----------------------------------------------------------------------------
(* Properties.                                                             *)

Covers(b, address) == b.start <= address /\ address < b.start + b.size

\* No byte is lost or given out twice, whatever is created and killed and with
\* which algorithm: each address belongs to one block of one of the two lists,
\* and the allocated list is in order of address.
MemoryTiled ==
    LET Holders(list, address) == {i \in DOMAIN list : Covers(list[i], address)}
    IN  /\ \A address \in 0 .. mem_size - 1 :
            Cardinality(Holders(free, address)) + Cardinality(Holders(allocs, address)) = 1
        /\ \A i, k \in DOMAIN allocs : i < k => allocs[i].start < allocs[k].start

\* rearrange merges in one pass and so misses a neighbour, but never more than
\* one: at any time at most two free blocks touch, and the free space between
\* two processes is in at most two pieces.
AtMostOneSeam ==
    Cardinality({seam \in Range(free) \X Range(free) :
                    /\ seam[1].size > 0
                    /\ seam[1].start + seam[1].size = seam[2].start}) <= 1

=============================================================================
