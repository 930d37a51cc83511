---------------------------- MODULE PagedAllocator ----------------------------
(***************************************************************************)
(* The paging allocator of lab8/mm_paging.cpp: the free pages and the      *)
(* allocated ones in two lists, both sorted by address after each create   *)
(* and each kill.  Pages are numbered; page n starts at n * page_size.     *)
(*                                                                         *)
(* Both lists get nodes whose next field is never set.  This program never *)
(* calls free, so malloc hands out memory not used before and the field    *)
(* reads as NULL.                                                          *)
(***************************************************************************)
EXTENDS Integers, Sequences, SequencesExt

CONSTANTS
    PageSize,       \* page_size
    DefaultMem,     \* DEFAULT_MEM_SIZE
    MemSizes,       \* bound: memory sizes a user sets
    Sizes,          \* bound: process sizes a user asks for
    MaxPid          \* bound: creates

VARIABLES
    flag, page_flag, pid,
    free,           \* the page numbers from free_block_head
    allocated       \* the list from allocated_block_head: pid and page

vars == <<flag, page_flag, pid, free, allocated>>

PagesFor(size) == size \div PageSize + IF size % PageSize # 0 THEN 1 ELSE 0

init_free_block(size) == [i \in 1 .. PagesFor(size) |-> i - 1]

Init ==
    /\ flag = FALSE /\ page_flag = FALSE /\ pid = 0
    /\ free = init_free_block(DefaultMem) /\ allocated = <<>>

set_mem_size(size) ==
    /\ ~flag
    /\ flag' = TRUE /\ page_flag' = TRUE
    /\ free' = init_free_block(size)
    /\ UNCHANGED <<pid, allocated>>

\* Takes a size, says that it has been set, and does not set it.  One that is
\* not positive is refused and leaves page_flag alone.
set_page_size ==
    /\ flag' = TRUE /\ page_flag' \in {page_flag, TRUE}
    /\ UNCHANGED <<pid, free, allocated>>

\* New entries go behind the head of a list.
BehindHead(list, new) == IF list = <<>> THEN new ELSE <<Head(list)>> \o new \o Tail(list)

rearrangeFree(list) == SortSeq(list, LAMBDA a, b : a < b)
rearrangeAllocated(list) == SortSeq(list, LAMBDA a, b : a.page < b.page)

\* create_new_process and allocate_mem: the first pages of the free list.
Create(size) ==
    /\ pid < MaxPid
    /\ LET cnt == PagesFor(size)
           new == [i \in 1 .. cnt |-> [pid |-> pid + 1, page |-> free[i]]]
       IN  /\ cnt <= Len(free)
           /\ allocated' = rearrangeAllocated(BehindHead(allocated, new))
           /\ free' = rearrangeFree(SubSeq(free, cnt + 1, Len(free)))
    /\ flag' = TRUE
    /\ pid' = pid + 1
    /\ UNCHANGED page_flag

CreateFails(size) ==
    /\ pid < MaxPid
    /\ PagesFor(size) > Len(free)
    /\ flag' = TRUE
    /\ pid' = pid + 1
    /\ UNCHANGED <<page_flag, free, allocated>>

\* The walk of free_mem over the nodes of the list, numbered from 1, with 0 for
\* NULL.  pre is the node before tmp until the head is taken off: it then stays
\* on the removed node, and is one behind from there on.
Walk(id) ==
    LET n == Len(allocated)
    IN  FoldLeftDomain(
            LAMBDA acc, tmp :
                IF allocated[tmp].pid = id
                THEN IF tmp = acc.head
                     THEN [acc EXCEPT !.head = acc.next[tmp],
                                      !.recorder = Append(acc.recorder, tmp)]
                     ELSE [acc EXCEPT !.next = [k \in 1 .. n |->
                                          IF k = acc.pre THEN acc.next[tmp] ELSE acc.next[k]],
                                      !.recorder = Append(acc.recorder, tmp)]
                ELSE IF tmp # acc.head THEN [acc EXCEPT !.pre = acc.next[acc.pre]]
                ELSE acc,
            [head |-> IF n = 0 THEN 0 ELSE 1, pre |-> 1, recorder |-> <<>>,
             next |-> [k \in 1 .. n |-> IF k = n THEN 0 ELSE k + 1]],
            allocated)

\* The nodes reached from a node.
NodesFrom(next, node) ==
    LET from[k \in 0 .. Len(allocated)] == IF k = 0 THEN <<>> ELSE <<k>> \o from[next[k]]
    IN  from[node]

kill_process(id) ==
    LET walk == Walk(id)
        nodes == NodesFrom(walk.next, walk.head)
        freed == [i \in DOMAIN walk.recorder |-> allocated[walk.recorder[i]].page]
    IN  /\ walk.recorder # <<>>
        /\ free' = rearrangeFree(BehindHead(free, freed))
        /\ allocated' = rearrangeAllocated([i \in DOMAIN nodes |-> allocated[nodes[i]]])
        /\ flag' = TRUE
        /\ UNCHANGED <<page_flag, pid>>

Next ==
    \/ \E size \in MemSizes : set_mem_size(size)
    \/ set_page_size
    \/ \E size \in Sizes : Create(size) \/ CreateFails(size)
    \/ \E id \in 1 .. MaxPid : kill_process(id)

Spec == Init /\ [][Next]_vars

\* Killing a process frees its space and its structs (mm_paging.cpp, line 44): it
\* then has no page, and no page that was freed is still allocated.
KillReleasesPages ==
    [][\A id \in 1 .. MaxPid : kill_process(id) =>
        \A i \in DOMAIN allocated' :
            allocated'[i].pid # id /\ ~Contains(free', allocated'[i].page)]_vars

=============================================================================
