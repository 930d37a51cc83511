-------------------------------- MODULE Inode --------------------------------
(***************************************************************************)
(* Indexed inodes and the free map of pintos_pro3/src/filesys (inode.c and *)
(* free-map.c): the sectors a file of a given length gets, how a position  *)
(* finds its sector, how a write makes a file grow and how removal gives   *)
(* the sectors back.  Everything here is an operator on a volume: calls    *)
(* run under filesys_lock, and what a shutdown in the middle of one leaves *)
(* is described by the volumes of its parts.                               *)
(*                                                                         *)
(* A volume is a record: used is the set of sectors the free map marks,    *)
(* disk what the sectors hold, full becomes TRUE once free_map_allocate    *)
(* has failed inside inode.c (which ignores the failure) and failed is the *)
(* set of assertions that did not hold.  The bytes of files are not        *)
(* represented: a sector of file data holds the zeros of its allocation.   *)
(* Nor is the bitmap's own file, which every change of used rewrites.      *)
(***************************************************************************)
EXTENDS Integers, Sequences, FiniteSets, SequencesExt, FiniteSetsExt

CONSTANTS
    SectorCount,                \* size of the file system device
    BLOCK_SECTOR_SIZE,
    DIRECT_INDEX_NUM,
    INDIRECT_INDEX_SECTOR_NUM,
    OFF_MAX                     \* the largest off_t

ASSUME SectorAssumption ==
    /\ SectorCount \in Nat /\ SectorCount > 2
    /\ BLOCK_SECTOR_SIZE \in Nat \ {0}
    /\ DIRECT_INDEX_NUM \in Nat \ {0} /\ INDIRECT_INDEX_SECTOR_NUM \in Nat \ {0}
    /\ OFF_MAX \in Nat

Sectors == 0 .. SectorCount - 1
FREE_MAP_SECTOR == 0
ROOT_DIR_SECTOR == 1

\* What a sector holds.
Zeros == [kind |-> "zeros"]
Index(blocks) == [kind |-> "index", blocks |-> blocks]
NoBlocks(n) == [i \in 1 .. n |-> 0]

\* struct inode_disk, and as calloc and inode_create leave it.
InodeDisk(length, direct, indirect, doubly) ==
    [kind |-> "inode", length |-> length, direct |-> direct,
     indirect |-> indirect, doubly |-> doubly]
NewInode(length) == InodeDisk(length, NoBlocks(DIRECT_INDEX_NUM), 0, 0)
Resized(id, length) == InodeDisk(length, id.direct, id.indirect, id.doubly)

Volume(used, disk, full, failed) ==
    [used |-> used, disk |-> disk, full |-> full, failed |-> failed]
AssertFails(v, name) == Volume(v.used, v.disk, v.full, v.failed \cup {name})

\* The index block in sector s; a sector of zeros is one without entries.
IndexAt(v, s) ==
    IF v.disk[s].kind = "index" THEN v.disk[s].blocks
    ELSE NoBlocks(INDIRECT_INDEX_SECTOR_NUM)

\* cache_write of sector s.
cache_write(v, s, content) ==
    Volume(v.used, [t \in Sectors |-> IF t = s THEN content ELSE v.disk[t]],
           v.full, v.failed)

Lesser(a, b) == IF a < b THEN a ELSE b
bytes_to_sectors(size, unit) == (size + unit - 1) \div unit

\* off_t arithmetic wraps around.
Wrap(x) ==
    IF x > OFF_MAX THEN x - 2 * (OFF_MAX + 1)
    ELSE IF x < -(OFF_MAX + 1) THEN x + 2 * (OFF_MAX + 1) ELSE x

-----------------------------------------------------------------------------
(* The free map.                                                           *)

FreeSectors(v) == Sectors \ v.used

\* bitmap_scan_and_flip for one sector: the first free one.
free_map_allocate(v) ==
    Volume(v.used \cup {Min(FreeSectors(v))}, v.disk, v.full, v.failed)

free_map_release(v, s) ==
    IF s \in v.used THEN Volume(v.used \ {s}, v.disk, v.full, v.failed)
    ELSE AssertFails(v, "free_map_release")

-----------------------------------------------------------------------------
(* Allocation.  Each operator returns the volume and the entry or blocks   *)
(* as they are afterwards.                                                 *)

\* Without the zeros a reused index block would bring its old entries along.
AllocateEntryDirty(v, e, n) ==
    IF e # 0 \/ FreeSectors(v) = {} THEN [vol |-> v, entry |-> e]
    ELSE [vol |-> free_map_allocate(v), entry |-> Min(FreeSectors(v))]

\* Level 0: an entry that is 0 gets a sector, filled with zeros.  When no
\* sector is left the entry stays 0 and the zeros go to sector 0, the inode
\* of the free map.
AllocateEntry(v, e, n) ==
    IF e # 0 THEN [vol |-> v, entry |-> e]
    ELSE IF FreeSectors(v) = {}
         THEN [vol |-> cache_write(Volume(v.used, v.disk, TRUE, v.failed), 0, Zeros),
               entry |-> 0]
    ELSE LET s == Min(FreeSectors(v))
         IN  [vol |-> cache_write(free_map_allocate(v), s, Zeros), entry |-> s]

\* The blocks once r provides for entry i.
Filled(blocks, i, r) ==
    [vol |-> r.vol,
     blocks |-> [j \in DOMAIN blocks |-> IF j = i THEN r.entry ELSE blocks[j]]]

\* A turn of the loop over blocks: n sectors, unit of them under each entry,
\* where Allocate(v, entry, m) provides for the m sectors under one entry.
AllocateTurn(acc, i, n, unit, Allocate(_, _, _)) ==
    Filled(acc.blocks, i, Allocate(acc.vol, acc.blocks[i], Lesser(unit, n - (i - 1) * unit)))

AllocateBlocks(v, blocks, n, unit, Allocate(_, _, _)) ==
    LET turn[i \in 0 .. bytes_to_sectors(n, unit)] ==
            IF i = 0 THEN [vol |-> v, blocks |-> blocks]
            ELSE AllocateTurn(turn[i - 1], i, n, unit, Allocate)
    IN  turn[bytes_to_sectors(n, unit)]

\* The last write of a level above 0: the index block in sector e.
SaveIndex(b, e) == [vol |-> cache_write(b.vol, e, Index(b.blocks)), entry |-> e]

\* Levels 1 and 2, given a, the allocation of the index block itself.
AllocateUnder(a, n, unit, Allocate(_, _, _)) ==
    SaveIndex(AllocateBlocks(a.vol, IndexAt(a.vol, a.entry), n, unit, Allocate), a.entry)

AllocateIndirect(v, e, n) ==
    IF n = 0 THEN [vol |-> v, entry |-> e]
    ELSE AllocateUnder(AllocateEntry(v, e, n), n, 1, AllocateEntry)

AllocateDoubly(v, e, n) ==
    IF n = 0 THEN [vol |-> v, entry |-> e]
    ELSE AllocateUnder(AllocateEntry(v, e, n), n, INDIRECT_INDEX_SECTOR_NUM, AllocateIndirect)

\* How the n sectors of a file divide over the three kinds of index.
DoublyNum == INDIRECT_INDEX_SECTOR_NUM * INDIRECT_INDEX_SECTOR_NUM
Capacity == DIRECT_INDEX_NUM + INDIRECT_INDEX_SECTOR_NUM + DoublyNum
DirectPart(n) == Lesser(n, DIRECT_INDEX_NUM)
IndirectPart(n) == Lesser(n - DirectPart(n), INDIRECT_INDEX_SECTOR_NUM)
DoublyPart(n) == Lesser(n - DirectPart(n) - IndirectPart(n), DoublyNum)

\* The parts of inode_allocate: the volume and the inode after each.
Direct(a, id) == [vol |-> a.vol, id |-> InodeDisk(id.length, a.blocks, id.indirect, id.doubly)]
Indirect(a, id) == [vol |-> a.vol, id |-> InodeDisk(id.length, id.direct, a.entry, id.doubly)]
Doubly(a, id) == [vol |-> a.vol, id |-> InodeDisk(id.length, id.direct, id.indirect, a.entry)]

DirectStep(v, id, n) == Direct(AllocateBlocks(v, id.direct, DirectPart(n), 1, AllocateEntry), id)
IndirectStep(r, n) == Indirect(AllocateIndirect(r.vol, r.id.indirect, IndirectPart(n)), r.id)
DoublyStep(r, n) == Doubly(AllocateDoubly(r.vol, r.id.doubly, DoublyPart(n)), r.id)

\* The assertion that the index had room for n sectors.
WithinCapacity(r, n) ==
    [vol |-> IF n <= Capacity THEN r.vol ELSE AssertFails(r.vol, "inode_allocate"),
     id |-> r.id, success |-> TRUE]

AllocateSectors(v, id, n) ==
    WithinCapacity(DoublyStep(IndirectStep(DirectStep(v, id, n), n), n), n)

\* Returns the volume, the inode with its new entries and the result.
inode_allocate(v, id) ==
    IF id.length < 0 THEN [vol |-> v, id |-> id, success |-> FALSE]
    ELSE AllocateSectors(v, id, bytes_to_sectors(id.length, BLOCK_SECTOR_SIZE))

\* The inode is written to its sector.
SaveInode(a, sector) == cache_write(a.vol, sector, a.id)

inode_create(v, sector, length) ==
    IF length < 0 THEN AssertFails(v, "inode_create")
    ELSE SaveInode(inode_allocate(v, NewInode(length)), sector)

-----------------------------------------------------------------------------
(* Positions.                                                              *)

\* byte_to_sector is not -1.
HasByte(id, pos) == 0 <= pos /\ pos < id.length

\* The sector with byte pos of a file that has that byte.
byte_to_sector(v, id, pos) ==
    LET index == pos \div BLOCK_SECTOR_SIZE
        past == index - DIRECT_INDEX_NUM
        far == past - INDIRECT_INDEX_SECTOR_NUM
        level1 == IndexAt(v, id.doubly)[(far \div INDIRECT_INDEX_SECTOR_NUM) + 1]
    IN  IF past < 0 THEN id.direct[index + 1]
        ELSE IF far < 0 THEN IndexAt(v, id.indirect)[past + 1]
        ELSE IndexAt(v, level1)[(far % INDIRECT_INDEX_SECTOR_NUM) + 1]

\* The bytes inode_read_at returns.
inode_read_at(id, size, offset) ==
    IF size > 0 /\ offset < id.length THEN Lesser(size, id.length - offset) ELSE 0

\* Behind the end of a file whose length has become negative, the bytes left
\* may wrap around to a positive number: then sector -1 is read.
ReadsNowhere(id, size, offset) ==
    size > 0 /\ ~HasByte(id, offset) /\ Wrap(id.length - offset) > 0

\* struct inode.
OpenInode(open_cnt, removed, deny_write_cnt, data) ==
    [open_cnt |-> open_cnt, removed |-> removed, deny_write_cnt |-> deny_write_cnt,
     data |-> data]
WithData(inode, data) ==
    OpenInode(inode.open_cnt, inode.removed, inode.deny_write_cnt, data)

\* What inode_write_at leaves: the volume, the open inode, the bytes written.
Wrote(v, inode, written) == [vol |-> v, inode |-> inode, written |-> written]

\* A write that makes the file grow, with a from inode_allocate.
Grown(v, sector, inode, size, a) ==
    IF a.success THEN Wrote(SaveInode(a, sector), WithData(inode, a.id), size)
    ELSE Wrote(v, WithData(inode, a.id), 0)

\* Takes the end of every write for the end of the file.
inode_write_at_truncating(v, sector, inode, size, offset) ==
    IF inode.deny_write_cnt > 0 THEN Wrote(v, inode, 0)
    ELSE Grown(v, sector, inode, size,
               inode_allocate(v, Resized(inode.data, Wrap(offset + size))))

\* The file grows when it has no byte at the last position of the write, also
\* when that is position -1 of an empty write at 0.
inode_write_at(v, sector, inode, size, offset) ==
    IF inode.deny_write_cnt > 0 THEN Wrote(v, inode, 0)
    ELSE IF HasByte(inode.data, Wrap(offset + size) - 1) THEN Wrote(v, inode, size)
    ELSE Grown(v, sector, inode, size,
               inode_allocate(v, Resized(inode.data, Wrap(offset + size))))

-----------------------------------------------------------------------------
(* Deallocation.                                                           *)

\* The loop over blocks: Release(v, entry, m) gives back an entry and the m
\* sectors under it.
ReleaseBlocks(v, blocks, n, unit, Release(_, _, _)) ==
    LET turn[i \in 0 .. bytes_to_sectors(n, unit)] ==
            IF i = 0 THEN v
            ELSE Release(turn[i - 1], blocks[i], Lesser(unit, n - (i - 1) * unit))
    IN  turn[bytes_to_sectors(n, unit)]

\* inode_deallocate_indirect at levels 0, 1 and 2.
ReleaseEntry(v, e, n) == free_map_release(v, e)

ReleaseIndirect(v, e, n) ==
    free_map_release(ReleaseBlocks(v, IndexAt(v, e), n, 1, ReleaseEntry), e)

ReleaseDoubly(v, e, n) ==
    free_map_release(ReleaseBlocks(v, IndexAt(v, e), n, INDIRECT_INDEX_SECTOR_NUM,
                                   ReleaseIndirect), e)

\* The parts of inode_deallocate.
DirectRelease(v, id, n) == ReleaseBlocks(v, id.direct, DirectPart(n), 1, ReleaseEntry)
IndirectRelease(v, id, n) ==
    IF IndirectPart(n) > 0 THEN ReleaseIndirect(v, id.indirect, IndirectPart(n)) ELSE v
DoublyRelease(v, id, n) ==
    IF DoublyPart(n) > 0 THEN ReleaseDoubly(v, id.doubly, DoublyPart(n)) ELSE v

ReleaseSectors(v, id, n) ==
    DoublyRelease(IndirectRelease(DirectRelease(v, id, n), id, n), id, n)

inode_deallocate(v, id) ==
    IF id.length < 0 THEN v
    ELSE ReleaseSectors(v, id, bytes_to_sectors(id.length, BLOCK_SECTOR_SIZE))

-----------------------------------------------------------------------------
(* Calls that end in the middle, with the blocks written so far on disk.   *)

\* w is being allocated from v: the first of its sectors are marked.  What is
\* written to a sector that nothing refers to yet is left out.
Marking(v, w) ==
    {Volume(v.used \cup {c \in FreeSectors(v) \cap w.used : c <= m}, v.disk, v.full, v.failed) :
        m \in Sectors}

\* w is being released from v: some of its sectors, not all, are free again.
Releasing(v, w) ==
    {Volume(v.used \ R, v.disk, v.full, v.failed) :
        R \in (SUBSET (v.used \ w.used)) \ {v.used \ w.used}}

\* The inode id is growing to length: index blocks are written for the first
\* sectors, more sectors are marked and the inode is not saved yet.
Growing(v, id, length) ==
    LET after(n) == inode_allocate(v, Resized(id, n)).vol
    IN  UNION {Marking(after(n), after(length)) : n \in 0 .. length}

-----------------------------------------------------------------------------
(* What an inode refers to, whatever its length: for the properties.       *)

BlocksOf(v, e) == IF e = 0 THEN {} ELSE Range(IndexAt(v, e)) \ {0}

Owned(v, id) ==
    ((Range(id.direct) \cup {id.indirect, id.doubly}) \ {0})
    \cup BlocksOf(v, id.indirect) \cup BlocksOf(v, id.doubly)
    \cup UNION {BlocksOf(v, e) : e \in BlocksOf(v, id.doubly)}
=============================================================================
