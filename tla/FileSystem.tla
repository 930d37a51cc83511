------------------------------ MODULE FileSystem ------------------------------
(***************************************************************************)
(* The file system calls of pintos_pro3: syscall.c, the descriptor lists   *)
(* of process.c, the closing of files in thread_exit, and below them       *)
(* filesys.c, directory.c, file.c and the open inodes of inode.c.          *)
(*                                                                         *)
(* Each call runs under filesys_lock from its first access to shared state *)
(* to its last, so a call is one action; thread_exit takes the lock anew   *)
(* for each file.  load opens and closes its executable within one         *)
(* critical section and leaves no trace here.  halt takes no lock: it may  *)
(* come in the middle of another process's call, of which the disk then    *)
(* keeps what was written before filesys_done flushed the cache (Cut...).  *)
(* The root directory is a sequence of entries backed by an inode that     *)
(* grows with it.  Memory is exhausted only where a call needs a page      *)
(* (add_file).                                                             *)
(*                                                                         *)
(* A failed assertion is a kernel panic: the system stops.  So does the    *)
(* model when the device is full in the middle of a file's growth: zeros   *)
(* and data then overwrite sector 0 and what follows is no file system.    *)
(***************************************************************************)
EXTENDS Inode

CONSTANTS
    Procs,          \* processes that make calls
    Names,          \* file names
    LongNames,      \* those longer than NAME_MAX
    Fds,            \* arguments of the calls on descriptors
    Executable,     \* Executable[p]: the name of p's thread
    Sizes,          \* arguments of create, read and write, and
    Positions,      \* of seek, as off_t: an unsigned above OFF_MAX is negative
    DIR_ENTRY_SIZE, \* sizeof (struct dir_entry)
    ROOT_ENTRIES,   \* the entries do_format makes room for
    MaxCreates,     \* bound: calls of create that find a sector
    MaxFd,          \* bound: descriptors a process gets
    MaxMishaps      \* bound: opens for which no page is left and shutdowns

ASSUME FileSystemAssumption ==
    /\ "lost" \notin Procs
    /\ LongNames \subseteq Names /\ DOMAIN Executable = Procs
    /\ Fds \subseteq Int
    /\ Sizes \cup Positions \subseteq -(OFF_MAX + 1) .. OFF_MAX
    /\ {DIR_ENTRY_SIZE, ROOT_ENTRIES, MaxCreates, MaxFd, MaxMishaps} \subseteq Nat

VARIABLES
    vol,            \* the volume, see Inode
    dir,            \* the entries of the root directory
    open_inodes,    \* open_inodes[s]: the struct inode of an open inode
    file_list,      \* file_list[p]: p's file_control_blocks
    next_fd,        \* next_fd[p]: fd of struct thread
    lost,           \* open files that add_file found no page for
    status,         \* status[p]: "run", or "exit" from thread_exit on
    panic,          \* the assertions that failed
    creates, halts, \* how often a file was created, the machine shut down
    leaks           \* history: what has left sectors without a file

procVars == <<file_list, next_fd, status>>
vars == <<vol, dir, open_inodes, procVars, lost, panic, creates, halts, leaks>>

\* Sectors are used by no file after: a create that fails with its inode made,
\* a write that shortens a file, a shutdown while a removed file is open, a
\* shutdown in the middle of a create, a growth, a remove or a close.
LeakCauses == {"create", "shrink", "halt", "cut"}

Running == panic = {} /\ ~vol.full
Calls(p) == Running /\ status[p] = "run"

Put(f, x, v) == [y \in DOMAIN f \cup {x} |-> IF y = x THEN v ELSE f[y]]
Without(f, x) == [y \in DOMAIN f \ {x} |-> f[y]]

-----------------------------------------------------------------------------
(* do_format, with the free map's own file.                                *)

BITMAP_SIZE == 1    \* bytes of the bitmap's file: one sector

Formatted ==
    LET blank == Volume({FREE_MAP_SECTOR, ROOT_DIR_SECTOR},
                        [s \in Sectors |-> Zeros], FALSE, {})
    IN  inode_create(inode_create(blank, FREE_MAP_SECTOR, BITMAP_SIZE),
                     ROOT_DIR_SECTOR, ROOT_ENTRIES * DIR_ENTRY_SIZE)

EmptyEntry == [name |-> CHOOSE n \in Names : TRUE, sector |-> 0, in_use |-> FALSE]

Init ==
    /\ vol = Formatted
    /\ dir = [i \in 1 .. ROOT_ENTRIES |-> EmptyEntry]
    /\ open_inodes = <<>>
    /\ file_list = [p \in Procs |-> <<>>]
    /\ next_fd = [p \in Procs |-> 2]
    /\ lost = <<>>
    /\ status = [p \in Procs |-> "run"]
    /\ panic = Formatted.failed
    /\ creates = 0 /\ halts = 0
    /\ leaks = {}

-----------------------------------------------------------------------------
(* Open inodes.                                                            *)

NewOpen(data) == OpenInode(1, FALSE, 0, data)

\* An open inode after its counters have changed by opens and denials.
Counted(inode, opens, denials) ==
    OpenInode(inode.open_cnt + opens, inode.removed,
              inode.deny_write_cnt + denials, inode.data)

inode_open(v, inodes, s) ==
    Put(inodes, s, IF s \in DOMAIN inodes THEN Counted(inodes[s], 1, 0)
                   ELSE NewOpen(v.disk[s]))

\* Frees a removed file although others have it open.
inode_close_early(v, inodes, s) ==
    LET inode == Counted(inodes[s], -1, 0)
    IN  [vol |-> IF inode.removed
                 THEN inode_deallocate(free_map_release(v, s), inode.data) ELSE v,
         inodes |-> IF inode.open_cnt = 0 THEN Without(inodes, s)
                    ELSE Put(inodes, s, inode)]

\* Returns the volume and the open inodes.
inode_close(v, inodes, s) ==
    LET inode == Counted(inodes[s], -1, 0)
    IN  IF inode.open_cnt > 0 THEN [vol |-> v, inodes |-> Put(inodes, s, inode)]
        ELSE [vol |-> IF inode.removed
                      THEN inode_deallocate(free_map_release(v, s), inode.data) ELSE v,
              inodes |-> Without(inodes, s)]

DenyInRange(inode) == inode.deny_write_cnt \in 0 .. inode.open_cnt

\* file_allow_write, then inode_close.
file_close(v, inodes, f) ==
    IF ~f.deny_write THEN inode_close(v, inodes, f.sector)
    ELSE LET inode == Counted(inodes[f.sector], 0, -1)
             ok == DenyInRange(inodes[f.sector]) /\ inode.deny_write_cnt >= 0
         IN  inode_close(IF ok THEN v
                         ELSE AssertFails(v, "inode_allow_write"),
                         Put(inodes, f.sector, inode), f.sector)

\* The volume, the open inodes and the assertions after closing.
Closed(c) ==
    /\ vol' = c.vol
    /\ open_inodes' = c.inodes
    /\ panic' = c.vol.failed

-----------------------------------------------------------------------------
(* The directory.                                                          *)

Slots(n) == {i \in DOMAIN dir : dir[i].in_use /\ dir[i].name = n}
Listed(n) == Slots(n) # {}
Slot(n) == Min(Slots(n))

\* The first free slot, or the one behind the end.
FreeSlot == Min({i \in DOMAIN dir : ~dir[i].in_use} \cup {Len(dir) + 1})

NewEntry(n, s) == [name |-> n, sector |-> s, in_use |-> TRUE]

\* dir_add's write of the entry: it may make the directory grow.
DirWrite(v, slot) ==
    inode_write_at(v, ROOT_DIR_SECTOR, NewOpen(v.disk[ROOT_DIR_SECTOR]),
                   DIR_ENTRY_SIZE, (slot - 1) * DIR_ENTRY_SIZE).vol

-----------------------------------------------------------------------------
(* The calls on names.                                                     *)

\* dir_add refuses the name.
RefusesLongOnly(n) == n \in LongNames
Refuses(n) == n \in LongNames \/ Listed(n)

\* filesys_create: the inode's sector first, then the file's sectors, then
\* the name.  On failure only the inode's sector is given back.
Create(p, n, size) ==
    /\ Calls(p)
    /\ creates < MaxCreates
    /\ FreeSectors(vol) # {}
    /\ LET s == Min(FreeSectors(vol))
       IN  \E made \in {inode_create(free_map_allocate(vol), s, size)} :
           /\ vol' = IF made.failed # {} THEN made
                     ELSE IF Refuses(n) THEN free_map_release(made, s)
                     ELSE DirWrite(made, FreeSlot)
           /\ dir' = IF made.failed # {} \/ Refuses(n) THEN dir
                     ELSE IF FreeSlot > Len(dir) THEN Append(dir, NewEntry(n, s))
                     ELSE [dir EXCEPT ![FreeSlot] = NewEntry(n, s)]
           /\ leaks' = IF Refuses(n) /\ Owned(made, made.disk[s]) # {}
                       THEN leaks \cup {"create"} ELSE leaks
    /\ panic' = vol'.failed
    /\ creates' = creates + 1
    /\ UNCHANGED <<open_inodes, procVars, lost, halts>>

\* No sector for the inode: filesys_create returns false.
CreateFull(p, n) ==
    /\ Calls(p)
    /\ FreeSectors(vol) = {}
    /\ UNCHANGED vars

\* Forgets to mark the inode.
RemoveUnmarked(p, n) ==
    /\ Calls(p)
    /\ Listed(n)
    /\ dir' = [dir EXCEPT ![Slot(n)].in_use = FALSE]
    /\ Closed(inode_close(vol, inode_open(vol, open_inodes, dir[Slot(n)].sector),
                          dir[Slot(n)].sector))
    /\ UNCHANGED <<procVars, lost, creates, halts, leaks>>

\* inode_remove.
Removed(inode) == OpenInode(inode.open_cnt, TRUE, inode.deny_write_cnt, inode.data)

\* dir_remove's inode is opened, marked and closed.
RemovedClosed(s) ==
    LET opened == inode_open(vol, open_inodes, s)
    IN  inode_close(vol, Put(opened, s, Removed(opened[s])), s)

\* dir_remove: the inode is open while its entry is erased and it is marked.
RemoveFile(p, n) ==
    /\ Calls(p)
    /\ Listed(n)
    /\ dir' = [dir EXCEPT ![Slot(n)].in_use = FALSE]
    /\ Closed(RemovedClosed(dir[Slot(n)].sector))
    /\ UNCHANGED <<procVars, lost, creates, halts, leaks>>

RemoveMissing(p, n) ==
    /\ Calls(p)
    /\ ~Listed(n)
    /\ UNCHANGED vars

\* The file object an open makes and the inode below it: file_deny_write when
\* the process opens a file of its own name.
OpenedFile(p, n) ==
    [sector |-> dir[Slot(n)].sector, pos |-> 0, deny_write |-> n = Executable[p]]

OpenedInodes(p, n) ==
    LET s == dir[Slot(n)].sector
        opened == inode_open(vol, open_inodes, s)
    IN  IF n = Executable[p]
        THEN Put(opened, s, Counted(opened[s], 0, 1)) ELSE opened

\* Shares the inode without counting the second opener.
OpenUncounted(p, n) ==
    /\ Calls(p)
    /\ next_fd[p] < 2 + MaxFd
    /\ Listed(n)
    /\ open_inodes' = LET s == dir[Slot(n)].sector
                      IN  IF s \in DOMAIN open_inodes THEN open_inodes
                          ELSE Put(open_inodes, s, NewOpen(vol.disk[s]))
    /\ file_list' = [file_list EXCEPT ![p] =
                        Append(@, [fd |-> next_fd[p], file |-> OpenedFile(p, n)])]
    /\ next_fd' = [next_fd EXCEPT ![p] = @ + 1]
    /\ UNCHANGED <<vol, dir, status, lost, panic, creates, halts, leaks>>

Open(p, n) ==
    /\ Calls(p)
    /\ next_fd[p] < 2 + MaxFd
    /\ Listed(n)
    /\ open_inodes' = OpenedInodes(p, n)
    /\ panic' = IF DenyInRange(OpenedInodes(p, n)[dir[Slot(n)].sector]) THEN {}
                ELSE {"inode_deny_write"}
    /\ file_list' = [file_list EXCEPT ![p] =
                        Append(@, [fd |-> next_fd[p], file |-> OpenedFile(p, n)])]
    /\ next_fd' = [next_fd EXCEPT ![p] = @ + 1]
    /\ UNCHANGED <<vol, dir, status, lost, creates, halts, leaks>>

\* add_file finds no page: open returns -1 and the file stays open.
OpenNoPage(p, n) ==
    /\ Calls(p)
    /\ Listed(n)
    /\ Len(lost) + halts < MaxMishaps
    /\ open_inodes' = OpenedInodes(p, n)
    /\ lost' = Append(lost, OpenedFile(p, n))
    /\ UNCHANGED <<vol, dir, procVars, panic, creates, halts, leaks>>

\* No such file: open returns -1, unless the process asks for its own name
\* and file_deny_write gets a null pointer.
OpenMissing(p, n) ==
    /\ Calls(p)
    /\ ~Listed(n)
    /\ panic' = IF n = Executable[p] THEN {"file_deny_write"} ELSE {}
    /\ UNCHANGED <<vol, dir, open_inodes, procVars, lost, creates, halts, leaks>>

-----------------------------------------------------------------------------
(* The calls on descriptors.                                               *)

Has(p, fd) == \E i \in DOMAIN file_list[p] : file_list[p][i].fd = fd
At(p, fd) == CHOOSE i \in DOMAIN file_list[p] : file_list[p][i].fd = fd
File(p, fd) == file_list[p][At(p, fd)].file

\* get_file and close_file copy the struct list and compare with the end of
\* the copy, so the walk for a descriptor that is not in the list runs past
\* the end of the list and into the assertion of list_next.
WalksPast(p, fd) == fd \in 0 .. next_fd[p] /\ ~Has(p, fd)
NullFile(p, fd) == fd \notin 0 .. next_fd[p]

\* filesize, read, write, seek and tell of a descriptor that is not open.
\* Reading descriptor 1 and writing 0 and 1 return before get_file.
NoSuchFd(p, fd) ==
    /\ Calls(p)
    /\ WalksPast(p, fd) \/ NullFile(p, fd)
    /\ panic' = IF WalksPast(p, fd) THEN {"list_next"} ELSE {}
    /\ UNCHANGED <<vol, dir, open_inodes, procVars, lost, creates, halts, leaks>>

\* read: filesize and tell, which change nothing, are reads of no bytes.
Read(p, fd, size) ==
    /\ Calls(p)
    /\ Has(p, fd)
    /\ LET f == File(p, fd)
       IN  /\ file_list' = [file_list EXCEPT ![p][At(p, fd)].file.pos =
                   @ + inode_read_at(open_inodes[f.sector].data, size, f.pos)]
           /\ panic' = IF ReadsNowhere(open_inodes[f.sector].data, size, f.pos)
                       THEN {"check_sector"} ELSE {}
    /\ UNCHANGED <<vol, dir, open_inodes, next_fd, lost, status, creates, halts, leaks>>

\* write: refused by the file's own deny_write, then by that of the inode.  No
\* buffer of 2^31 bytes is valid: such a call ends the process, see Exit.
Write(p, fd, size) ==
    /\ Calls(p)
    /\ Has(p, fd)
    /\ size >= 0
    /\ LET f == File(p, fd)
       IN  \/ /\ f.deny_write
              /\ UNCHANGED vars
           \/ \E w \in {inode_write_at(vol, f.sector, open_inodes[f.sector], size, f.pos)} :
                /\ ~f.deny_write
                /\ vol' = w.vol
                /\ open_inodes' = [open_inodes EXCEPT ![f.sector] = w.inode]
                /\ file_list' = [file_list EXCEPT ![p][At(p, fd)].file.pos = @ + w.written]
                /\ panic' = w.vol.failed
                /\ leaks' = IF w.inode.data.length < open_inodes[f.sector].data.length
                            THEN leaks \cup {"shrink"} ELSE leaks
                /\ UNCHANGED <<dir, next_fd, lost, status, creates, halts>>

Seek(p, fd, pos) ==
    /\ Calls(p)
    /\ Has(p, fd)
    /\ panic' = IF pos >= 0 THEN {} ELSE {"file_seek"}
    /\ file_list' = IF pos >= 0 THEN [file_list EXCEPT ![p][At(p, fd)].file.pos = pos]
                    ELSE file_list
    /\ UNCHANGED <<vol, dir, open_inodes, next_fd, lost, status, creates, halts, leaks>>

Close(p, fd) ==
    /\ Calls(p)
    /\ Has(p, fd)
    /\ Closed(file_close(vol, open_inodes, File(p, fd)))
    /\ file_list' = [file_list EXCEPT ![p] = RemoveAt(@, At(p, fd))]
    /\ UNCHANGED <<dir, next_fd, lost, status, creates, halts, leaks>>

\* close of a descriptor that is not open ends the process, if it gets there.
CloseMissing(p, fd) ==
    /\ Calls(p)
    /\ ~Has(p, fd)
    /\ \/ /\ NullFile(p, fd) \/ file_list[p] = <<>>
          /\ status' = [status EXCEPT ![p] = "exit"]
          /\ UNCHANGED panic
       \/ /\ WalksPast(p, fd) /\ file_list[p] # <<>>
          /\ panic' = {"list_next"}
          /\ UNCHANGED status
    /\ UNCHANGED <<vol, dir, open_inodes, file_list, next_fd, lost, creates, halts, leaks>>

-----------------------------------------------------------------------------
(* The ends of a process and of the machine.                               *)

\* exit, a kill, or an invalid pointer.
Exit(p) ==
    /\ Calls(p)
    /\ status' = [status EXCEPT ![p] = "exit"]
    /\ UNCHANGED <<vol, dir, open_inodes, file_list, next_fd, lost, panic, creates, halts, leaks>>

\* thread_exit closes the files one by one, in the order of the list.
ExitCloses(p) ==
    /\ Running
    /\ status[p] = "exit"
    /\ file_list[p] # <<>>
    /\ Closed(file_close(vol, open_inodes, Head(file_list[p]).file))
    /\ file_list' = [file_list EXCEPT ![p] = Tail(@)]
    /\ UNCHANGED <<dir, next_fd, lost, status, creates, halts, leaks>>

\* halt, filesys_done and a boot: what is on disk is read again and the open
\* inodes are forgotten, the removed ones among them with their sectors.
Reboot(p) ==
    /\ Calls(p)
    /\ Len(lost) + halts < MaxMishaps
    /\ halts' = halts + 1
    /\ open_inodes' = <<>>
    /\ file_list' = [q \in Procs |-> <<>>]
    /\ next_fd' = [q \in Procs |-> 2]
    /\ status' = [q \in Procs |-> "run"]
    /\ lost' = <<>>

Forgotten ==
    IF \E s \in DOMAIN open_inodes : open_inodes[s].removed THEN {"halt"} ELSE {}

\* No other process is in the middle of a call that writes.
Halt(p) ==
    /\ Reboot(p)
    /\ leaks' = leaks \cup Forgotten
    /\ UNCHANGED <<vol, dir, panic, creates>>

\* p halts in the middle of a call of q.
Cuts(p, q) ==
    /\ Reboot(p)
    /\ q # p
    /\ leaks' = leaks \cup Forgotten \cup {"cut"}

\* Sectors are marked, the file is made, or the directory has grown, but the
\* entry is not written: in_use is its last byte.
CutCreate(p, q, n, size) ==
    /\ Cuts(p, q)
    /\ status[q] = "run"
    /\ creates < MaxCreates
    /\ FreeSectors(vol) # {}
    /\ \E made \in {inode_create(free_map_allocate(vol), Min(FreeSectors(vol)), size)} :
        \/ /\ vol' \in Marking(vol, made) \ {vol}
           /\ UNCHANGED dir
        \/ /\ made.failed = {} /\ ~Refuses(n) /\ FreeSlot > Len(dir)
           /\ vol' \in Growing(made, made.disk[ROOT_DIR_SECTOR], FreeSlot * DIR_ENTRY_SIZE)
           /\ UNCHANGED dir
        \/ /\ made.failed = {} /\ ~Refuses(n) /\ FreeSlot > Len(dir)
           /\ vol' = DirWrite(made, FreeSlot)
           /\ dir' = Append(dir, EmptyEntry)
    /\ panic' = vol'.failed
    /\ creates' = creates + 1

\* The file is growing and its inode not saved.
CutWrite(p, q, fd, size) ==
    /\ Cuts(p, q)
    /\ status[q] = "run"
    /\ Has(q, fd)
    /\ size >= 0
    /\ LET f == File(q, fd)
           inode == open_inodes[f.sector]
           end == Wrap(f.pos + size)
       IN  /\ ~f.deny_write /\ inode.deny_write_cnt = 0
           /\ ~HasByte(inode.data, end - 1)
           /\ vol' \in Growing(vol, inode.data, end) \ {vol}
    /\ panic' = vol'.failed
    /\ UNCHANGED <<dir, creates>>

\* The entry is written after the sectors are released.
CutRemoveListed(p, q, n) ==
    /\ Cuts(p, q)
    /\ status[q] = "run"
    /\ Listed(n)
    /\ vol' \in Releasing(vol, RemovedClosed(dir[Slot(n)].sector).vol)
    /\ panic' = vol'.failed
    /\ UNCHANGED <<dir, creates>>

\* The entry is erased and not all sectors are released.
CutRemove(p, q, n) ==
    /\ Cuts(p, q)
    /\ status[q] = "run"
    /\ Listed(n)
    /\ dir' = [dir EXCEPT ![Slot(n)].in_use = FALSE]
    /\ vol' \in Releasing(vol, RemovedClosed(dir[Slot(n)].sector).vol)
    /\ panic' = vol'.failed
    /\ UNCHANGED creates

\* close or thread_exit has released some sectors of a removed file.
CutClose(p, q) ==
    /\ Cuts(p, q)
    /\ \E i \in DOMAIN file_list[q] :
        /\ status[q] = "run" \/ i = 1
        /\ vol' \in Releasing(vol, file_close(vol, open_inodes, file_list[q][i].file).vol) \ {vol}
    /\ panic' = vol'.failed
    /\ UNCHANGED <<dir, creates>>

\* A call of q goes on after filesys_done: it writes the free map through a
\* file that was freed, and which of its blocks are still evicted to disk is
\* chance.  The model stops.
HaltAstray(p, q) ==
    /\ Calls(p)
    /\ q # p
    /\ Len(lost) + halts < MaxMishaps
    /\ halts' = halts + 1
    /\ panic' = {"filesys_done"}
    /\ UNCHANGED <<vol, dir, open_inodes, procVars, lost, creates, leaks>>

Next ==
    \E p \in Procs :
        \/ \E n \in Names :
            \/ \E size \in Sizes : Create(p, n, size)
            \/ CreateFull(p, n)
            \/ RemoveFile(p, n) \/ RemoveMissing(p, n)
            \/ Open(p, n) \/ OpenNoPage(p, n) \/ OpenMissing(p, n)
        \/ \E fd \in Fds :
            \/ \E size \in Sizes : Read(p, fd, size) \/ Write(p, fd, size)
            \/ \E pos \in Positions : Seek(p, fd, pos)
            \/ Close(p, fd) \/ CloseMissing(p, fd) \/ NoSuchFd(p, fd)
        \/ Exit(p) \/ ExitCloses(p)
        \/ Halt(p)
        \/ \E q \in Procs :
            \/ \E n \in Names :
                (\E size \in Sizes : CutCreate(p, q, n, size)) \/ CutRemove(p, q, n)
            \/ \E fd \in Fds, size \in Sizes : CutWrite(p, q, fd, size)
            \/ CutClose(p, q) \/ HaltAstray(p, q)

Spec == Init /\ [][Next]_vars

-----------------------------------------------------------------------------
(* Properties.                                                             *)

\* The inodes of files: listed in the directory, or open.
Listings == {i \in DOMAIN dir : dir[i].in_use}
FileInodes == {dir[i].sector : i \in Listings} \cup DOMAIN open_inodes
InodeOf(s) == IF s \in DOMAIN open_inodes THEN open_inodes[s].data ELSE vol.disk[s]

\* What belongs to a file, its inode included, and to the file system itself.
Belongings(s) == {s} \cup Owned(vol, InodeOf(s))
SystemSectors == {FREE_MAP_SECTOR, ROOT_DIR_SECTOR}
Holders == FileInodes \cup SystemSectors

OpenFiles ==
    {<<"lost", i>> : i \in DOMAIN lost}
    \cup UNION {{<<p, i>> : i \in DOMAIN file_list[p]} : p \in Procs}
FileAt(x) == IF x[1] = "lost" THEN lost[x[2]] ELSE file_list[x[1]][x[2]].file

\* No sector belongs to two files, or to a file and the file system, every
\* sector that belongs to one is marked in the free map, and every byte below
\* the length of a file has a sector of that file: whatever is created, grown,
\* removed while open, closed or cut short by inode.c, until the device is full.
SectorsOwnedOnce ==
    Running =>
        /\ \A s \in Holders : Belongings(s) \subseteq vol.used
        /\ \A s, t \in Holders : s # t => Belongings(s) \cap Belongings(t) = {}
        /\ \A s \in Holders : \A pos \in 0 .. InodeOf(s).length - 1 :
               byte_to_sector(vol, InodeOf(s), pos) \in Owned(vol, InodeOf(s))

\* Removing and closing give back every sector: a sector is marked without
\* belonging to anything only after a create that failed in dir_add, a write
\* that shortened a file, a halt with a removed file open, or a halt in the
\* middle of another process's create, growth, remove or close.
NoOtherLeaks ==
    Running /\ leaks = {} => vol.used = UNION {Belongings(s) : s \in Holders}

\* The counters of an open inode are right: open_cnt is the number of open
\* files on it and deny_write_cnt the number of those that deny writing, so it
\* is freed with its last file and writable again after its last denier.
CountsMatch ==
    Running =>
        /\ DOMAIN open_inodes = {FileAt(x).sector : x \in OpenFiles}
        /\ \A s \in DOMAIN open_inodes :
            LET on == {x \in OpenFiles : FileAt(x).sector = s}
            IN  /\ open_inodes[s].open_cnt = Cardinality(on)
                /\ open_inodes[s].deny_write_cnt
                       = Cardinality({x \in on : FileAt(x).deny_write})

\* The directory names each file once, each under one name, and names no file
\* that was removed; a file that is open but not named was removed.
DirectoryMatchesInodes ==
    Running =>
        /\ \A i, j \in Listings :
               i # j => dir[i].name # dir[j].name /\ dir[i].sector # dir[j].sector
        /\ \A s \in DOMAIN open_inodes :
               open_inodes[s].removed <=> s \notin {dir[i].sector : i \in Listings}

\* The assertions on the free map and on deny_write_cnt hold: whatever order
\* processes open, remove, close and exit in, no sector is released twice and
\* no writing is allowed that was not denied.
BookkeepingAsserts ==
    panic \cap {"free_map_release", "inode_deny_write", "inode_allow_write"} = {}

\* A step that makes a file shorter: an empty write at position 0, or one that
\* ends above OFF_MAX and leaves a negative length; and of no other file.
ShortensByWriting ==
    \A s \in DOMAIN open_inodes \cap DOMAIN open_inodes' :
        open_inodes'[s].data.length < open_inodes[s].data.length =>
            /\ \E x \in OpenFiles : /\ FileAt(x).sector = s
                                    /\ \/ FileAt(x).pos = 0
                                       \/ \E size \in Sizes : FileAt(x).pos + size > OFF_MAX
            /\ open_inodes'[s].data.length <= 0
            /\ \A t \in DOMAIN open_inodes \cap DOMAIN open_inodes' :
                  t # s => open_inodes'[t].data.length = open_inodes[t].data.length

\* A file becomes shorter in one way only: an empty write at position 0 (or
\* one that ends above OFF_MAX, which leaves a negative length in memory).  No
\* call on one file changes the length of another.
OnlyEmptyWritesShorten == [][ShortensByWriting]_vars

\* Closing a descriptor that is not open never stops the kernel: "The second
\* close must either fail silently or terminate with exit code -1"
\* (tests/userprog/close-twice.c).
SecondCloseIsHarmless ==
    [][\A p \in Procs, fd \in Fds : CloseMissing(p, fd) => panic' = {}]_vars

=============================================================================
