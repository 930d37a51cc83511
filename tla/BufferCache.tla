----------------------------- MODULE BufferCache -----------------------------
(***************************************************************************)
(* The buffer cache of pintos_pro3/src/filesys/cache.c: CACHE_SIZE entries *)
(* between the inode layer and the block device, replaced by the clock     *)
(* algorithm, written back on replacement and by cache_close, with one     *)
(* lock around every operation.                                            *)
(*                                                                         *)
(* A thread runs an operation in the steps between which it can lose the   *)
(* processor: waiting for cache_lock, and every block_read and block_write *)
(* (both sleep until the device interrupts).  cache_read and cache_write   *)
(* share their code up to the final memcpy, so they share their actions.   *)
(* cache_close is only called by filesys_done on the way to power-off      *)
(* (devices/shutdown.c), so a thread that returns from it stays in         *)
(* shutdown_power_off until the machine is off; other threads run on       *)
(* meanwhile.                                                              *)
(***************************************************************************)
EXTENDS Integers

CONSTANTS
    Threads,    \* kernel threads that use the file system
    Sectors,    \* sector numbers of fs_device
    Values,     \* contents of one sector
    Size,       \* CACHE_SIZE
    Zeros,      \* the contents of a zeroed buffer (cache[] is static)
    NoThread,   \* cache_lock.holder == NULL
    Requests    \* the calls the layer above may make

ASSUME SizeAssumption == Size \in Nat \ {0}
ASSUME ZerosAssumption == Zeros \in Values
ASSUME SectorsAssumption == 0 \in Sectors
ASSUME NoThreadAssumption == NoThread \notin Threads

VARIABLES
    cache,      \* cache[i]: the i-th struct cache_entry
    clock,      \* static int clock of cache_replace_find
    lock,       \* holder of cache_lock
    disk,       \* contents of fs_device
    power,      \* "on" or "off"
    pc,         \* pc[t]: where thread t is in the cache code
    call,       \* call[t]: its operation and arguments
    ce          \* ce[t]: the entry it works on (in cache_close, the index i)

vars == <<cache, clock, lock, disk, power, pc, call, ce>>

Entries == 0 .. Size - 1

(* struct cache_entry *)
CacheEntry ==
    [valid : BOOLEAN, disk_sector : Sectors, buffer : Values,
     dirty : BOOLEAN, access : BOOLEAN]

(* An operation with its argument: the source of a write, or the target of *)
(* a read, whose old bytes nothing depends on.                             *)
Calls ==
    [op : {"read", "write", "close"}, sector : Sectors, data : Values]

ASSUME RequestsAssumption == Requests \subseteq Calls

(* The arguments of a thread that is in no call. *)
NoCall == [op |-> "read", sector |-> 0, data |-> Zeros]

(* Program points at which a thread owns cache_lock, and all of them. *)
Inside == {"find", "sweep", "claim", "fill", "copy", "flush", "release"}
Points == Inside \cup {"idle", "acquire", "shutdown"}

TypeOK ==
    /\ cache \in [Entries -> CacheEntry]
    /\ clock \in Entries
    /\ lock \in Threads \cup {NoThread}
    /\ disk \in [Sectors -> Values]
    /\ power \in {"on", "off"}
    /\ pc \in [Threads -> Points]
    /\ call \in [Threads -> Calls]
    /\ ce \in [Threads -> Entries]

(* cache[] and clock are zero-initialised statics; cache_init makes every *)
(* entry invalid.  The disk may hold anything.                            *)
Init ==
    /\ cache = [i \in Entries |->
                  [valid |-> FALSE, disk_sector |-> 0, buffer |-> Zeros,
                   dirty |-> FALSE, access |-> FALSE]]
    /\ clock = 0
    /\ lock = NoThread
    /\ disk \in [Sectors -> Values]
    /\ power = "on"
    /\ pc = [t \in Threads |-> "idle"]
    /\ call = [t \in Threads |-> NoCall]
    /\ ce = [t \in Threads |-> 0]

-----------------------------------------------------------------------------
(* Helpers. *)

Goto(t, point) == pc' = [pc EXCEPT ![t] = point]

(* The valid entries for a sector: what cache_find's loop looks for. *)
Hits(s) == { i \in Entries : cache[i].valid /\ cache[i].disk_sector = s }

(* cache_flush: the disk and the entry after flushing entry i. *)
FlushedDisk(i) ==
    IF cache[i].dirty
    THEN [disk EXCEPT ![cache[i].disk_sector] = cache[i].buffer]
    ELSE disk

FlushedEntry(i) == [cache[i] EXCEPT !.dirty = FALSE]

-----------------------------------------------------------------------------
(* Entering and leaving. *)

(* A thread calls cache_read, cache_write or cache_close. *)
Enter(t) ==
    /\ pc[t] = "idle"
    /\ \E c \in Requests : call' = [call EXCEPT ![t] = c]
    /\ Goto(t, "acquire")
    /\ UNCHANGED <<cache, clock, lock, disk, power, ce>>

(* Mutant of Acquire: the operations run without lock_acquire. *)
AcquireUnlocked(t) ==
    /\ pc[t] = "acquire"
    /\ lock' = t
    /\ Goto(t, IF call[t].op = "close" THEN "flush" ELSE "find")
    /\ ce' = [ce EXCEPT ![t] = 0]
    /\ UNCHANGED <<cache, clock, disk, power, call>>

(* lock_acquire (&cache_lock) returns. *)
Acquire(t) ==
    /\ pc[t] = "acquire"
    /\ lock = NoThread
    /\ lock' = t
    /\ Goto(t, IF call[t].op = "close" THEN "flush" ELSE "find")
    /\ ce' = [ce EXCEPT ![t] = 0]
    /\ UNCHANGED <<cache, clock, disk, power, call>>

(* lock_release (&cache_lock) and return. *)
Release(t) ==
    /\ pc[t] = "release"
    /\ lock' = NoThread
    /\ Goto(t, IF call[t].op = "close" THEN "shutdown" ELSE "idle")
    /\ call' = [call EXCEPT ![t] = NoCall]
    /\ ce' = [ce EXCEPT ![t] = 0]
    /\ UNCHANGED <<cache, clock, disk, power>>

(* The last instructions of shutdown_power_off. *)
PowerOff(t) ==
    /\ pc[t] = "shutdown"
    /\ power' = "off"
    /\ UNCHANGED <<cache, clock, lock, disk, pc, call, ce>>

-----------------------------------------------------------------------------
(* cache_read and cache_write. *)

(* cache_find returns the first entry that caches the sector. *)
FindHit(t) ==
    /\ pc[t] = "find"
    /\ \E i \in Hits(call[t].sector) :
          /\ \A j \in Hits(call[t].sector) : i <= j
          /\ ce' = [ce EXCEPT ![t] = i]
    /\ Goto(t, "copy")
    /\ UNCHANGED <<cache, clock, lock, disk, power, call>>

(* cache_find returns NULL. *)
FindMiss(t) ==
    /\ pc[t] = "find"
    /\ Hits(call[t].sector) = {}
    /\ Goto(t, "sweep")
    /\ UNCHANGED <<cache, clock, lock, disk, power, call, ce>>

(* Mutant of SweepAdvance: clock ++ without the modulo. *)
SweepAdvanceNoWrap(t) ==
    /\ pc[t] = "sweep"
    /\ cache[clock].valid
    /\ cache[clock].access
    /\ cache' = [cache EXCEPT ![clock].access = FALSE]
    /\ clock' = clock + 1
    /\ UNCHANGED <<lock, disk, power, pc, call, ce>>

(* Mutant of SweepAdvance: the access bit is left set. *)
SweepAdvanceNoClear(t) ==
    /\ pc[t] = "sweep"
    /\ cache[clock].valid
    /\ cache[clock].access
    /\ clock' = (clock + 1) % Size
    /\ UNCHANGED <<cache, lock, disk, power, pc, call, ce>>

(* cache_replace_find: an entry used since the hand last passed it gets a *)
(* second chance.                                                         *)
SweepAdvance(t) ==
    /\ pc[t] = "sweep"
    /\ cache[clock].valid
    /\ cache[clock].access
    /\ cache' = [cache EXCEPT ![clock].access = FALSE]
    /\ clock' = (clock + 1) % Size
    /\ UNCHANGED <<lock, disk, power, pc, call, ce>>

(* cache_replace_find: an invalid entry is taken as it is. *)
SweepFree(t) ==
    /\ pc[t] = "sweep"
    /\ ~cache[clock].valid
    /\ ce' = [ce EXCEPT ![t] = clock]
    /\ Goto(t, "claim")
    /\ UNCHANGED <<cache, clock, lock, disk, power, call>>

(* Mutant of SweepEvict: the victim is invalidated without cache_flush. *)
SweepEvictNoFlush(t) ==
    /\ pc[t] = "sweep"
    /\ cache[clock].valid
    /\ ~cache[clock].access
    /\ cache' = [cache EXCEPT ![clock].valid = FALSE]
    /\ ce' = [ce EXCEPT ![t] = clock]
    /\ Goto(t, "claim")
    /\ UNCHANGED <<clock, lock, disk, power, call>>

(* cache_replace_find: an entry without a second chance is written back if *)
(* dirty and invalidated.  The hand stays on it.                           *)
SweepEvict(t) ==
    /\ pc[t] = "sweep"
    /\ cache[clock].valid
    /\ ~cache[clock].access
    /\ disk' = FlushedDisk(clock)
    /\ cache' = [cache EXCEPT ![clock] =
                   [FlushedEntry(clock) EXCEPT !.valid = FALSE]]
    /\ ce' = [ce EXCEPT ![t] = clock]
    /\ Goto(t, "claim")
    /\ UNCHANGED <<clock, lock, power, call>>

(* The miss path marks the entry valid for the sector before the block_read *)
(* that fills it.                                                           *)
Claim(t) ==
    /\ pc[t] = "claim"
    /\ cache' = [cache EXCEPT ![ce[t]] =
                   [@ EXCEPT !.valid = TRUE,
                             !.disk_sector = call[t].sector,
                             !.dirty = FALSE]]
    /\ Goto(t, "fill")
    /\ UNCHANGED <<clock, lock, disk, power, call, ce>>

(* block_read (fs_device, sector, ce->buffer). *)
Fill(t) ==
    /\ pc[t] = "fill"
    /\ cache' = [cache EXCEPT ![ce[t]].buffer = disk[call[t].sector]]
    /\ Goto(t, "copy")
    /\ UNCHANGED <<clock, lock, disk, power, call, ce>>

(* The end of cache_read: access = 1 and memcpy out of the entry. *)
CopyOut(t) ==
    /\ pc[t] = "copy"
    /\ call[t].op = "read"
    /\ cache' = [cache EXCEPT ![ce[t]].access = TRUE]
    /\ call' = [call EXCEPT ![t].data = cache[ce[t]].buffer]
    /\ Goto(t, "release")
    /\ UNCHANGED <<clock, lock, disk, power, ce>>

(* Mutant of CopyIn: cache_write forgets dirty = 1. *)
CopyInNotDirty(t) ==
    /\ pc[t] = "copy"
    /\ call[t].op = "write"
    /\ cache' = [cache EXCEPT ![ce[t]] =
                   [@ EXCEPT !.access = TRUE, !.buffer = call[t].data]]
    /\ Goto(t, "release")
    /\ UNCHANGED <<clock, lock, disk, power, call, ce>>

(* The end of cache_write: access = dirty = 1 and memcpy into the entry. *)
CopyIn(t) ==
    /\ pc[t] = "copy"
    /\ call[t].op = "write"
    /\ cache' = [cache EXCEPT ![ce[t]] =
                   [@ EXCEPT !.access = TRUE,
                             !.dirty = TRUE,
                             !.buffer = call[t].data]]
    /\ Goto(t, "release")
    /\ UNCHANGED <<clock, lock, disk, power, call, ce>>

(* Mutant of CloseStep: the loop stops one entry early. *)
CloseStepShort(t) ==
    /\ pc[t] = "flush"
    /\ disk' = IF cache[ce[t]].valid THEN FlushedDisk(ce[t]) ELSE disk
    /\ cache' = [cache EXCEPT ![ce[t]] =
                   IF cache[ce[t]].valid THEN FlushedEntry(ce[t]) ELSE @]
    /\ IF ce[t] + 2 < Size
       THEN /\ ce' = [ce EXCEPT ![t] = ce[t] + 1]
            /\ UNCHANGED pc
       ELSE /\ Goto(t, "release")
            /\ UNCHANGED ce
    /\ UNCHANGED <<clock, lock, power, call>>

-----------------------------------------------------------------------------
(* cache_close: one iteration of its loop.  An invalid entry is skipped. *)
CloseStep(t) ==
    /\ pc[t] = "flush"
    /\ IF cache[ce[t]].valid
       THEN /\ disk' = FlushedDisk(ce[t])
            /\ cache' = [cache EXCEPT ![ce[t]] = FlushedEntry(ce[t])]
       ELSE UNCHANGED <<disk, cache>>
    /\ IF ce[t] + 1 < Size
       THEN /\ ce' = [ce EXCEPT ![t] = ce[t] + 1]
            /\ UNCHANGED pc
       ELSE /\ Goto(t, "release")
            /\ UNCHANGED ce
    /\ UNCHANGED <<clock, lock, power, call>>

-----------------------------------------------------------------------------
(* What a thread does while it owns the lock. *)
Locked(t) ==
    \/ FindHit(t) \/ FindMiss(t)
    \/ SweepAdvance(t) \/ SweepFree(t) \/ SweepEvict(t)
    \/ Claim(t) \/ Fill(t)
    \/ CopyOut(t) \/ CopyIn(t)
    \/ CloseStep(t)
    \/ Release(t)

Step(t) == Enter(t) \/ Acquire(t) \/ Locked(t) \/ PowerOff(t)

Next == power = "on" /\ \E t \in Threads : Step(t)

Spec == Init /\ [][Next]_vars

(* The round-robin scheduler runs every ready thread again and again, and  *)
(* the device answers every request.  Nothing makes a thread call the      *)
(* cache, and nothing keeps another thread from taking a free lock first.  *)
FairSpec ==
    Spec /\ \A t \in Threads : WF_vars(power = "on" /\ Locked(t))

-----------------------------------------------------------------------------
(* Properties. *)

(* The entry block_read has not filled yet: valid already, but its buffer *)
(* still holds the bytes of the sector it cached before.                  *)
Filling(i) == \E t \in Threads : pc[t] = "fill" /\ ce[t] = i

Loaded(i, s) == cache[i].valid /\ cache[i].disk_sector = s /\ ~Filling(i)

(* No sector is ever cached twice: cache_find would see only the first of *)
(* the two entries and a write-back of the other would undo its writes.   *)
OneEntryPerSector ==
    \A i, j \in Entries :
        /\ cache[i].valid
        /\ cache[j].valid
        /\ cache[i].disk_sector = cache[j].disk_sector
        => i = j

(* An entry whose dirty bit is clear may be dropped without a write-back: *)
(* it agrees with the disk.                                               *)
CleanMatchesDisk ==
    \A i \in Entries :
        (cache[i].valid /\ ~cache[i].dirty /\ ~Filling(i))
            => cache[i].buffer = disk[cache[i].disk_sector]

(* What the threads above the cache see of each sector. *)
Contents ==
    [s \in Sectors |->
        IF \E i \in Entries : Loaded(i, s)
        THEN cache[CHOOSE i \in Entries : Loaded(i, s)].buffer
        ELSE disk[s]]

(* When cache_close is about to give the lock back, the disk holds every *)
(* write that any thread has completed.                                  *)
CloseFlushesEverything ==
    \A t \in Threads :
        (pc[t] = "release" /\ call[t].op = "close") => disk = Contents

(* The sweep of cache_replace_find ends and with it every critical section: *)
(* whoever takes cache_lock gives it back, unless the power goes off first. *)
LockIsReleased ==
    \A t \in Threads : lock = t ~> (lock # t \/ power = "off")

(* Refinement: the cache behaves as an array of sectors with atomic reads *)
(* and writes.  An operation takes effect at its memcpy.                  *)
Phase ==
    [t \in Threads |->
        CASE pc[t] \in {"idle", "shutdown"} -> "idle"
          [] pc[t] = "release"              -> "done"
          [] OTHER                          -> "called"]

Store == INSTANCE SectorStore WITH store <- Contents, phase <- Phase
StoreSpec == Store!Spec
==============================================================================
