# SUSTech CS302: a TLA+ verification project

The repository holds the work of an operating systems course: three projects on
the teaching kernel Pintos, and a set of stand-alone laboratory programs. This
directory models its core logic in TLA+, checks the models with TLC on small
instances and proves properties of them with TLAPS for all instances.

## 1. Inventory of the system

### The kernel trees

| tree | what it is |
| --- | --- |
| `src/pintos/src` | project 1: priority scheduling, donation, `timer_sleep`, MLFQS. Only the changed files (`threads/thread.c`, `threads/synch.c`, `devices/timer.c`). |
| `src/pintos_pro3/src` | projects 2 and 3 on the complete kernel: processes and system calls, buffer cache, indexed and growing files. Round-robin scheduling, no donation. |
| `src/pintos-GDB/src` | an earlier state of project 1 on the complete kernel. |

Components, with their state and operations:

* **Buffer cache** (`pintos_pro3/src/filesys/cache.c`). State: `cache[64]`, the
  clock hand, `cache_lock`. Operations: `cache_init`, `cache_read`,
  `cache_write`, `cache_close`; inside them `cache_find`, `cache_replace_find`,
  `cache_flush`. Every thread that touches a file calls it; it calls the block
  device, which sleeps. Hard: what other threads may see between the steps of a
  miss; dirty victims; a sweep with every access bit set; closing while others
  write. Correct if readers and writers see plain sectors and nothing is lost.
* **Processes** (`userprog/process.c`, `userprog/syscall.c`,
  `userprog/exception.c`, `threads/thread.c`). State: `all_list`, per thread a
  `children` list of `child_process` entries, `exec_sema`, `child_status`,
  `parentId`. Operations: exec, wait, exit, being killed, `thread_exit`. Parent
  and child meet through two semaphores and otherwise through unprotected
  stores. Hard: every order of exec, exit and wait of parent, child and
  grandchild. Correct if exec reports the load of its own child, and a wait
  ends with the status of a child that is gone.
* **Priority scheduling and donation** (`src/pintos`). State: `ready_list`, two
  priorities, `waiting_lock` and `holding_locks` per thread; holder, semaphore,
  waiters and `max_pri` per lock. Operations: `lock_acquire`, `lock_release`,
  `thread_set_priority`, `thread_create`, `thread_yield`, `timer_sleep`, the
  timer interrupt. Hard: the donation loop runs with interrupts on. Correct if
  locks exclude, donations reach holders through chains and end with the lock,
  and the lists stay in order of priority.
* **MLFQS** (`src/pintos/src/threads/thread.c`): `recent_cpu`, `load_avg`, nice.
* **Inodes and free map** (`filesys/inode.c`, `filesys/free-map.c`). State: the
  bitmap of used sectors; per file a length and direct, indirect and doubly
  indirect entries; per open inode `open_cnt`, `removed`, `deny_write_cnt` and a
  copy of the inode on disk. Operations: `inode_create`, `inode_open`,
  `inode_close`, `inode_remove`, `inode_read_at`, `inode_write_at` (which grows the
  file), deny and allow write. Hard: a file removed or grown while several
  processes have it open; a device with no free sector; lengths at the edges of
  `off_t`. Correct if no sector belongs to two files, and none is lost.
* **Directories, files, system calls** (`filesys/directory.c`, `file.c`,
  `filesys.c`, `userprog/syscall.c`, `process.c`). State: the root directory, each
  process's descriptor list and next descriptor, a position per open file.
  Operations: create, remove, open, read, write, seek, close and exit, under
  `filesys_lock`, and halt, which takes no lock. Hard: the order in which processes
  open, remove, close and exit; one step of a call failing after earlier ones
  succeeded; a shutdown in the middle of a call. Correct if counters, directory and
  free map always tell the same story.
* **Serial output** (`devices/intq.c`, `devices/serial.c`,
  `lib/kernel/console.c`). State: a ring buffer with one registered waiter, its
  lock, the console's lock, the port's interrupt enable register. Threads put bytes
  and block when the ring is full; the transmit interrupt, or polling when
  interrupts are off, takes them out. Correct if bytes keep their order and a
  blocked thread is woken.
* Course-supplied parts used as they are: memory allocation, page directories,
  boot, drivers, kernel lists and bitmaps.

### The laboratory programs

* **lab 4**, a job scheduler (`scheduler.c`): a wait queue, the current and the
  next job, one child process per job. A timer signal runs `schedule` (a command
  from the FIFO, ageing, selection, switch), SIGCHLD reaps a child; either handler
  can interrupt the other. Correct if no job is lost, one runs at a time, and no freed
  record is used; the last holds but for one window, see below.
* **lab 6**, readers and writers over two semaphores and a counter, and a `main`
  that creates and joins the threads. Correct if a writer is alone.
* **lab 7**, the banker's algorithm: remaining, claimed, needed and allocated
  resources; commands new, request, terminate.
* **lab 8**, two allocators with linked lists of blocks: contiguous
  (`mm.cpp`; first, best and worst fit, merging after a kill) and paged
  (`mm_paging.cpp`). Correct if the lists partition the memory.
* **lab 9**, five page replacement policies, and **lab 10**, the disk
  arm algorithms FCFS, SSTF, SCAN and C-SCAN (with and without LOOK): sequential algorithms.
* **lab 1** and **Bonus_Lab4**: shell scripts and a merge sort.

What can go wrong in each, at which line, is listed under `hazards` in
`PROJECT.json`, with the properties that address it.

## 2. Modules

| module | models |
| --- | --- |
| `SectorStore` | abstract: an array of sectors with atomic reads and writes |
| `BufferCache` | `cache.c`; implements `SectorStore` |
| `BufferCacheProof` | its invariants and the refinement, proved |
| `Processes` | exec, wait, exit, kill, `thread_exit` |
| `ProcessesProof` | the load handshake, the safety of wait and the status it returns, proved |
| `PriorityDonation` | ready list, locks, donation, sleeping, preemption |
| `PriorityDonationProof` | mutual exclusion, the end of donations, the order of the lists, the wake-ups, and no priority inversion, proved |
| `Banker`, `BankerProof` | `lab7/banker.cpp`, and the proof that it stays safe and checks exactly |
| `Inode` | operators: free map, allocation, growth, positions, deallocation |
| `FileSystem` | the file system calls over `Inode`: directory, open inodes, descriptors, exit, halt |
| `FileSystemProof` | the counters of open inodes, the ownership of sectors, the directory, proved |
| `SerialPort`, `SerialPortProof` | console output through `intq.c` and `serial.c`, and its proofs |
| `JobScheduler`, `JobSchedulerProof` | `lab4/scheduler.c`, and its three invariants proved |
| `ReadersWriters` | `lab6/reader-writer` |
| `ContiguousAllocator`, `PagedAllocator` | `lab8/mm.cpp` and `lab8/mm_paging.cpp` |
| `ExercisesProof` | readers and writers exclude each other; the lists of `ContiguousAllocator` tile the memory, proved |
| `PageReplacement` | operators: the policies of `lab9/main.cpp`, with reference definitions |
| `DiskScheduling` | operators: the algorithms of `lab10/main.cpp`, with reference definitions |
| `MCBufferCache`, `MCProcesses`, `MCPriorityDonation`, `MCFileSystem`, `MCJobScheduler`, `MCPagedAllocator` | instances for TLC |
| `MCParts` | one instance for the programs of labs 6 to 10 and the serial port, of which a behaviour works with one |

Besides the definitions that model code, modules hold versions of some of them with
a plausible bug, placed just before the original with a comment that names the
bug (`intq_full_late` before `intq_full`). No action uses them; the `mutants` in
`PROJECT.json` say which property notices each of them.

### BufferCache

One action per stretch of code between two points at which a thread can lose the
processor. `pc` is the point, `call` the operation with its argument, `ce` the
entry in hand. `Enter`, `Acquire` and `Release` are the calls and the lock;
`FindHit` and `FindMiss` are `cache_find`; `SweepAdvance`, `SweepFree` and
`SweepEvict` are one round each of `cache_replace_find`; `Claim` and `Fill` are
the rest of the miss path, in the code's order (the entry is valid for its new
sector before `block_read` fills it); `CopyOut` and `CopyIn` are the two
`memcpy`s; `CloseStep` is one round of `cache_close`. `PowerOff` ends every
behaviour. A sector's contents are one value; offsets inside a sector are left to
the callers, as the functions move whole sectors.

The refinement maps `store` to what the cache would answer: the buffer of the
loaded entry for a sector, or the disk. An operation takes effect at its copy.

### Processes

Tids are handed out once, as `allocate_tid` does. `Exec` creates the child and
sleeps (one step: interrupts are off); `StartProcess` is the load, which succeeds
or fails, with the report to the parent; `ExecWakes` and `ExecReturns` are the rest of
`process_execute`, where the entry for the child is made only after the child
runs. `Exit`, `ExitRecord`, `ExitStatus` are the stores of the exit system call,
one by one; `ProcessExit`, `Unlist`, `Notify` are `thread_exit`. `WaitCheck`,
`WaitMark`, `WaitWakes` are `process_wait`. `thread_create` may fail
(`ExecNoThread`). Where `thread_exit` reads an uninitialised pointer the outcome
is a choice: no match, or a kernel of which nothing more is claimed
(`NotifyAstray`, `up = FALSE`). A parent that dies while its child walks its
children list leaves a freed page; the walk is taken to find nothing there.
Argument passing, page directories and the files of a process are left out.
`answers` is a history variable.

### PriorityDonation

One processor: `cur` runs, everybody else is on `ready_list`, on the waiters of a
lock, asleep or dead. Actions are atomic where interrupts are off; `lock_acquire`
runs with interrupts on, so its loop takes one action per access to shared
memory, and `Preempt` may come between any two. `NoThread` as `cur` is the idle
thread. A thread that follows a NULL or freed holder brings the kernel down
(`DonateAstray`). Left out: `thread_create`'s own use of `tid_lock`,
`lock_try_acquire` (nobody calls it), condition variables, exits with a lock in
hand, MLFQS.

`disturbed` is a history counter, bounded by `MaxDisturbances`. It counts the
three things that break the promise of donation in this code:

1. preemption inside `lock_acquire` or `lock_release`;
2. `thread_set_priority` lowering the priority of a lock's holder where it takes
   effect at once (`ori_pri == priority` is taken to mean "no donation");
3. a chain of donations that meets a lock released but not yet taken by the
   thread woken for it: the donation goes to nobody.

Only `NoInversion` is conditional on the counter being 0. Everything else holds
with the disturbances.

### Banker

`New`, `Request`, `Terminate` are the commands answered OK; a command answered NOT
OK changes nothing. `SafeCheck` is the code's double loop in the order of
`std::map`. A request of an unknown process indexes an empty vector
(`RequestUnknown`). Numbers are not negative, as in the exercise's inputs.

### Inode and FileSystem

Every call takes `filesys_lock` before it looks at shared state and keeps it to the
end, so `FileSystem` has one action per call; only `thread_exit` takes the lock anew
for each file it closes. `Inode` is therefore a module of operators on a *volume*:
the used sectors, what each sector holds (zeros, an index block, an inode), whether
an allocation has failed inside `inode.c`, and the assertions that failed.
`AllocateBlocks` is the loop that occurs at each level of the index, a recursive
function over its turns (`AllocateTurn`), and `AllocateUnder` one level of
`inode_allocate_indirect`; `AllocateIndirect` and `AllocateDoubly` are its levels 1
and 2. `ReleaseBlocks`, `ReleaseIndirect` and `ReleaseDoubly` are the same for
`inode_deallocate_indirect`, which asserts for each sector that it is marked.
`inode_write_at` grows the file exactly when
`byte_to_sector` of the last byte is -1, also when that byte is -1 itself.
`inode_read_at` computes the bytes left in `off_t`: behind the end of a file of
negative length that number may wrap, and sector -1 is asked for (`ReadsNowhere`).

`halt` goes to `filesys_done` without `filesys_lock`. `Halt` is a shutdown while nobody
else is in a call that writes; `CutCreate`, `CutWrite`, `CutRemove` and `CutClose` are
shutdowns in the middle of another process's call, after which the disk has what the
call had written when the cache was flushed. `Marking` is the free map during an
allocation, which takes the lowest sectors first; `Growing` adds the index blocks that
are written along with it, while the inode is saved only at the end; `Releasing` is the
free map during a release, over any set of the sectors (the code has one order; more
are allowed here). The entry of a new file counts once its last byte, `in_use`, is
written, and `dir_remove` erases an entry before it releases anything. A call that
goes on after `filesys_done` writes the bitmap through a freed file, and what still
reaches the disk before the power goes off is chance: `HaltAstray` stops the model.

A failed assertion stops the kernel and the model (`panic`). A device that becomes
full in the middle of an allocation also stops the model: the code ignores the
failure and writes to sector 0, after which there is no file system to talk about.
`Create` with no sector for its inode is `CreateFull`. The directory is a sequence of
entries, backed by an inode that grows with it. `OpenNoPage` is an `open` whose
`add_file` finds no memory: the file stays open with no descriptor (`lost`).
`CloseMissing` and `NoSuchFd` model the walk over a *copy* of the list head, whose
end is never met. `leaks` is a history variable: the four causes for sectors that no
file owns (a create that fails late, a write that shortens a file, a shutdown while a
removed file is open, a shutdown in the middle of a call). File contents, and the buffer cache below, are left out: the cache is
shown to be an array of sectors in its own module.

### SerialPort

The functions run with interrupts off, so an action goes from one point where a
thread can block to the next. `Putc`, `PutcWaits`, `Resume`, `ResumeWaits` are
`intq_putc` of a thread inside the console lock; `PutcIntrOff` and `PutcPolls` are
the same with interrupts off (handlers, panics), which skip the console lock and
send the oldest byte by polling when the ring is full; `SerialInterrupt` transmits a
byte; `serial_flush` empties the ring and leaves the interrupt enable register
alone, hence `SerialInterruptIdle`. `printed` and `sent` are history variables.

### JobScheduler

`stack` holds the signal handlers in progress; a handler may interrupt the other but
not itself. `schedule` takes a step for its command, the selection, the free of a DONE
job, `current = NULL` and the switch, with SIGCHLD possible before each: between the
free of the current job, in `jobswitch` or `do_deq`, and `Clear`, `current` dangles
(`Freed`). The handler of SIGCHLD takes a step for `waitpid`, the load of
`current->job` (`Load`), the store of DONE through what it loaded (`Store`) and the
loads for its message (`Report`), with a tick possible before each. Following a NULL
`current` crashes; following a dangling one, or storing into a record that a tick has
freed, is a choice: nothing, a crash, or DONE in the record of a job that got the
memory since. After a crash nothing is claimed. Children are small
state machines: not yet stopped by themselves, stopped, running, ended, reaped. The
code's choices are kept: `SIGCHLD` marks the *current* job DONE whoever died,
and `kill` with swapped arguments reaches nobody. The client programs
`enq`, `deq` and `stat` write a command to the FIFO and are its nondeterminism.

### ReadersWriters

One action per semaphore operation, with what the thread does up to the next.
`main` writes a reader's handle to the slot counted by *writers* (`rehs[j]`), so it may
join an empty slot (`JoinNobody`: an error code or a crash) and may return before
every reader is done, which ends them.

### The allocators

`ContiguousAllocator` keeps the free and the allocated list as the code's order has
them. `rearrange` sorts by exchanging (`SortByAddress`), then merges in one pass in
which a block that has just grown is not compared again (`MergePass`); the loops are
recursive functions over their turns. The uninitialised `next` of a node from `malloc` is a
choice (`looped`), possible only once a failed create has kept a struct.
`PagedAllocator` models `free_mem` with its `pre` pointer that stays on a removed head.

### PageReplacement and DiskScheduling

Folds over the request sequence. `min` is the set of its runs, one for each way in
which the hash order of `pos_map` may break a tie. The references are definitions of
another kind: for `min` the best over all choices of victims; for `lru` the last K
distinct pages by recency; for the arm algorithms that each request, and each end of
the disk they go to, is visited once, for SSTF a nearest one each time. The printed
sums are compared with the travel when a request lies below the head and two above it;
at the edges the code prints other numbers, of which no comment or test says anything.

## 3. What TLC checks

| run | result | shows |
| --- | --- | --- |
| `cache` | pass | `StoreSpec`: two threads over the cache see atomic sectors. `OneEntryPerSector`, `CleanMatchesDisk`: why. `CloseFlushesEverything`: after `cache_close` the disk has every completed write. `LockIsReleased`: the clock sweep ends. |
| `processes` | pass | `ExecReportsLoad`, `ParentAwaitsLoad`, `NoStaleLoadSignal`: the load handshake. `WaitMeansGone`: no status of a running child. `WaitStatusExplained`: the status of a child that called exit is the one it passed, or the entry's initial 0 in the two races the property names. `ExecEnds`, `MarkedWaitEnds`: exec ends if it made a child; a wait ends if the mark came before the child's last look. |
| `wait_ends` | violation | a parent can sleep in `process_wait` for ever although its child is dead |
| `wait_once` | violation | a second wait for the same child can return its status again |
| `killed_status` | violation | a wait for a child killed by an exception can return 0 instead of -1 |
| `donation` | pass | `LockExclusive`, `HoldingIsHeld`, `OnePlace`, `ReadySorted`, `WakesHighest`, `NoLostWakeup`, `DonationReturned` under every preemption; `NoInversion` without disturbances |
| `donation_panic` | violation | the donation loop can dereference a NULL holder |
| `filesystem` | pass | With a shutdown between or in the middle of calls: `SectorsOwnedOnce`: no sector in two files, each byte of a file has a sector of that file. `NoOtherLeaks`: sectors come back, but for the causes the property names. `CountsMatch`, `DirectoryMatchesInodes`: open counts, denials and names agree with the open files. `BookkeepingAsserts`: nothing is released twice. `OnlyEmptyWritesShorten`: the one way a file gets shorter. |
| `closed_fd` | violation | closing a descriptor twice can panic the kernel |
| `jobs` | pass | `JobsAccountedFor`: no job is lost or in two places under any nesting of the handlers, and freed memory is reached only from `current`, between the free of the current job and `current = NULL`. `QueuedJobsStandStill`, `NoHigherPriorityWaits`. |
| `parts` | pass | `MemoryTiled`, `AtMostOneSeam`: the allocator's lists partition memory, and the one-pass merge leaves at most one unmerged pair. `ReplacementCorrect`, `ArmCorrect`: against the references. `BytesInOrder`, `WaiterWillBeWoken`: serial output. `WritersAlone`. `AlwaysSafe`: no sequence of commands leads the banker to an unsafe state. `CheckIsExact`: `safe_check` agrees with the textbook definition over all orders. `BooksBalance`. |
| `paging` | violation | killing a process can leave one of its pages both allocated and free |

The violations are under `findings`, each with the comment or test it contradicts. Three
of them are about the comment of `process_wait`, which promises an end, -1 for a killed
child and -1 for a second wait; `kill` records no status, so a parent that
already waits gets the entry's 0. The comment's first promise, the status, fails in
two races; `WaitStatusExplained`, in the passing run, says that there are no others. It
claims nothing about children that were killed.

**Bounds.** The cache has 2 entries over 3 sectors: every miss on a full cache
evicts, the hand wraps, and one thread can evict what the other made dirty; two
threads are all that one lock can tell apart, one inside and one outside. Sector
contents are two values. Processes: 3 tids, so a parent with two children, or a
grandchild whose parent may die first; `MaxThreads` = 3 lets `thread_create`
fail. Donation: three threads, two locks, three priorities are the least with
nested donation, donation through a chain, and a thread that barges in;
`MaxDisturbances` = 1 keeps the state space finite in time and lets each kind of
disturbance happen at every place, once. Threads besides the main one, and locks,
are symmetric; no liveness is checked there. Banker: three processes and two kinds
with two units each give safe orders against the order of the map and requests
that `safe_check` needs more than one pass for.

File system: two processes, a legal and a too long name, 12 sectors of 2 bytes. With
one direct entry and index blocks of one entry a file of 6 bytes uses all three kinds
of index and one of 3 bytes ends inside a sector; two such files fit, a larger one
beside another does not; two creates can meet on a name or fill the device, and `MaxFd` = 1 gives each
process a descriptor, so that a file is removed or grown under another opener.
`OFF_MAX` = 9 brings the wrap-around of a position within reach; `Fds` has a
descriptor that is open and ones that are not. `MaxMishaps` = 1 allows one `open`
without memory or one shutdown, after which calls go on with what is left of
`MaxCreates`, so that a sector freed or lost by a cut can be allocated again;
`MCAfterHalt` bounds what is explored then: no exit, open files of the one process that
may write only, positions up to 3. Index blocks of more than one entry are left to the
proofs. `closed_fd` needs two descriptors of one process.
Jobs: three (current, next and one that waits), priorities 1 and 3, so that waiting can
bring a job level and a current job can keep its place, waits up to
2 told apart, as they only break ties. Allocator: 7 units of memory and 7
creates leave three free blocks in a row to merge. Replacement: all sequences of up
to 8 requests over 5 pages, up to renaming, with 2 to 4 frames; disk: all sets of up
to 4 requests on 5 tracks. Serial port: a ring of 3 slots (2 bytes), 6 bytes
printed, two printers and handlers: it wraps, fills, and is emptied while a
thread is blocked. Readers and writers: three and two, so that a middle reader is
neither first nor last and two writers compete.

**Fairness.** `pintos_pro3` schedules round robin, so a thread that can run does
run: each thread's steps inside the kernel are weakly fair, per thread. Device
requests are answered, so block transfers end. Nothing is assumed about programs
(calls are never fair) and nothing about who gets a free lock: `LockIsReleased`
says that the holder gives the lock back, not that a given waiter gets it.
`PriorityDonation` states no liveness: under strict priorities a low thread may
starve. The modules `FileSystem` to `DiskScheduling` state safety only: a
call or algorithm is one step, signals come from outside, and POSIX semaphores
promise no order among the waiters. That a blocked printer is woken is stated as
an invariant (`WaiterWillBeWoken`: registered, ring full, interrupt enabled).

## 4. What TLAPS proves

For all values of the constants, from the named assumptions of the modules
(sizes positive, `NoThread` not a thread, priorities natural numbers, and so on).

* `BufferCacheProof`: `TypeCorrect`, `OneEntry`, `CleanAgrees`, `CloseFlushes`
  and `CacheImplementsStore`. The inductive invariant adds to the properties who
  may be inside the lock (`OwnerInside`), that a miss stays a miss until the claim
  (`MissStays`: without it a claim could duplicate a sector), what the entry in
  hand is (`EntryInHand`) and how far a close has come (`FlushProgress`). For the
  refinement each action either leaves `Contents` as it is or is the abstract read
  or write; flushing and filling are stutters because a clean entry agrees with the
  disk.
* `ProcessesProof`: `TypeCorrect`, `LoadHandshake`, `NoSignalLeftOver`,
  `ParentIsThere`, `NoAnswerWhileRunning`. The invariant says that `exec_sema` counts exactly the
  reports not yet taken and that a report is about the child in hand
  (`Handshake`), that tids are fresh, and that an entry says `exited`, or has its
  semaphore up, only for a process past that point (`EntriesTell`).
  `AnswersAreExplained` states the action property `WaitStatusExplained`. It needs two
  more invariants (`StatusHolds`): entries and calls stay within a family, a parent
  and the threads it created (`Family`), and what an entry holds is what its child
  passed to exit, or 0 for a reason that can still be seen (`StatusTold`).
* `PriorityDonationProof`, for any threads, locks, priorities and disturbances, in
  three parts. `MutualExclusion`, `HoldingAgrees` and `DonationsEnd` do not depend on the
  order of the lists, so their invariant types only what the lock operations read, and
  adds that a call has its lock and that no holder is recorded in the windows around
  the semaphore. `PlacesHold` is the second invariant, from which `TypesHold`,
  `ThreadInOnePlace`, `ReadyIsSorted`, `WakeupsArrive` and the action property
  `HighestIsWoken` follow: no list has a thread twice, the ready list is in order, and
  a thread on a list of waiters is blocked on that lock and neither runs nor is ready
  (`Queues`). It rests on lemmas about the list functions: an insertion keeps the order
  and adds just one thread, also after a donation has taken a thread out of the ready
  list to insert it again under its new priority; and the stable sort of `sema_up` puts
  a thread of the highest priority first, through the rank of a thread in its list.
  Lists of waiters need not be in order. Three threads are too few for donations to
  disorder one, so that the sort matters only beyond the instance of the run; the
  theorem covers it.
  `InversionNever` is the third part, that donation does what it is for, through chains
  of any length. Like `NoInversion` it speaks of behaviours without disturbances
  (`disturbed = 0`). Its invariant (`DonationHolds`) describes the donation loop at
  every point. Only the running thread is inside the lock code, blocked threads apart
  (`Alone`), so what the loop has read is still true (`Chained`) and blocked threads
  have recorded the lock they wait for (`Marked`). A thread has the priority its locks
  have been offered and no more (`Raised`, `Lowered`), and a blocked thread has offered
  its own to the lock it waits for (`Offered`, `Backed`); the exceptions say exactly
  where the loop is (`Pending`, `Reaching`). When a lock is free, the thread woken for
  it ranks no lower than those that still wait (`Woken`, but for one the loop is
  `Raising`), and nobody runs in its place with a lower priority (`Outranks`), so
  whoever takes the lock ranks no lower than all who want it (`Took`). Before the proof TLC
  checked this invariant on three threads and two locks with one disturbance
  (1,242,378 states), and on four threads without.
* `JobSchedulerProof`: `NoJobIsLost`, `OneJobAtATime` and `HighestRuns`, for any number
  of jobs and any default priorities. The loop of `jobselect` is a recursive function
  over its turns; induction over them shows that it finds a job of the highest
  priority (`SelectsHighest`), whatever the stale `highest_wait` does to ties. The
  invariant says where the handlers can be (`Stacks`, `Steps`), where each job is
  and when `current` dangles (`Accounted`), that what waits or is about to start does not run (`Still`), and that
  the choice still ranks highest when `jobswitch` uses it (`Chosen`), though a SIGCHLD
  may have come in between.
* `FileSystemProof`: `CountsHold` and `DenialsInRange`, for any processes, names,
  descriptors and sizes of the device. The invariant gives the lists their shape
  (a process's list and the lost files, of files only) and says that `open_cnt` and `deny_write_cnt`
  are the numbers of open files and of deniers. Closing takes a file out of the middle
  of a list and moves those behind it up; the counts are compared through bijections
  between the open files before and after. `dir_remove` opens and closes the inode it
  removes, which leaves the counts of the others alone.
  `SectorsHold`, `NoLeaksHold`, `DirectoryHolds`, `AssertsHold` and `ShorteningHolds`
  follow from one more invariant, `FsInv` (`FsInvHolds`), for a device of any size and
  any numbers of direct and index entries. The argument goes up in layers:
  1. The entries of an inode, wherever they are, are a function on places (`Tree`):
     the direct ones, the index block and its entries, the doubly indirect block, the
     blocks under it and theirs. `Needs(n, x)` says which places `n` sectors need.
  2. The loops, by induction over their turns, level by level: `inode_allocate` fills
     places with sectors that were free, each with one of its own, changes no other
     place, and writes to no sector that was marked; then every place that is needed
     has a sector. `inode_deallocate` releases exactly what is at the places that the
     length needs, and no sector twice (`free_map_release` would fail its assertion).
  3. A volume with several inodes (`Sound`: every entry of every inode is marked, no
     two have the same sector; `Covered`: an inode has what its length needs; `Exact`:
     and nothing else) keeps this when one of its inodes grows, is created or goes.
     `Covered` is what makes a release safe, and `Exact` what makes it complete; it is
     lost when a write shortens a file, which is one of the causes in `leaks`.
  4. With the directory and the open inodes (`Fits`): an inode is read from memory
     while it is open and from the disk otherwise, entries and open inodes name
     different inodes, and the removed ones are those without an entry.
  5. Each call keeps `Fits`, unless it panics or the device fills up. That the
     counters are right (`Inv`) is needed here: an inode is released at the last close,
     when no other file refers to it. Positions stay in 0 .. `OFF_MAX` (`Offsets`).
  6. So does a shutdown in the middle of a call (`CutCreateFits`, `CutWriteFits`,
     `CutRemoveFits`, `CutCloseFits`). What the cut call has marked or written belongs to
     no saved inode: index blocks go to sectors that were free (`GrowingKeeps`), a new
     file without an entry is not listed (`FitsMade`, `EntryUnwritten`), and a file that
     is being released has lost its entry. What is left marked without an owner is in
     `leaks` as a cut, and nothing more is claimed of it.
  The assumptions are those of `Inode` and `FileSystem`: sizes of sectors and index
  blocks are positive, and the sizes and positions of the calls are `off_t` values:
  `syscall.c` passes unsigned arguments on to parameters of that type.
* `BankerProof`: `BooksAlwaysBalance`, `NeverUnsafe` and `CheckDecidesSafety`, for any
  processes, kinds and amounts. The idea is `NoneStuck`: in every set of processes
  somebody can finish while the others of the set wait. `SafeUnstuck` and
  `UnstuckSafe` show that a state is safe in the textbook sense exactly then, and
  `CheckIsUnstuck` that `safe_check` says so exactly then: what it has finished is in
  no stuck set (`Sound`), and a pass that meets no stuck set finishes somebody more,
  so that as many passes as processes are enough. The commands preserve `NoneStuck`:
  a new process has nothing and asks for no more than there is, one that ends gives
  everything back, and a request was checked.
* `ExercisesProof`: `ReadersWritersExclude`, for any finite sets of readers and
  writers. `WritersAlone` says nothing of the windows around the semaphores, so the
  invariant adds that `rc` is a mutex (`RcIsMutex`), that `readcount` is the number of
  readers counted in (`CountIsRight`), and that `db` is held once: by a writer or by
  the readers as a group (`DbIsHeldOnce`).
  `MemoryTiledHolds` and `OneSeamHolds`, for any memory and process sizes and any
  number of creates and kills. The invariant (`AInv`, `AllocatorInv`) says that both
  lists are in order of address without overlap, that together they cover exactly the
  addresses below `mem_size`, and that free blocks meet at one address at most
  (`OneSeam`); a memory of no bytes is a case of its own. Induction over the turns of the loops gives
  what `rearrange` does: the exchanges put the blocks in order (`InnerSorts`, `Sorts`),
  and the merging pass covers the same addresses (`Merges`). The pass misses a pair only
  when its first block has just been merged with the one before (`Missed`), so two
  missed pairs need blocks that meet at four addresses. A kill brings at most two such
  addresses to the one that may be left, which makes three: `MissesOne`. The property
  `AtMostOneSeam` is thus inductive only because of how few a kill can add.
* `SerialPortProof`: `TransmittedInOrder` and `NoWaiterForgotten`, for any ring size of
  at least 2, any threads and bytes. Lemmas about the ring (`PutAppends`,
  `GetTakesFirst`: putting appends to its contents, getting removes the first) carry
  the order. For the waiter the invariant says that one thread is in the console
  (`OneInConsole`), so that nobody competes for the ring's lock, who holds that lock
  (`LockWhileWaiting`, `LockInConsole`), and that a ring with bytes has its interrupt
  enabled.

The library's induction theorems take an operator as a parameter, which the provers
cannot instantiate. Where a proof needs induction (the turns of a loop, the subsets of
a finite set) it goes through a *set* of numbers: `SetInduction`, from the theorem that
a set of numbers has a least element, and `SubsetInduction` in `BankerProof`. A loop is
then a recursive function, of which a lemma first shows that it exists
(`LoopRuns`, `PassesRun`).

Only model-checked:

* liveness (`LockIsReleased`, `ExecEnds`, `MarkedWaitEnds`): the prover has no reasoning
  about fairness. `WaitEnds` is violated under the same fairness;
* `ReplacementCorrect` and `ArmCorrect`: the references of the algorithms are
  themselves recursive over the requests.

## 5. Plan

Done: buffer cache, processes, donation, banker, inodes and file system calls, serial
output, job scheduler, readers and writers, allocators, page replacement, disk arm.

Open, in this order:

1. Condition variables and plain semaphores of `src/pintos/src/threads/synch.c`.
2. File contents: a file as a growing sequence of blocks, refined by `FileSystem`.

### Not modelled

* MLFQS: 16.16 arithmetic in 32 bits, whose edges small instances do not reach, and
  `threads/fixed-point.h` is not in that tree.
* `palloc`, `malloc`, page directories, boot, interrupt entry, other drivers, lists and
  bitmaps: hardware access, or course-supplied and unchanged. Where modelled code
  calls them they appear as what they do.
* Key input: `kbd.c` and the receive half of `serial.c` fill a queue whose only reader,
  `input_getc`, nothing in the kernel calls.
* `lab8/replacement.cpp` and `lab8/cache.cpp`, drafts of what lab 9 does; shell scripts;
  the merge sort; `src/pintos-GDB`, an earlier state of project 1.

### Further edges met while reading

Not covered by a property, because they lie in code or layouts the models abstract:

* `process_wait` starts at the list head itself and reads memory before it as a first
  entry (`process.c:262`); `thread_exit` reads an uninitialised pointer when the
  parent has no children (`thread.c:337`; a choice in `Processes`).
* `lock_try_acquire` does not add the lock to `holding_locks`, from which
  `lock_release` removes it (`synch.c:243`); `sema_up` yields, which is not allowed in
  the interrupt handlers it is documented for (`synch.c:124`).
* `cache_read` copies with `cache_lock` held, where a page fault would need the cache
  again (`cache.c:107`).
* A process is protected from writes to its own executable only after it opens it
  itself (`syscall.c:260`).
* A failed `thread_create` leaves `process_execute` asleep on `exec_sema`
  (`process.c:127`, `ExecNoThread`); `ExecEnds` is about execs that made a child.
* An empty write at position 0 counts as growth and sets the length of the file to 0
  (`inode.c:316`), where `tests/userprog/write-zero.c:1` expects a call that returns 0
  "without writing anything"; `OnlyEmptyWritesShorten` and `NoOtherLeaks` name it as
  their exception.
* Once a length has wrapped to a negative number, a read can ask for sector -1
  (`inode.c:259`), at which the block layer panics; the model stops there.
* lab 4: SIGCHLD marks the current job as done whoever died, so that a job can be
  removed while its process runs (`scheduler.c:228`); a child that is continued before it has stopped itself stays stopped; a second
  SIGCHLD during the handler's wait is merged with the first; ties by waiting time
  depend on list order; a DONE stored between the test in `jobswitch` and
  `state = READY` is lost, and the job is queued with no process.
* lab 7: a negative request passes both tests (`banker.cpp:94`). lab 9: with one frame
  `second_chance` takes the front of an empty queue.
