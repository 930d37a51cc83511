--------------------------- MODULE PriorityDonation ---------------------------
(***************************************************************************)
(* Priority scheduling, locks and priority donation of pintos/src/threads  *)
(* (thread.c, synch.c) and timer_sleep of pintos/src/devices/timer.c, with *)
(* thread_mlfqs false.                                                     *)
(*                                                                         *)
(* There is one processor: cur runs, and an action is a stretch of code of *)
(* cur that no interrupt can divide.  Where interrupts are on, the timer   *)
(* may wake sleepers and take the processor away between any two accesses  *)
(* to shared memory, so the donation loop of lock_acquire, which runs with *)
(* interrupts on, takes one access per action.  thread_create's use of     *)
(* tid_lock is left out; clients acquire no lock they hold and exit        *)
(* holding none, as the assertions demand.                                 *)
(***************************************************************************)
EXTENDS Integers, Sequences, FiniteSets, SequencesExt, FiniteSetsExt

CONSTANTS
    Threads,    \* kernel threads, besides the idle thread
    Main,       \* the initial thread
    Locks,
    Priorities, \* PRI_MIN .. PRI_MAX
    Default,    \* PRI_DEFAULT
    NewPriorities,      \* arguments of thread_set_priority
    MaxDisturbances,    \* bound: disturbances of donation in a behaviour
    NoThread,   \* a NULL holder, and as cur the idle thread
    NoLock      \* a NULL waiting_lock

ASSUME MainAssumption == Main \in Threads
ASSUME PrioritiesAssumption == Priorities \subseteq Nat /\ Default \in Priorities
ASSUME NewPrioritiesAssumption == NewPriorities \subseteq Priorities
ASSUME DisturbancesAssumption == MaxDisturbances \in Nat
ASSUME NoThreadAssumption == NoThread \notin Threads
ASSUME NoLockAssumption == NoLock \notin Locks

VARIABLES
    cur,            \* the running thread
    ready_list,
    priority, original_pri, waiting_lock, holding_locks,    \* struct thread
    holder, max_pri, value, waiters,                        \* struct lock
    pc,             \* pc[t]: where t is in the code
    want,           \* want[t]: the lock argument of its call
    lk,             \* lk[t]: local variable lk of lock_acquire
    fetched,        \* fetched[t]: lk->holder as last read
    loaded,         \* loaded[t]: cur->priority as last read
    up,             \* FALSE once the kernel has followed a bad pointer
    disturbed       \* history: how often donation was disturbed, see below

threadVars == <<priority, original_pri, waiting_lock, holding_locks>>
lockVars == <<holder, max_pri, value, waiters>>
localVars == <<want, lk, fetched, loaded>>
vars == <<cur, ready_list, threadVars, lockVars, pc, localVars, up, disturbed>>

Donating == {"mark", "test", "store", "fetch", "donate", "follow", "next"}
Calling == Donating \cup {"down", "blocked", "took", "remove", "up"}
Points == Calling \cup {"unborn", "run", "sleep", "dead"}

TypeOK ==
    /\ cur \in Threads \cup {NoThread}
    /\ ready_list \in Seq(Threads)
    /\ priority \in [Threads -> Priorities]
    /\ original_pri \in [Threads -> Priorities]
    /\ waiting_lock \in [Threads -> Locks \cup {NoLock}]
    /\ holding_locks \in [Threads -> SUBSET Locks]
    /\ holder \in [Locks -> Threads \cup {NoThread}]
    /\ max_pri \in [Locks -> Nat]
    /\ value \in [Locks -> {0, 1}]
    /\ waiters \in [Locks -> Seq(Threads)]
    /\ pc \in [Threads -> Points]
    /\ want \in [Threads -> Locks \cup {NoLock}]
    /\ lk \in [Threads -> Locks \cup {NoLock}]
    /\ fetched \in [Threads -> Threads \cup {NoThread}]
    /\ loaded \in [Threads -> Priorities]
    /\ up \in BOOLEAN
    /\ disturbed \in 0 .. MaxDisturbances

(* thread_init: the main thread runs, and no other thread exists.  lock_init *)
(* leaves max_pri of a lock as it is; locks are static or on zeroed stacks.  *)
Init ==
    /\ cur = Main
    /\ ready_list = <<>>
    /\ priority = [t \in Threads |-> Default]
    /\ original_pri = [t \in Threads |-> Default]
    /\ waiting_lock = [t \in Threads |-> NoLock]
    /\ holding_locks = [t \in Threads |-> {}]
    /\ holder = [l \in Locks |-> NoThread]
    /\ max_pri = [l \in Locks |-> 0]
    /\ value = [l \in Locks |-> 1]
    /\ waiters = [l \in Locks |-> <<>>]
    /\ pc = [t \in Threads |-> IF t = Main THEN "run" ELSE "unborn"]
    /\ want = [t \in Threads |-> NoLock]
    /\ lk = [t \in Threads |-> NoLock]
    /\ fetched = [t \in Threads |-> NoThread]
    /\ loaded = [t \in Threads |-> Default]
    /\ up = TRUE
    /\ disturbed = 0

-----------------------------------------------------------------------------
(* The scheduler. *)

At(t, point) == up /\ cur = t /\ pc[t] = point
Goto(t, point) == pc' = [pc EXCEPT ![t] = point]

(* list_insert_ordered with thread_cmp_pri under priorities pri: before the *)
(* first thread of lower priority.                                          *)
InsertOrdered(list, t, pri) ==
    LET lower == { i \in DOMAIN list : pri[t] > pri[list[i]] }
    IN  InsertAt(list, IF lower = {} THEN Len(list) + 1 ELSE Min(lower), t)

(* Mutant of Ahead: thread_cmp_pri compares the wrong way round. *)
AheadAscending(list, i) ==
    { j \in DOMAIN list : \/ priority[list[j]] < priority[list[i]]
                          \/ priority[list[j]] = priority[list[i]] /\ j <= i }

(* The place of the i-th thread of list among all, by priority and then by *)
(* the order they are in: what list_sort, which is stable, gives it.       *)
Ahead(list, i) ==
    { j \in DOMAIN list : \/ priority[list[j]] > priority[list[i]]
                          \/ priority[list[j]] = priority[list[i]] /\ j <= i }
Rank(list, i) == Cardinality(Ahead(list, i))

(* list_sort with thread_cmp_pri. *)
Sorted(list) ==
    [k \in DOMAIN list |-> list[CHOOSE i \in DOMAIN list : Rank(list, i) = k]]

(* list_remove of a thread in the list. *)
Without(list, t) == RemoveAt(list, CHOOSE i \in DOMAIN list : list[i] = t)

(* next_thread_to_run and the switch of schedule, from the given list. *)
Schedule(list) ==
    /\ cur' = IF list = <<>> THEN NoThread ELSE Head(list)
    /\ ready_list' = IF list = <<>> THEN <<>> ELSE Tail(list)

(* thread_yield by t, over the given ready list and priorities. *)
Yield(t, list, pri) == Schedule(InsertOrdered(list, t, pri))

(* thread_update_pri: the priority of t when it holds the locks held. *)
UpdatedPri(t, held) == Max({original_pri[t]} \cup { max_pri[l] : l \in held })

(* What breaks the promise of donation, counted and bounded. *)
Disturb ==
    /\ disturbed < MaxDisturbances
    /\ disturbed' = disturbed + 1

(* The timer preempts cur.  Its interrupts are on except in the loop of      *)
(* sema_down.  Preemption inside lock_acquire or lock_release is what the    *)
(* history calls a disturbance.                                              *)
Preempt(t) ==
    /\ up /\ cur = t /\ pc[t] # "blocked"
    /\ Yield(t, ready_list, priority)
    /\ IF pc[t] = "run" THEN UNCHANGED disturbed ELSE Disturb
    /\ UNCHANGED <<threadVars, lockVars, pc, localVars, up>>

(* timer_sleep: the thread blocks on no list. *)
TimerSleep(t) ==
    /\ At(t, "run")
    /\ Goto(t, "sleep")
    /\ Schedule(ready_list)
    /\ UNCHANGED <<threadVars, lockVars, localVars, up, disturbed>>

(* timer_interrupt: thread_b_check finds that t has slept long enough. *)
Wake(t) ==
    /\ up /\ pc[t] = "sleep"
    /\ cur # NoThread => pc[cur] # "blocked"
    /\ Goto(t, "run")
    /\ ready_list' = InsertOrdered(ready_list, t, priority)
    /\ UNCHANGED <<cur, threadVars, lockVars, localVars, up, disturbed>>

(* idle: back from hlt, it blocks again and so lets a ready thread run. *)
IdleBlocks ==
    /\ up /\ cur = NoThread
    /\ ready_list # <<>>
    /\ Schedule(ready_list)
    /\ UNCHANGED <<threadVars, lockVars, pc, localVars, up, disturbed>>

(* thread_create: a new thread that may outrank its creator. *)
ThreadCreate(t) ==
    /\ At(t, "run")
    /\ \E u \in Threads, p \in Priorities :
          /\ pc[u] = "unborn"
          /\ Goto(u, "run")
          /\ priority' = [priority EXCEPT ![u] = p]
          /\ original_pri' = [original_pri EXCEPT ![u] = p]
          /\ LET list == InsertOrdered(ready_list, u, priority') IN
             IF priority[t] < p THEN Yield(t, list, priority')
             ELSE cur' = cur /\ ready_list' = list
    /\ UNCHANGED <<waiting_lock, holding_locks, lockVars, localVars, up, disturbed>>

(* thread_exit.  The page of t is freed: its priorities mean nothing more. *)
ThreadExit(t) ==
    /\ At(t, "run")
    /\ holding_locks[t] = {}
    /\ Goto(t, "dead")
    /\ priority' = [priority EXCEPT ![t] = Default]
    /\ original_pri' = [original_pri EXCEPT ![t] = Default]
    /\ Schedule(ready_list)
    /\ UNCHANGED <<waiting_lock, holding_locks, lockVars, localVars, up, disturbed>>

(* Does thread_set_priority take new over as the priority of t at once? *)
TakesEffect(t, new) ==
    \/ original_pri[t] = priority[t]
    \/ holding_locks[t] = {}
    \/ new > priority[t]

(* thread_set_priority.  A thread that holds a lock and lowers its priority *)
(* where that takes effect at once disturbs donation as well.               *)
SetPriority(t) ==
    /\ At(t, "run")
    /\ \E new \in NewPriorities :
          /\ original_pri' = [original_pri EXCEPT ![t] = new]
          /\ IF TakesEffect(t, new)
             THEN /\ priority' = [priority EXCEPT ![t] = new]
                  /\ Yield(t, ready_list, priority')
                  /\ IF holding_locks[t] = {} \/ new >= priority[t]
                     THEN UNCHANGED disturbed ELSE Disturb
             ELSE UNCHANGED <<priority, cur, ready_list, disturbed>>
    /\ UNCHANGED <<waiting_lock, holding_locks, lockVars, pc, localVars, up>>

-----------------------------------------------------------------------------
(* lock_acquire *)

(* lock_acquire up to its test of lock->holder. *)
LockAcquire(t) ==
    /\ At(t, "run")
    /\ \E l \in Locks :
          /\ holder[l] # t
          /\ want' = [want EXCEPT ![t] = l]
          /\ Goto(t, IF holder[l] # NoThread THEN "mark" ELSE "down")
    /\ UNCHANGED <<cur, ready_list, threadVars, lockVars, lk, fetched, loaded, up, disturbed>>

(* cur->waiting_lock = lock; lk = lock; *)
MarkWaiting(t) ==
    /\ At(t, "mark")
    /\ waiting_lock' = [waiting_lock EXCEPT ![t] = want[t]]
    /\ lk' = [lk EXCEPT ![t] = want[t]]
    /\ Goto(t, "test")
    /\ UNCHANGED <<cur, ready_list, priority, original_pri, holding_locks,
                   lockVars, want, fetched, loaded, up, disturbed>>

(* The condition of the donation loop. *)
DonateTest(t) ==
    /\ At(t, "test")
    /\ IF lk[t] # NoLock /\ priority[t] > max_pri[lk[t]]
       THEN /\ loaded' = [loaded EXCEPT ![t] = priority[t]]
            /\ Goto(t, "store")
            /\ UNCHANGED lk
       ELSE /\ lk' = [lk EXCEPT ![t] = NoLock]
            /\ Goto(t, "down")
            /\ UNCHANGED loaded
    /\ UNCHANGED <<cur, ready_list, threadVars, lockVars, want, fetched, up, disturbed>>

(* lk->max_pri = cur->priority; *)
DonateStore(t) ==
    /\ At(t, "store")
    /\ max_pri' = [max_pri EXCEPT ![lk[t]] = loaded[t]]
    /\ loaded' = [loaded EXCEPT ![t] = Default]
    /\ Goto(t, "fetch")
    /\ UNCHANGED <<cur, ready_list, threadVars, holder, value, waiters, want, lk,
                   fetched, up, disturbed>>

(* lk->holder is read, as the argument of thread_donate_pri ("fetch") or to *)
(* follow its waiting_lock ("follow").                                      *)
FetchHolder(t) ==
    /\ up /\ cur = t /\ pc[t] \in {"fetch", "follow"}
    /\ fetched' = [fetched EXCEPT ![t] = holder[lk[t]]]
    /\ Goto(t, IF pc[t] = "fetch" THEN "donate" ELSE "next")
    /\ UNCHANGED <<cur, ready_list, threadVars, lockVars, want, lk, loaded, up, disturbed>>

(* Is the thread last fetched one that may be looked into? *)
Fetched(t) == fetched[t] # NoThread /\ pc[fetched[t]] # "dead"

(* Mutant of DonatePri: a ready thread keeps its place in the list. *)
DonatePriInPlace(t) ==
    /\ At(t, "donate")
    /\ Fetched(t)
    /\ LET h == fetched[t] IN
       priority' = [priority EXCEPT ![h] = UpdatedPri(h, holding_locks[h])]
    /\ fetched' = [fetched EXCEPT ![t] = NoThread]
    /\ Goto(t, "follow")
    /\ UNCHANGED <<cur, ready_list, original_pri, waiting_lock, holding_locks, lockVars,
                   want, lk, loaded, up, disturbed>>

(* Mutant of DonatePri: it inserts whatever the status of the thread. *)
DonatePriAnyStatus(t) ==
    /\ At(t, "donate")
    /\ Fetched(t)
    /\ LET h == fetched[t] IN
       /\ priority' = [priority EXCEPT ![h] = UpdatedPri(h, holding_locks[h])]
       /\ ready_list' = InsertOrdered(Remove(ready_list, h), h, priority')
    /\ fetched' = [fetched EXCEPT ![t] = NoThread]
    /\ Goto(t, "follow")
    /\ UNCHANGED <<cur, original_pri, waiting_lock, holding_locks, lockVars, want, lk,
                   loaded, up, disturbed>>

(* thread_donate_pri. *)
DonatePri(t) ==
    /\ At(t, "donate")
    /\ Fetched(t)
    /\ LET h == fetched[t] IN
       /\ priority' = [priority EXCEPT ![h] = UpdatedPri(h, holding_locks[h])]
       /\ ready_list' = IF Contains(ready_list, h)
                        THEN InsertOrdered(Without(ready_list, h), h, priority')
                        ELSE ready_list
    /\ fetched' = [fetched EXCEPT ![t] = NoThread]
    /\ Goto(t, "follow")
    /\ UNCHANGED <<cur, original_pri, waiting_lock, holding_locks, lockVars, want, lk,
                   loaded, up, disturbed>>

(* Mutant of DonateNext: the loop ends after the first lock. *)
DonateNextStops(t) ==
    /\ At(t, "next")
    /\ Fetched(t)
    /\ lk' = [lk EXCEPT ![t] = NoLock]
    /\ fetched' = [fetched EXCEPT ![t] = NoThread]
    /\ Goto(t, "test")
    /\ UNCHANGED <<cur, ready_list, threadVars, lockVars, want, loaded, up, disturbed>>

(* lk = lk->holder->waiting_lock;  A lock that its last holder has released *)
(* and the thread woken for it has not yet taken has no holder to donate to, *)
(* and the next one will not look at its max_pri: the third disturbance.     *)
DonateNext(t) ==
    /\ At(t, "next")
    /\ Fetched(t)
    /\ LET l == waiting_lock[fetched[t]] IN
       /\ lk' = [lk EXCEPT ![t] = l]
       /\ IF l # NoLock /\ holder[l] = NoThread THEN Disturb ELSE UNCHANGED disturbed
    /\ fetched' = [fetched EXCEPT ![t] = NoThread]
    /\ Goto(t, "test")
    /\ UNCHANGED <<cur, ready_list, threadVars, lockVars, want, loaded, up>>

(* The holder is NULL or a thread that has exited: the kernel page-faults or *)
(* works on a freed page.                                                    *)
DonateAstray(t) ==
    /\ up /\ cur = t /\ pc[t] \in {"donate", "next"}
    /\ ~Fetched(t)
    /\ up' = FALSE
    /\ UNCHANGED <<cur, ready_list, threadVars, lockVars, pc, localVars, disturbed>>

(* Mutant of SemaDown: the value is not decremented. *)
SemaDownKeepsValue(t) ==
    /\ up /\ cur = t /\ pc[t] \in {"down", "blocked"}
    /\ value[want[t]] > 0
    /\ Goto(t, "took")
    /\ UNCHANGED <<cur, ready_list, threadVars, lockVars, localVars, up, disturbed>>

(* sema_down (&lock->semaphore) finds the value positive, at once or after *)
(* being woken.                                                            *)
SemaDown(t) ==
    /\ up /\ cur = t /\ pc[t] \in {"down", "blocked"}
    /\ value[want[t]] > 0
    /\ value' = [value EXCEPT ![want[t]] = @ - 1]
    /\ Goto(t, "took")
    /\ UNCHANGED <<cur, ready_list, threadVars, holder, max_pri, waiters, localVars,
                   up, disturbed>>

(* sema_down blocks, for the first time or again. *)
SemaBlock(t) ==
    /\ up /\ cur = t /\ pc[t] \in {"down", "blocked"}
    /\ value[want[t]] = 0
    /\ waiters' = [waiters EXCEPT ![want[t]] = InsertOrdered(@, t, priority)]
    /\ Goto(t, "blocked")
    /\ Schedule(ready_list)
    /\ UNCHANGED <<threadVars, holder, max_pri, value, localVars, up, disturbed>>

(* The end of lock_acquire, with interrupts off.  max_pri becomes the       *)
(* priority of the new holder, so thread_get_lock's own test never holds.   *)
GetLock(t) ==
    /\ At(t, "took")
    /\ LET l == want[t] IN
       /\ waiting_lock' = [waiting_lock EXCEPT ![t] = NoLock]
       /\ max_pri' = [max_pri EXCEPT ![l] = priority[t]]
       /\ holding_locks' = [holding_locks EXCEPT ![t] = @ \cup {l}]
       /\ holder' = [holder EXCEPT ![l] = t]
    /\ want' = [want EXCEPT ![t] = NoLock]
    /\ Goto(t, "run")
    /\ UNCHANGED <<cur, ready_list, priority, original_pri, value, waiters, lk,
                   fetched, loaded, up, disturbed>>

-----------------------------------------------------------------------------
(* lock_release *)

(* lock->holder = NULL; *)
LockRelease(t) ==
    /\ At(t, "run")
    /\ \E l \in Locks :
          /\ holder[l] = t
          /\ holder' = [holder EXCEPT ![l] = NoThread]
          /\ want' = [want EXCEPT ![t] = l]
    /\ Goto(t, "remove")
    /\ UNCHANGED <<cur, ready_list, threadVars, max_pri, value, waiters, lk, fetched,
                   loaded, up, disturbed>>

(* Mutant of RemoveLock: the donated priority is kept. *)
RemoveLockKeepsPri(t) ==
    /\ At(t, "remove")
    /\ holding_locks' = [holding_locks EXCEPT ![t] = @ \ {want[t]}]
    /\ Goto(t, "up")
    /\ UNCHANGED <<cur, ready_list, priority, original_pri, waiting_lock, lockVars,
                   localVars, up, disturbed>>

(* thread_remove_lock *)
RemoveLock(t) ==
    /\ At(t, "remove")
    /\ holding_locks' = [holding_locks EXCEPT ![t] = @ \ {want[t]}]
    /\ priority' = [priority EXCEPT ![t] = UpdatedPri(t, holding_locks'[t])]
    /\ Goto(t, "up")
    /\ UNCHANGED <<cur, ready_list, original_pri, waiting_lock, lockVars, localVars,
                   up, disturbed>>

(* Mutant of SemaUp: nobody is woken. *)
SemaUpWakesNobody(t) ==
    /\ At(t, "up")
    /\ value' = [value EXCEPT ![want[t]] = @ + 1]
    /\ Yield(t, ready_list, priority)
    /\ want' = [want EXCEPT ![t] = NoLock]
    /\ Goto(t, "run")
    /\ UNCHANGED <<threadVars, holder, max_pri, waiters, lk, fetched, loaded, up,
                   disturbed>>

(* sema_up (&lock->semaphore): wake the first waiter in order of priority, *)
(* then yield.                                                             *)
SemaUp(t) ==
    /\ At(t, "up")
    /\ LET l == want[t]
           sorted == Sorted(waiters[l])
       IN  /\ value' = [value EXCEPT ![l] = @ + 1]
           /\ IF sorted = <<>>
              THEN /\ Yield(t, ready_list, priority)
                   /\ UNCHANGED waiters
              ELSE /\ waiters' = [waiters EXCEPT ![l] = Tail(sorted)]
                   /\ Yield(t, InsertOrdered(ready_list, Head(sorted), priority),
                            priority)
    /\ want' = [want EXCEPT ![t] = NoLock]
    /\ Goto(t, "run")
    /\ UNCHANGED <<threadVars, holder, max_pri, lk, fetched, loaded, up, disturbed>>

-----------------------------------------------------------------------------
Step(t) ==
    \/ LockAcquire(t) \/ MarkWaiting(t)
    \/ DonateTest(t) \/ DonateStore(t) \/ FetchHolder(t) \/ DonatePri(t)
    \/ DonateNext(t) \/ DonateAstray(t)
    \/ SemaDown(t) \/ SemaBlock(t) \/ GetLock(t)
    \/ LockRelease(t) \/ RemoveLock(t) \/ SemaUp(t)
    \/ ThreadCreate(t) \/ ThreadExit(t) \/ SetPriority(t)
    \/ TimerSleep(t) \/ Wake(t) \/ Preempt(t)

Next == IdleBlocks \/ \E t \in Threads : Step(t)

Spec == Init /\ [][Next]_vars

-----------------------------------------------------------------------------
(* Properties. *)

(* The threads between taking the semaphore of l and putting it back. *)
Owners(l) ==
    { t \in Threads : \/ holder[l] = t
                      \/ pc[t] \in {"took", "remove", "up"} /\ want[t] = l }

(* Mutual exclusion, through every window of lock_acquire and lock_release  *)
(* in which the holder is not recorded: the semaphore is up exactly when    *)
(* nobody is inside, and there is never more than one.                      *)
LockExclusive ==
    \A l \in Locks :
        /\ value[l] = 1 <=> Owners(l) = {}
        /\ \A t, u \in Owners(l) : t = u

(* Donation never leaves the ready list out of order, so that schedule runs *)
(* a thread of the highest priority.                                        *)
ReadySorted ==
    \A i, j \in DOMAIN ready_list :
        i < j => priority[ready_list[i]] >= priority[ready_list[j]]

(* Where t is: on the ready list, on a list of waiters or on the processor. *)
ReadyPlaces(t) == { <<"ready", i>> : i \in { j \in DOMAIN ready_list : ready_list[j] = t } }
WaitPlaces(t) ==
    UNION { { <<l, i>> : i \in { j \in DOMAIN waiters[l] : waiters[l][j] = t } } : l \in Locks }
Places(t) ==
    ReadyPlaces(t) \cup WaitPlaces(t) \cup (IF cur = t THEN {<<"cur", 1>>} ELSE {})

(* A thread is in one place only, as struct thread has one elem for all *)
(* these lists.                                                         *)
OnePlace == \A t \in Threads : Cardinality(Places(t)) <= 1

(* Whoever holds no lock runs at its own priority: donations end with the *)
(* locks they were made for, whatever the donors do meanwhile.            *)
DonationReturned ==
    \A t \in Threads : holding_locks[t] = {} => priority[t] = original_pri[t]

(* holding_locks lists exactly the locks a thread holds, up to the window of *)
(* lock_release between its two updates: thread_update_pri never counts a    *)
(* donation for somebody else's lock, nor misses one.                        *)
HoldingIsHeld ==
    \A t \in Threads, l \in Locks :
        l \in holding_locks[t] <=> holder[l] = t \/ (pc[t] = "remove" /\ want[t] = l)

(* No wake-up is lost: a semaphore that is up while threads wait for it has *)
(* a woken thread on its way to it.                                         *)
NoLostWakeup ==
    \A l \in Locks :
        (value[l] = 1 /\ waiters[l] # <<>>) =>
            \E t \in Threads :
                pc[t] = "blocked" /\ want[t] = l /\ ~Contains(waiters[l], t)

(* lock_release wakes a waiter of the highest priority at that time, even *)
(* if donations have changed priorities since the waiters queued up.      *)
WakesHighest ==
    [][\A l \in Locks : Len(waiters'[l]) < Len(waiters[l]) =>
          \E t \in ToSet(waiters[l]) \ ToSet(waiters'[l]) :
              \A u \in ToSet(waiters[l]) : priority[t] >= priority[u]]_vars

(* The purpose of donation: between lock operations no holder has a lower    *)
(* priority than a thread that waits for its lock, through chains of locks.  *)
(* It needs lock_acquire and lock_release not to be preempted, nobody to     *)
(* lower its priority with a lock in hand, and no chain of donations to meet *)
(* a lock on its way from one holder to the next.                            *)
NoInversion ==
    (disturbed = 0 /\ \A t \in Threads : pc[t] \notin Calling \ {"blocked"}) =>
        \A l \in Locks : \A t \in ToSet(waiters[l]) :
            holder[l] # NoThread => priority[holder[l]] >= priority[t]

(* "Acquires LOCK, sleeping until it becomes available if necessary"        *)
(* (synch.c): lock_acquire does not take the kernel down.                   *)
AcquireIsSafe == up

==============================================================================
