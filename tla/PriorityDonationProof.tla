------------------------ MODULE PriorityDonationProof ------------------------
(***************************************************************************)
(* What holds of PriorityDonation for any threads, locks, priorities and   *)
(* number of disturbances.                                                 *)
(*                                                                         *)
(* The first part is about the locks: mutual exclusion, the agreement of   *)
(* holding_locks with the holders, and the return of donated priorities.   *)
(* None of them depends on the order of the lists, so its inductive        *)
(* invariant does not speak of the lists at all: it types what the lock    *)
(* operations read, and adds that a thread inside a call has its lock in   *)
(* want.                                                                   *)
(*                                                                         *)
(* The second part is about the lists.  Lemmas say what list_insert,       *)
(* list_remove, list_insert_ordered and list_sort do to a list; with them  *)
(* the invariant Queues says where every thread is, and gives the order of *)
(* the ready list, that a thread is in one place, that no wake-up is lost  *)
(* and that the highest waiter is woken.                                   *)
(*                                                                         *)
(* The third part is about donation: in an undisturbed behaviour nobody    *)
(* waits for a lock whose holder has a lower priority.  Its invariant      *)
(* follows an offer from the thread that makes it to the holder, and on to *)
(* the lock that holder waits for, one point of the donation loop at a     *)
(* time.                                                                   *)
(***************************************************************************)
EXTENDS PriorityDonation, SequenceTheorems, FiniteSetTheorems, WellFoundedInduction, TLAPS

(* What the argument needs to know of types. *)
Typed ==
    /\ DOMAIN priority = Threads
    /\ original_pri \in [Threads -> Priorities]
    /\ holding_locks \in [Threads -> SUBSET Locks]
    /\ holder \in [Locks -> Threads \cup {NoThread}]
    /\ value \in [Locks -> {0, 1}]
    /\ pc \in [Threads -> Points]
    /\ want \in [Threads -> Locks \cup {NoLock}]

(* The lock of a call in progress. *)
CallHasLock == \A t \in Threads : pc[t] \in Calling => want[t] \in Locks

(* While a thread owns the semaphore without being the recorded holder, *)
(* nobody is.                                                           *)
WindowHasNoHolder ==
    \A t \in Threads : pc[t] \in {"took", "remove", "up"} => holder[want[t]] = NoThread

LockInv == Typed /\ CallHasLock /\ LockExclusive /\ HoldingIsHeld /\ WindowHasNoHolder
Inv == LockInv /\ DonationReturned

(* thread_update_pri gives a thread without locks its own priority. *)
LEMMA UpdatedPriAlone ==
    ASSUME Typed, NEW t \in Threads
    PROVE  UpdatedPri(t, {}) = original_pri[t]
<1>1. original_pri[t] \in Nat
  BY PrioritiesAssumption DEF Typed
<1>2. UpdatedPri(t, {}) = Max({original_pri[t]})
  <2>1. { max_pri[l] : l \in {} } = {}
    OBVIOUS
  <2>2. {original_pri[t]} \cup { max_pri[l] : l \in {} } = {original_pri[t]}
    BY <2>1
  <2> QED  BY <2>2 DEF UpdatedPri
<1>3. Max({original_pri[t]}) = original_pri[t]
  BY <1>1 DEF Max
<1> QED  BY <1>2, <1>3

(* The initial state: nobody holds or wants a lock. *)
LEMMA InitInv == Init => Inv
<1> SUFFICES ASSUME Init PROVE Inv
  OBVIOUS
<1> USE NoThreadAssumption, NoLockAssumption, MainAssumption, PrioritiesAssumption
<1>1. Typed
  BY DEF Init, Typed, Points, Calling, Donating
<1>2. CallHasLock
  BY DEF Init, CallHasLock, Calling, Donating
<1>3. LockExclusive
  BY DEF Init, LockExclusive, Owners
<1>4. HoldingIsHeld /\ DonationReturned /\ WindowHasNoHolder
  BY DEF Init, HoldingIsHeld, DonationReturned, WindowHasNoHolder
<1> QED  BY <1>1, <1>2, <1>3, <1>4 DEF Inv, LockInv

(* Steps that change neither a lock nor anyone's progress inside the lock *)
(* code: what the lock part of the invariant reads is left alone, up to   *)
(* points outside the calls.                                              *)
LEMMA Elsewhere ==
    ASSUME LockInv,
           UNCHANGED <<holder, value, want, holding_locks>>,
           DOMAIN priority' = Threads,
           original_pri' \in [Threads -> Priorities],
           pc' \in [Threads -> Points],
           \A t \in Threads : \/ pc'[t] = pc[t]
                              \/ /\ pc'[t] \notin {"took", "remove", "up"}
                                 /\ pc[t] \notin {"took", "remove", "up"}
                                 /\ pc'[t] \in Calling => pc[t] \in Calling
    PROVE  LockInv'
<1>1. Typed'
  BY DEF LockInv, Typed
<1>2. CallHasLock'
  BY DEF LockInv, Typed, CallHasLock
<1>3. \A l \in Locks : Owners(l)' = Owners(l)
  BY DEF LockInv, Typed, Owners
<1>4. LockExclusive'
  BY <1>3 DEF LockInv, LockExclusive
<1>5. HoldingIsHeld'
  BY DEF LockInv, Typed, HoldingIsHeld
<1>6. WindowHasNoHolder'
  BY DEF LockInv, Typed, WindowHasNoHolder
<1> QED  BY <1>1, <1>2, <1>4, <1>5, <1>6 DEF LockInv

(* lock_acquire enters: only the caller's want and point move. *)
LEMMA AcquirePreserves ==
    ASSUME LockInv, NEW t \in Threads, LockAcquire(t)
    PROVE  LockInv'
<1>1. PICK l \in Locks :
        /\ holder[l] # t
        /\ want' = [want EXCEPT ![t] = l]
        /\ pc' = [pc EXCEPT ![t] = IF holder[l] # NoThread THEN "mark" ELSE "down"]
  BY DEF LockAcquire, Goto
<1>2. pc[t] = "run" /\ UNCHANGED <<holder, value, holding_locks, priority, original_pri>>
  BY DEF LockAcquire, At, threadVars, lockVars
<1>3. Typed'
  BY <1>1, <1>2 DEF LockInv, Typed, Points, Calling, Donating
<1>4. CallHasLock'
  BY <1>1, <1>2 DEF LockInv, Typed, CallHasLock
<1>5. \A m \in Locks : Owners(m)' = Owners(m)
  BY <1>1, <1>2 DEF LockInv, Typed, Owners
<1>6. LockExclusive'
  BY <1>2, <1>5 DEF LockInv, LockExclusive
<1>7. HoldingIsHeld'
  BY <1>1, <1>2 DEF LockInv, Typed, HoldingIsHeld
<1>8. WindowHasNoHolder'
  BY <1>1, <1>2 DEF LockInv, Typed, WindowHasNoHolder
<1> QED  BY <1>3, <1>4, <1>6, <1>7, <1>8 DEF LockInv

(* sema_down takes the semaphore: nobody else owned it. *)
LEMMA DownPreserves ==
    ASSUME LockInv, NEW t \in Threads, SemaDown(t)
    PROVE  LockInv'
<1>0. PICK l \in Locks : l = want[t]
  BY DEF SemaDown, LockInv, CallHasLock, Calling
<1>1. value[l] = 1 /\ Owners(l) = {}
  BY <1>0 DEF SemaDown, LockInv, Typed, LockExclusive
<1>2. /\ value' = [value EXCEPT ![l] = 0]
      /\ pc' = [pc EXCEPT ![t] = "took"]
      /\ pc[t] \in {"down", "blocked"}
      /\ UNCHANGED <<holder, want, holding_locks, priority, original_pri>>
  <2>1. value[l] - 1 = 0
    BY <1>1
  <2> QED  BY <1>0, <2>1 DEF SemaDown, Goto, threadVars, localVars
<1>3. Typed'
  BY <1>0, <1>1, <1>2 DEF LockInv, Typed, Points, Calling
<1>4. CallHasLock'
  BY <1>0, <1>1, <1>2 DEF LockInv, Typed, CallHasLock
<1>5. Owners(l)' = {t}
  BY <1>0, <1>1, <1>2 DEF LockInv, Typed, Owners
<1>6. \A m \in Locks \ {l} : Owners(m)' = Owners(m) /\ value'[m] = value[m]
  BY <1>0, <1>1, <1>2 DEF LockInv, Typed, Owners
<1>7. value'[l] = 0
  BY <1>0, <1>1, <1>2 DEF LockInv, Typed
<1>8. LockExclusive'
  BY <1>5, <1>6, <1>7 DEF LockInv, LockExclusive
<1>9. HoldingIsHeld'
  BY <1>2 DEF LockInv, Typed, HoldingIsHeld
<1>10. WindowHasNoHolder'
  <2>1. holder[l] = NoThread
    BY <1>0, <1>1 DEF LockInv, Typed, Owners
  <2> QED  BY <1>0, <1>1, <1>2, <2>1 DEF LockInv, Typed, WindowHasNoHolder
<1> QED  BY <1>3, <1>4, <1>8, <1>9, <1>10 DEF LockInv

(* The new owner records itself as holder and lists the lock. *)
LEMMA GetPreserves ==
    ASSUME LockInv, NEW t \in Threads, GetLock(t)
    PROVE  LockInv'
<1>0. PICK l \in Locks : l = want[t]
  BY DEF GetLock, At, LockInv, CallHasLock, Calling
<1>1. pc[t] = "took" /\ t \in Owners(l)
  BY <1>0 DEF GetLock, At, Owners
<1>2. /\ holding_locks' = [holding_locks EXCEPT ![t] = @ \cup {l}]
      /\ holder' = [holder EXCEPT ![l] = t]
      /\ want' = [want EXCEPT ![t] = NoLock]
      /\ pc' = [pc EXCEPT ![t] = "run"]
      /\ UNCHANGED <<value, priority, original_pri>>
  BY <1>0 DEF GetLock, Goto
<1>3. \A u \in Threads : u \in Owners(l) => u = t
  BY <1>1 DEF LockInv, LockExclusive
<1>4. Typed'
  BY <1>0, <1>1, <1>2 DEF LockInv, Typed, Points
<1>5. CallHasLock'
  BY <1>0, <1>1, <1>2 DEF LockInv, Typed, CallHasLock, Calling, Donating
<1>6. Owners(l)' = {t}
  BY <1>0, <1>1, <1>2, <1>3 DEF LockInv, Typed, Owners
<1>7. \A m \in Locks \ {l} : Owners(m)' = Owners(m)
  BY <1>0, <1>1, <1>2 DEF LockInv, Typed, Owners
<1>8. value[l] # 1
  BY <1>1 DEF LockInv, LockExclusive
<1>9. LockExclusive'
  BY <1>2, <1>6, <1>7, <1>8 DEF LockInv, LockExclusive
<1>10. HoldingIsHeld'
  <2>1. \A u \in Threads \ {t} : holder[l] # u /\ ~(pc[u] = "remove" /\ want[u] = l)
    BY <1>3 DEF Owners
  <2> QED  BY <1>0, <1>1, <1>2, <2>1 DEF LockInv, Typed, HoldingIsHeld
<1>11. WindowHasNoHolder'
  <2> SUFFICES ASSUME NEW u \in Threads, pc'[u] \in {"took", "remove", "up"}
               PROVE  holder'[want'[u]] = NoThread
    BY DEF WindowHasNoHolder
  <2>1. u # t /\ pc'[u] = pc[u] /\ want'[u] = want[u]
    BY <1>2 DEF LockInv, Typed
  <2>2. want[u] \in Locks /\ holder[want[u]] = NoThread
    BY <2>1 DEF LockInv, CallHasLock, WindowHasNoHolder, Calling
  <2>3. want[u] # l
    BY <1>3, <2>1 DEF Owners
  <2> QED  BY <1>2, <2>1, <2>2, <2>3 DEF LockInv, Typed
<1> QED  BY <1>4, <1>5, <1>9, <1>10, <1>11 DEF LockInv

(* lock_release clears the holder; the semaphore is still taken. *)
LEMMA ReleasePreserves ==
    ASSUME LockInv, NEW t \in Threads, LockRelease(t)
    PROVE  LockInv'
<1>1. PICK l \in Locks :
        /\ holder[l] = t
        /\ holder' = [holder EXCEPT ![l] = NoThread]
        /\ want' = [want EXCEPT ![t] = l]
  BY DEF LockRelease
<1>2. /\ pc[t] = "run"
      /\ pc' = [pc EXCEPT ![t] = "remove"]
      /\ UNCHANGED <<value, holding_locks, priority, original_pri>>
  BY DEF LockRelease, At, Goto, threadVars
<1>3. Typed'
  BY <1>1, <1>2 DEF LockInv, Typed, Points, Calling
<1>4. CallHasLock'
  BY <1>1, <1>2 DEF LockInv, Typed, CallHasLock
<1>5. t \in Owners(l) /\ \A u \in Owners(l) : u = t
  BY <1>1 DEF LockInv, LockExclusive, Owners
<1>6. Owners(l)' = {t}
  BY <1>1, <1>2, <1>5, NoThreadAssumption DEF LockInv, Typed, Owners
<1>7. \A m \in Locks \ {l} : Owners(m)' = Owners(m)
  BY <1>1, <1>2 DEF LockInv, Typed, Owners
<1>8. LockExclusive'
  BY <1>2, <1>5, <1>6, <1>7 DEF LockInv, LockExclusive
<1>9. HoldingIsHeld'
  BY <1>1, <1>2, NoThreadAssumption DEF LockInv, Typed, HoldingIsHeld
<1>10. WindowHasNoHolder'
  BY <1>1, <1>2 DEF LockInv, Typed, WindowHasNoHolder
<1> QED  BY <1>3, <1>4, <1>8, <1>9, <1>10 DEF LockInv

(* thread_remove_lock drops the lock from the list of its last holder. *)
LEMMA RemovePreserves ==
    ASSUME LockInv, NEW t \in Threads, RemoveLock(t)
    PROVE  LockInv'
<1>0. PICK l \in Locks : l = want[t]
  BY DEF RemoveLock, At, LockInv, CallHasLock, Calling
<1>1. pc[t] = "remove" /\ t \in Owners(l)
  BY <1>0 DEF RemoveLock, At, Owners
<1>2. /\ holding_locks' = [holding_locks EXCEPT ![t] = @ \ {l}]
      /\ pc' = [pc EXCEPT ![t] = "up"]
      /\ DOMAIN priority' = DOMAIN priority
      /\ UNCHANGED <<holder, value, want, original_pri>>
  BY <1>0 DEF RemoveLock, Goto, lockVars, localVars
<1>3. holder[l] # t
  BY <1>0, <1>1, NoThreadAssumption DEF LockInv, WindowHasNoHolder
<1>4. Typed'
  BY <1>0, <1>1, <1>2 DEF LockInv, Typed, Points, Calling
<1>5. CallHasLock'
  BY <1>0, <1>1, <1>2 DEF LockInv, Typed, CallHasLock
<1>6. \A m \in Locks : Owners(m)' = Owners(m)
  BY <1>0, <1>1, <1>2 DEF LockInv, Typed, Owners
<1>7. LockExclusive'
  BY <1>2, <1>6 DEF LockInv, LockExclusive
<1>8. HoldingIsHeld'
  BY <1>0, <1>1, <1>2, <1>3 DEF LockInv, Typed, HoldingIsHeld
<1>9. WindowHasNoHolder'
  BY <1>1, <1>2 DEF LockInv, Typed, WindowHasNoHolder
<1> QED  BY <1>4, <1>5, <1>7, <1>8, <1>9 DEF LockInv

(* sema_up gives the semaphore back: its last owner leaves the call. *)
LEMMA UpPreserves ==
    ASSUME LockInv, NEW t \in Threads, SemaUp(t)
    PROVE  LockInv'
<1>0. PICK l \in Locks : l = want[t]
  BY DEF SemaUp, At, LockInv, CallHasLock, Calling
<1>1. pc[t] = "up" /\ t \in Owners(l) /\ holder[l] = NoThread
  BY <1>0 DEF SemaUp, At, Owners, LockInv, WindowHasNoHolder
<1>2. value[l] = 0
  BY <1>1 DEF LockInv, Typed, LockExclusive
<1>3. /\ value' = [value EXCEPT ![l] = 1]
      /\ want' = [want EXCEPT ![t] = NoLock]
      /\ pc' = [pc EXCEPT ![t] = "run"]
      /\ UNCHANGED <<holder, holding_locks, priority, original_pri>>
  <2>1. value[l] + 1 = 1
    BY <1>2
  <2>2. value' = [value EXCEPT ![want[t]] = value[want[t]] + 1]
    BY DEF SemaUp
  <2> QED  BY <1>0, <2>1, <2>2 DEF SemaUp, Goto, threadVars
<1>4. Typed'
  BY <1>3 DEF LockInv, Typed, Points
<1>5. CallHasLock'
  BY <1>1, <1>3 DEF LockInv, Typed, CallHasLock, Calling, Donating
<1>6. Owners(l)' = {}
  <2>1. \A u \in Owners(l) : u = t
    BY <1>1 DEF LockInv, LockExclusive
  <2> QED  BY <1>0, <1>1, <1>3, <2>1, NoThreadAssumption DEF LockInv, Typed, Owners
<1>7. \A m \in Locks \ {l} : Owners(m)' = Owners(m) /\ value'[m] = value[m]
  BY <1>0, <1>1, <1>3 DEF LockInv, Typed, Owners
<1>8. LockExclusive'
  <2>1. value'[l] = 1
    BY <1>3 DEF LockInv, Typed
  <2> QED  BY <1>6, <1>7, <2>1 DEF LockInv, LockExclusive
<1>9. HoldingIsHeld'
  BY <1>1, <1>3 DEF LockInv, Typed, HoldingIsHeld
<1>10. WindowHasNoHolder'
  BY <1>1, <1>3 DEF LockInv, Typed, WindowHasNoHolder
<1> QED  BY <1>4, <1>5, <1>8, <1>9, <1>10 DEF LockInv

(* The whole of Next, for the lock part of the invariant. *)
LEMMA LocksPreserved ==
    ASSUME LockInv, [Next]_vars
    PROVE  LockInv'
<1> USE DEF threadVars, lockVars, localVars
<1>1. CASE UNCHANGED vars
  BY <1>1, Elsewhere DEF vars, LockInv, Typed
<1>2. CASE IdleBlocks
  BY <1>2, Elsewhere DEF IdleBlocks, LockInv, Typed
<1>3. ASSUME NEW t \in Threads, Step(t)
      PROVE  LockInv'
  <2>1. CASE LockAcquire(t)
    BY <2>1, AcquirePreserves
  <2>2. CASE SemaDown(t)
    BY <2>2, DownPreserves
  <2>3. CASE GetLock(t)
    BY <2>3, GetPreserves
  <2>4. CASE LockRelease(t)
    BY <2>4, ReleasePreserves
  <2>5. CASE RemoveLock(t)
    BY <2>5, RemovePreserves
  <2>6. CASE SemaUp(t)
    BY <2>6, UpPreserves
  <2>7. CASE MarkWaiting(t) \/ DonateStore(t) \/ DonateTest(t) \/ DonateNext(t) \/ FetchHolder(t)
    <3>1. /\ UNCHANGED <<holder, value, want, holding_locks, priority, original_pri>>
          /\ pc[t] \in Donating
          /\ \E point \in Donating \cup {"down"} : pc' = [pc EXCEPT ![t] = point]
      BY <2>7 DEF MarkWaiting, DonateStore, DonateTest, DonateNext, FetchHolder, At, Goto,
                  Donating
    <3> QED  BY <3>1, Elsewhere DEF LockInv, Typed, Points, Calling, Donating
  <2>8. CASE DonatePri(t)
    <3>1. /\ UNCHANGED <<holder, value, want, holding_locks, original_pri>>
          /\ pc[t] = "donate" /\ pc' = [pc EXCEPT ![t] = "follow"]
          /\ DOMAIN priority' = DOMAIN priority
      BY <2>8 DEF DonatePri, At, Goto
    <3> QED  BY <3>1, Elsewhere DEF LockInv, Typed, Points, Calling, Donating
  <2>9. CASE SemaBlock(t)
    <3>1. /\ UNCHANGED <<holder, value, want, holding_locks, priority, original_pri>>
          /\ pc[t] \in {"down", "blocked"} /\ pc' = [pc EXCEPT ![t] = "blocked"]
      BY <2>9 DEF SemaBlock, Goto
    <3> QED  BY <3>1, Elsewhere DEF LockInv, Typed, Points, Calling
  <2>10. CASE ThreadCreate(t)
    <3>1. PICK u \in Threads, p \in Priorities :
            /\ pc[u] = "unborn" /\ pc' = [pc EXCEPT ![u] = "run"]
            /\ priority' = [priority EXCEPT ![u] = p]
            /\ original_pri' = [original_pri EXCEPT ![u] = p]
      BY <2>10 DEF ThreadCreate, Goto
    <3>2. UNCHANGED <<holder, value, want, holding_locks>>
      BY <2>10 DEF ThreadCreate
    <3> QED  BY <3>1, <3>2, Elsewhere DEF LockInv, Typed, Points, Calling, Donating
  <2>11. CASE ThreadExit(t) \/ TimerSleep(t) \/ Wake(t)
    <3>1. /\ UNCHANGED <<holder, value, want, holding_locks>>
          /\ pc[t] \in {"run", "sleep"}
          /\ \E point \in {"dead", "sleep", "run"} : pc' = [pc EXCEPT ![t] = point]
          /\ DOMAIN priority' = DOMAIN priority
      BY <2>11 DEF ThreadExit, TimerSleep, Wake, At, Goto
    <3>2. original_pri' \in [Threads -> Priorities]
      BY <2>11, PrioritiesAssumption DEF ThreadExit, TimerSleep, Wake, LockInv, Typed
    <3> QED  BY <3>1, <3>2, Elsewhere DEF LockInv, Typed, Points, Calling, Donating
  <2>12. CASE SetPriority(t)
    <3>1. PICK new \in NewPriorities :
            /\ original_pri' = [original_pri EXCEPT ![t] = new]
            /\ DOMAIN priority' = DOMAIN priority
      BY <2>12 DEF SetPriority
    <3>2. UNCHANGED <<holder, value, want, holding_locks, pc>>
      BY <2>12 DEF SetPriority
    <3> QED  BY <3>1, <3>2, NewPrioritiesAssumption, Elsewhere DEF LockInv, Typed
  <2>13. CASE Preempt(t) \/ DonateAstray(t)
    BY <2>13, Elsewhere DEF Preempt, DonateAstray, LockInv, Typed
  <2> QED  BY <1>3, <2>1, <2>2, <2>3, <2>4, <2>5, <2>6, <2>7, <2>8, <2>9, <2>10, <2>11,
              <2>12, <2>13 DEF Step
<1> QED  BY <1>1, <1>2, <1>3 DEF Next

(* The donations part: every recomputation of a priority ends at the thread's *)
(* own priority once it holds nothing.                                        *)
LEMMA DonationsPreserved ==
    ASSUME Inv, [Next]_vars
    PROVE  DonationReturned'
<1> SUFFICES ASSUME NEW u \in Threads, holding_locks'[u] = {}
             PROVE  priority'[u] = original_pri'[u]
  BY DEF DonationReturned
<1> USE DEF threadVars, lockVars, localVars
<1>0. /\ DOMAIN priority = Threads
      /\ original_pri \in [Threads -> Priorities]
      /\ holding_locks \in [Threads -> SUBSET Locks]
      /\ holding_locks[u] = {} => priority[u] = original_pri[u]
  BY DEF Inv, LockInv, Typed, DonationReturned
<1>1. CASE UNCHANGED <<priority, original_pri, holding_locks>>
  BY <1>0, <1>1
<1>2. ASSUME NEW t \in Threads, Step(t)
      PROVE  priority'[u] = original_pri'[u]
  <2>1. CASE DonatePri(t)
    <3>1. /\ UNCHANGED <<original_pri, holding_locks>>
          /\ priority' = [priority EXCEPT ![fetched[t]] =
                            UpdatedPri(fetched[t], holding_locks[fetched[t]])]
      BY <2>1 DEF DonatePri
    <3>2. UpdatedPri(u, {}) = original_pri[u]
      BY UpdatedPriAlone DEF Inv, LockInv
    <3>3. CASE fetched[t] = u
      BY <1>0, <3>1, <3>2, <3>3
    <3>4. CASE fetched[t] # u
      BY <1>0, <3>1, <3>4
    <3> QED  BY <3>3, <3>4
  <2>2. CASE RemoveLock(t)
    <3>1. /\ UNCHANGED original_pri
          /\ priority' = [priority EXCEPT ![t] = UpdatedPri(t, holding_locks'[t])]
          /\ u # t => holding_locks'[u] = holding_locks[u]
      BY <1>0, <2>2 DEF RemoveLock
    <3>2. UpdatedPri(u, {}) = original_pri[u]
      BY UpdatedPriAlone DEF Inv, LockInv
    <3>3. CASE u = t
      BY <1>0, <3>1, <3>2, <3>3
    <3>4. CASE u # t
      BY <1>0, <3>1, <3>4
    <3> QED  BY <3>3, <3>4
  <2>3. CASE GetLock(t)
    <3>1. /\ UNCHANGED <<priority, original_pri>>
          /\ holding_locks[u] \subseteq holding_locks'[u]
      BY <1>0, <2>3 DEF GetLock
    <3> QED  BY <1>0, <3>1
  <2>4. CASE ThreadCreate(t)
    <3>1. PICK v \in Threads, p \in Priorities :
            /\ priority' = [priority EXCEPT ![v] = p]
            /\ original_pri' = [original_pri EXCEPT ![v] = p]
      BY <2>4 DEF ThreadCreate
    <3>2. UNCHANGED holding_locks
      BY <2>4 DEF ThreadCreate
    <3> QED  BY <1>0, <3>1, <3>2
  <2>5. CASE ThreadExit(t)
    BY <1>0, <2>5 DEF ThreadExit
  <2>6. CASE SetPriority(t)
    <3>1. PICK new \in NewPriorities :
            /\ original_pri' = [original_pri EXCEPT ![t] = new]
            /\ IF TakesEffect(t, new) THEN priority' = [priority EXCEPT ![t] = new]
                                      ELSE priority' = priority
      BY <2>6 DEF SetPriority
    <3>2. UNCHANGED holding_locks
      BY <2>6 DEF SetPriority
    <3>3. CASE TakesEffect(t, new)
      BY <1>0, <3>1, <3>2, <3>3
    <3>4. CASE ~TakesEffect(t, new)
      BY <1>0, <3>1, <3>2, <3>4 DEF TakesEffect
    <3> QED  BY <3>3, <3>4
  <2>7. CASE \/ LockAcquire(t) \/ MarkWaiting(t) \/ DonateTest(t) \/ DonateStore(t)
             \/ FetchHolder(t) \/ DonateNext(t) \/ DonateAstray(t) \/ SemaDown(t)
             \/ SemaBlock(t) \/ LockRelease(t) \/ SemaUp(t) \/ TimerSleep(t) \/ Wake(t)
             \/ Preempt(t)
    BY <1>1, <2>7 DEF LockAcquire, MarkWaiting, DonateTest, DonateStore, FetchHolder,
         DonateNext, DonateAstray, SemaDown, SemaBlock, LockRelease, SemaUp, TimerSleep,
         Wake, Preempt
  <2> QED  BY <1>2, <2>1, <2>2, <2>3, <2>4, <2>5, <2>6, <2>7 DEF Step
<1> QED  BY <1>1, <1>2 DEF Next, IdleBlocks, vars

-----------------------------------------------------------------------------
(* The inductive invariant holds in every reachable state. *)
THEOREM InvHolds == Spec => []Inv
<1>1. Inv /\ [Next]_vars => Inv'
  BY LocksPreserved, DonationsPreserved DEF Inv
<1> QED  BY InitInv, <1>1, PTL DEF Spec

(* At most one thread is ever between the sema_down and the sema_up of a   *)
(* lock, whatever the timer does inside lock_acquire and lock_release.     *)
THEOREM MutualExclusion == Spec => []LockExclusive
<1>1. Inv => LockExclusive
  BY DEF Inv, LockInv
<1> QED  BY InvHolds, <1>1, PTL

(* holding_locks is exactly the set of locks whose holder the thread is, *)
(* up to the window of lock_release between the two updates.             *)
THEOREM HoldingAgrees == Spec => []HoldingIsHeld
<1>1. Inv => HoldingIsHeld
  BY DEF Inv, LockInv
<1> QED  BY InvHolds, <1>1, PTL

(* A thread that has released all its locks is back at its own priority. *)
THEOREM DonationsEnd == Spec => []DonationReturned
<1>1. Inv => DonationReturned
  BY DEF Inv
<1> QED  BY InvHolds, <1>1, PTL

-----------------------------------------------------------------------------
(* Lists. *)

(* A list without repetitions, and one in descending order of pri. *)
Distinct(list) == \A i, j \in DOMAIN list : list[i] = list[j] => i = j
Descending(list, pri) ==
    \A i, j \in DOMAIN list : i < j => pri[list[i]] >= pri[list[j]]

(* The members of a sequence, by their places. *)
LEMMA Members ==
    ASSUME NEW list \in Seq(Threads), NEW t
    PROVE  /\ t \in ToSet(list) <=> \E i \in 1 .. Len(list) : list[i] = t
           /\ ToSet(list) \subseteq Threads
           /\ list = <<>> <=> ToSet(list) = {}
BY DEF ToSet

(* What list_insert does, place by place. *)
LEMMA InsertedAt ==
    ASSUME NEW list \in Seq(Threads), NEW t \in Threads, NEW k \in 1 .. Len(list) + 1
    PROVE  /\ InsertAt(list, k, t) \in Seq(Threads)
           /\ Len(InsertAt(list, k, t)) = Len(list) + 1
           /\ \A i \in 1 .. Len(list) + 1 :
                 InsertAt(list, k, t)[i] = IF i < k THEN list[i]
                                           ELSE IF i = k THEN t ELSE list[i - 1]
<1> DEFINE a == SubSeq(list, 1, k - 1)
           b == SubSeq(list, k, Len(list))
           c == a \o <<t>>
<1>0. Len(list) \in Nat /\ \A i \in 1 .. Len(list) : list[i] \in Threads
  BY LenProperties
<1>1. /\ a \in Seq(Threads) /\ Len(a) = k - 1
      /\ \A i \in 1 .. k - 1 : a[i] = list[i]
  <2>1. \A i \in 1 .. k - 1 : list[i] \in Threads
    BY <1>0
  <2>2. /\ a \in Seq(Threads) /\ Len(a) = IF 1 <= k - 1 THEN (k - 1) - 1 + 1 ELSE 0
        /\ \A i \in 1 .. (k - 1) - 1 + 1 : a[i] = list[1 + i - 1]
    BY <2>1, SubSeqProperties, 1 \in Int, k - 1 \in Int
  <2> QED  BY <2>2
<1>2. /\ b \in Seq(Threads) /\ Len(b) = Len(list) - k + 1
      /\ \A i \in 1 .. Len(list) - k + 1 : b[i] = list[k + i - 1]
  <2>1. \A i \in k .. Len(list) : list[i] \in Threads
    BY <1>0
  <2>2. /\ b \in Seq(Threads) /\ Len(b) = IF k <= Len(list) THEN Len(list) - k + 1 ELSE 0
        /\ \A i \in 1 .. Len(list) - k + 1 : b[i] = list[k + i - 1]
    BY <1>0, <2>1, SubSeqProperties, Len(list) \in Int, k \in Int
  <2> QED  BY <1>0, <2>2
<1> HIDE DEF a, b
<1>3. <<t>> \in Seq(Threads) /\ Len(<<t>>) = 1 /\ <<t>>[1] = t
  OBVIOUS
<1>4. /\ c \in Seq(Threads) /\ Len(c) = k
      /\ \A i \in 1 .. k : c[i] = IF i <= k - 1 THEN a[i] ELSE <<t>>[i - (k - 1)]
  BY <1>1, <1>3, ConcatProperties
<1>5. InsertAt(list, k, t) = c \o b
  BY DEF InsertAt, a, b
<1> HIDE DEF c
<1>6. /\ c \o b \in Seq(Threads)
      /\ Len(c \o b) = Len(list) + 1
      /\ \A i \in 1 .. Len(list) + 1 : (c \o b)[i] = IF i <= k THEN c[i] ELSE b[i - k]
  <2>1. /\ c \o b \in Seq(Threads)
        /\ Len(c \o b) = Len(c) + Len(b)
        /\ \A i \in 1 .. Len(c) + Len(b) :
              (c \o b)[i] = IF i <= Len(c) THEN c[i] ELSE b[i - Len(c)]
    BY <1>2, <1>4, ConcatProperties
  <2>2. Len(c) + Len(b) = Len(list) + 1
    BY <1>0, <1>2, <1>4
  <2> QED  BY <1>4, <2>1, <2>2
<1>7. ASSUME NEW i \in 1 .. Len(list) + 1
      PROVE  (c \o b)[i] = IF i < k THEN list[i] ELSE IF i = k THEN t ELSE list[i - 1]
  <2>0. (c \o b)[i] = IF i <= k THEN c[i] ELSE b[i - k]
    BY <1>6
  <2>1. CASE i < k
    BY <1>0, <1>1, <1>4, <2>0, <2>1
  <2>2. CASE i = k
    BY <1>0, <1>3, <1>4, <2>0, <2>2
  <2>3. CASE i > k
    <3>1. i - k \in 1 .. Len(list) - k + 1 /\ k + (i - k) - 1 = i - 1
      BY <1>0, <2>3
    <3>2. b[i - k] = list[k + (i - k) - 1]
      BY <1>2, <3>1
    <3> QED  BY <2>0, <2>3, <3>1, <3>2
  <2>4. i < k \/ i = k \/ i > k
    BY <1>0
  <2> QED  BY <2>1, <2>2, <2>3, <2>4
<1> QED  BY <1>5, <1>6, <1>7

(* What list_remove does, place by place. *)
LEMMA RemovedAt ==
    ASSUME NEW list \in Seq(Threads), NEW k \in 1 .. Len(list)
    PROVE  /\ RemoveAt(list, k) \in Seq(Threads)
           /\ Len(RemoveAt(list, k)) = Len(list) - 1
           /\ \A i \in 1 .. Len(list) - 1 :
                 RemoveAt(list, k)[i] = IF i < k THEN list[i] ELSE list[i + 1]
<1> DEFINE a == SubSeq(list, 1, k - 1)
           b == SubSeq(list, k + 1, Len(list))
<1>0. Len(list) \in Nat /\ \A i \in 1 .. Len(list) : list[i] \in Threads
  BY LenProperties
<1>1. /\ a \in Seq(Threads) /\ Len(a) = k - 1
      /\ \A i \in 1 .. k - 1 : a[i] = list[i]
  <2>1. \A i \in 1 .. k - 1 : list[i] \in Threads
    BY <1>0
  <2>2. /\ a \in Seq(Threads) /\ Len(a) = IF 1 <= k - 1 THEN (k - 1) - 1 + 1 ELSE 0
        /\ \A i \in 1 .. (k - 1) - 1 + 1 : a[i] = list[1 + i - 1]
    BY <2>1, SubSeqProperties, 1 \in Int, k - 1 \in Int
  <2> QED  BY <2>2
<1>2. /\ b \in Seq(Threads) /\ Len(b) = Len(list) - k
      /\ \A i \in 1 .. Len(list) - k : b[i] = list[k + i]
  <2>1. \A i \in k + 1 .. Len(list) : list[i] \in Threads
    BY <1>0
  <2>2. /\ b \in Seq(Threads)
        /\ Len(b) = IF k + 1 <= Len(list) THEN Len(list) - (k + 1) + 1 ELSE 0
        /\ \A i \in 1 .. Len(list) - (k + 1) + 1 : b[i] = list[(k + 1) + i - 1]
    BY <1>0, <2>1, SubSeqProperties, Len(list) \in Int, k + 1 \in Int
  <2> QED  BY <1>0, <2>2
<1> HIDE DEF a, b
<1>3. /\ a \o b \in Seq(Threads)
      /\ Len(a \o b) = Len(list) - 1
      /\ \A i \in 1 .. Len(list) - 1 :
            (a \o b)[i] = IF i <= k - 1 THEN a[i] ELSE b[i - (k - 1)]
  <2>1. /\ a \o b \in Seq(Threads)
        /\ Len(a \o b) = Len(a) + Len(b)
        /\ \A i \in 1 .. Len(a) + Len(b) :
              (a \o b)[i] = IF i <= Len(a) THEN a[i] ELSE b[i - Len(a)]
    BY <1>1, <1>2, ConcatProperties
  <2>2. Len(a) + Len(b) = Len(list) - 1
    BY <1>0, <1>1, <1>2
  <2> QED  BY <1>1, <2>1, <2>2
<1>4. RemoveAt(list, k) = a \o b
  BY DEF RemoveAt, a, b
<1>5. ASSUME NEW i \in 1 .. Len(list) - 1
      PROVE  (a \o b)[i] = IF i < k THEN list[i] ELSE list[i + 1]
  <2>0. (a \o b)[i] = IF i <= k - 1 THEN a[i] ELSE b[i - (k - 1)]
    BY <1>3
  <2>1. CASE i < k
    BY <1>0, <1>1, <2>0, <2>1
  <2>2. CASE i >= k
    <3>1. i - (k - 1) \in 1 .. Len(list) - k /\ k + (i - (k - 1)) = i + 1
      BY <1>0, <2>2
    <3>2. b[i - (k - 1)] = list[k + (i - (k - 1))]
      BY <1>2, <3>1
    <3> QED  BY <2>0, <2>2, <3>1, <3>2
  <2>3. i < k \/ i >= k
    BY <1>0
  <2> QED  BY <2>1, <2>2, <2>3
<1> QED  BY <1>3, <1>4, <1>5

(* A nonempty set of naturals has a least element. *)
LEMMA MinOfNats ==
    ASSUME NEW S \in SUBSET Nat, S # {}
    PROVE  Min(S) \in S /\ \A y \in S : Min(S) <= y
<1>1. PICK x \in S : \A y \in S : ~(<<y, x>> \in OpToRel(<, Nat))
  <2>1. \E x \in S : \A y \in S : ~(<<y, x>> \in OpToRel(<, Nat))
    BY WFMin, NatLessThanWellFounded
  <2> QED  BY <2>1
<1>2. \A y \in S : x <= y
  <2> TAKE y \in S
  <2>1. x \in Nat /\ y \in Nat
    OBVIOUS
  <2>2. y < x => <<y, x>> \in OpToRel(<, Nat)
    BY <2>1 DEF OpToRel
  <2>3. ~(y < x)
    BY <1>1, <2>2
  <2> QED  BY <2>1, <2>3
<1> QED  BY <1>2 DEF Min

(* A nonempty finite set of naturals has a greatest element. *)
LEMMA MaxOfNats ==
    ASSUME NEW S \in SUBSET Nat, S # {}, IsFiniteSet(S)
    PROVE  Max(S) \in S /\ \A y \in S : Max(S) >= y
<1> DEFINE Unbounded == { U \in SUBSET S : U # {} /\ ~\E m \in U : \A y \in U : m >= y }
           R == StrictSubsetOrdering(S)
<1>1. ASSUME Unbounded # {} PROVE FALSE
  <2>1. IsWellFoundedOn(R, FiniteSubsetsOf(S))
    BY FS_StrictSubsetOrderingWellFounded
  <2>2. FiniteSubsetsOf(S) = SUBSET S
    BY FS_FiniteSubsetsOfFinite
  <2>3. PICK U \in Unbounded : \A V \in Unbounded : ~(<<V, U>> \in R)
    <3>1. Unbounded \subseteq SUBSET S
      OBVIOUS
    <3>2. IsWellFoundedOn(R, SUBSET S)
      BY <2>1, <2>2
    <3> HIDE DEF Unbounded, R
    <3>3. \E U \in Unbounded : \A V \in Unbounded : ~(<<V, U>> \in R)
      BY <1>1, <3>1, <3>2, WFMin, Zenon
    <3> QED  BY <3>3
  <2>4. PICK x \in U : x \in Nat
    OBVIOUS
  <2>5. U \ {x} \notin Unbounded
    <3>1. <<U \ {x}, U>> \in R
      BY DEF StrictSubsetOrdering
    <3> QED  BY <2>3, <3>1
  <2>6. CASE U \ {x} = {}
    BY <2>4, <2>6
  <2>7. CASE U \ {x} # {}
    <3>1. PICK m \in U \ {x} : \A y \in U \ {x} : m >= y
      BY <2>5, <2>7
    <3>2. m \in Nat /\ \A y \in U : y \in Nat
      OBVIOUS
    <3>3. CASE m >= x
      <4>1. \A y \in U : m >= y
        BY <3>1, <3>3
      <4> QED  BY <4>1
    <3>4. CASE x > m
      <4>1. \A y \in U : x >= y
        BY <2>4, <3>1, <3>2, <3>4
      <4> QED  BY <4>1
    <3> QED  BY <2>4, <3>2, <3>3, <3>4
  <2> QED  BY <2>6, <2>7
<1>2. \E m \in S : \A y \in S : m >= y
  BY <1>1
<1> QED  BY <1>2 DEF Max

(* thread_cmp_pri's list_insert_ordered: one more member, and a list in *)
(* order stays in order.                                                *)
LEMMA Inserted ==
    ASSUME NEW list \in Seq(Threads), NEW t \in Threads, NEW pri \in [Threads -> Nat]
    PROVE  LET new == InsertOrdered(list, t, pri)
           IN  /\ new \in Seq(Threads)
               /\ Len(new) = Len(list) + 1
               /\ ToSet(new) = ToSet(list) \cup {t}
               /\ Distinct(list) /\ t \notin ToSet(list) => Distinct(new)
               /\ Descending(list, pri) => Descending(new, pri)
<1> DEFINE new == InsertOrdered(list, t, pri)
           lower == { i \in DOMAIN list : pri[t] > pri[list[i]] }
           k == IF lower = {} THEN Len(list) + 1 ELSE Min(lower)
           n == Len(list)
<1>0. /\ n \in Nat /\ DOMAIN list = 1 .. n
      /\ \A i \in 1 .. n : list[i] \in Threads /\ pri[list[i]] \in Nat
      /\ pri[t] \in Nat
  BY LenProperties
<1>1. /\ lower \subseteq 1 .. n
      /\ \A i \in 1 .. n : i \in lower <=> pri[t] > pri[list[i]]
      /\ k = IF lower = {} THEN n + 1 ELSE Min(lower)
      /\ new = InsertAt(list, k, t)
  BY <1>0 DEF InsertOrdered
<1> HIDE DEF new, lower, k, n
<1>2. /\ k \in 1 .. n + 1
      /\ \A i \in 1 .. n : i < k => pri[t] <= pri[list[i]]
      /\ k \in 1 .. n => pri[t] > pri[list[k]]
  <2>1. CASE lower = {}
    BY <1>0, <1>1, <2>1
  <2>2. CASE lower # {}
    <3>1. Min(lower) \in lower /\ \A y \in lower : Min(lower) <= y
      <4>1. lower \in SUBSET Nat
        BY <1>0, <1>1
      <4> QED  BY <2>2, <4>1, MinOfNats
    <3>2. k \in lower /\ \A y \in lower : k <= y
      BY <1>1, <2>2, <3>1
    <3>3. k \in 1 .. n
      BY <1>1, <3>2
    <3>4. \A i \in 1 .. n : i < k => i \notin lower
      BY <1>0, <3>2, <3>3
    <3>5. \A i \in 1 .. n : i < k => pri[t] <= pri[list[i]]
      BY <1>0, <1>1, <3>4
    <3>6. pri[t] > pri[list[k]]
      BY <1>1, <3>2, <3>3
    <3>7. k \in 1 .. n + 1
      BY <1>0, <3>3
    <3> QED  BY <3>5, <3>6, <3>7
  <2> QED  BY <2>1, <2>2
<1>3. /\ new \in Seq(Threads)
      /\ Len(new) = n + 1 /\ DOMAIN new = 1 .. n + 1
      /\ \A i \in 1 .. n + 1 :
            new[i] = IF i < k THEN list[i] ELSE IF i = k THEN t ELSE list[i - 1]
  <2>1. /\ new \in Seq(Threads)
        /\ Len(new) = n + 1
        /\ \A i \in 1 .. n + 1 :
              new[i] = IF i < k THEN list[i] ELSE IF i = k THEN t ELSE list[i - 1]
    <3>1. k \in 1 .. Len(list) + 1
      BY <1>2 DEF n
    <3>2. /\ InsertAt(list, k, t) \in Seq(Threads)
          /\ Len(InsertAt(list, k, t)) = Len(list) + 1
          /\ \A i \in 1 .. Len(list) + 1 :
                InsertAt(list, k, t)[i] = IF i < k THEN list[i]
                                          ELSE IF i = k THEN t ELSE list[i - 1]
      BY <3>1, InsertedAt
    <3> QED  BY <1>1, <3>2 DEF n
  <2>2. DOMAIN new = 1 .. Len(new)
    BY <2>1, LenProperties
  <2> QED  BY <2>1, <2>2
<1>4. ToSet(new) = ToSet(list) \cup {t}
  <2>1. \A i \in 1 .. n + 1 : new[i] \in ToSet(list) \cup {t}
    <3> TAKE i \in 1 .. n + 1
    <3>1. CASE i < k
      <4>1. i \in 1 .. n /\ new[i] = list[i]
        BY <1>0, <1>2, <1>3, <3>1
      <4> QED  BY <1>0, <4>1 DEF ToSet
    <3>2. CASE i = k
      BY <1>3, <3>2
    <3>3. CASE i > k
      <4>1. i - 1 \in 1 .. n
        BY <1>0, <1>2, <3>3
      <4>2. new[i] = list[i - 1]
        BY <1>2, <1>3, <3>3
      <4> QED  BY <1>0, <4>1, <4>2 DEF ToSet
    <3>4. i < k \/ i = k \/ i > k
      BY <1>0, <1>2
    <3> QED  BY <3>1, <3>2, <3>3, <3>4
  <2>2. t \in ToSet(new)
    <3>1. k \in 1 .. n + 1 /\ new[k] = t
      BY <1>2, <1>3
    <3> QED  BY <1>3, <3>1 DEF ToSet
  <2>3. \A i \in 1 .. n : list[i] \in ToSet(new)
    <3> TAKE i \in 1 .. n
    <3>1. CASE i < k
      <4>1. i \in 1 .. n + 1 /\ new[i] = list[i]
        BY <1>0, <1>3, <3>1
      <4> QED  BY <1>3, <4>1 DEF ToSet
    <3>2. CASE i >= k
      <4>1. i + 1 \in 1 .. n + 1 /\ i + 1 > k /\ (i + 1) - 1 = i
        BY <1>0, <1>2, <3>2
      <4>2. new[i + 1] = list[(i + 1) - 1]
        BY <1>2, <1>3, <4>1
      <4> QED  BY <1>3, <4>1, <4>2 DEF ToSet
    <3>3. i < k \/ i >= k
      BY <1>0, <1>2
    <3> QED  BY <3>1, <3>2, <3>3
  <2> QED  BY <1>0, <1>3, <2>1, <2>2, <2>3 DEF ToSet
<1>5. ASSUME Distinct(list), t \notin ToSet(list)
      PROVE  Distinct(new)
  <2> DEFINE old(i) == IF i < k THEN i ELSE i - 1
  <2> SUFFICES ASSUME NEW i \in 1 .. n + 1, NEW j \in 1 .. n + 1, new[i] = new[j]
               PROVE  i = j
    BY <1>3 DEF Distinct
  <2>1. \A x \in 1 .. n : list[x] # t
    BY <1>0, <1>5 DEF ToSet
  <2>2. \A x \in 1 .. n + 1 : x # k => old(x) \in 1 .. n /\ new[x] = list[old(x)]
    BY <1>0, <1>2, <1>3
  <2>3. new[k] = t
    BY <1>2, <1>3
  <2>4. CASE i = k \/ j = k
    BY <2>1, <2>2, <2>3, <2>4
  <2>5. CASE i # k /\ j # k
    <3>1. old(i) \in 1 .. n /\ old(j) \in 1 .. n /\ list[old(i)] = list[old(j)]
      BY <2>2, <2>5
    <3>2. old(i) = old(j)
      BY <1>0, <1>5, <3>1 DEF Distinct
    <3> QED  BY <1>0, <1>2, <2>5, <3>2
  <2> QED  BY <2>4, <2>5
<1>6. ASSUME Descending(list, pri)
      PROVE  Descending(new, pri)
  <2> DEFINE old(i) == IF i < k THEN i ELSE i - 1
  <2> SUFFICES ASSUME NEW i \in 1 .. n + 1, NEW j \in 1 .. n + 1, i < j
               PROVE  pri[new[i]] >= pri[new[j]]
    BY <1>3 DEF Descending
  <2>1. \A x, y \in 1 .. n : x < y => pri[list[x]] >= pri[list[y]]
    BY <1>0, <1>6 DEF Descending
  <2>2. \A x \in 1 .. n + 1 : x # k => old(x) \in 1 .. n /\ new[x] = list[old(x)]
    BY <1>0, <1>2, <1>3
  <2>3. new[k] = t
    BY <1>2, <1>3
  <2>4. CASE i = k
    <3>1. old(j) = j - 1 /\ old(j) \in 1 .. n /\ new[j] = list[j - 1]
      BY <1>0, <1>2, <2>2, <2>4
    <3>2. k \in 1 .. n /\ (k = j - 1 \/ k < j - 1)
      BY <1>0, <1>2, <2>4
    <3>3. pri[list[k]] >= pri[list[j - 1]]
      BY <1>0, <2>1, <3>1, <3>2
    <3> QED  BY <1>0, <1>2, <2>3, <2>4, <3>1, <3>2, <3>3
  <2>5. CASE j = k
    <3>1. i \in 1 .. n /\ new[i] = list[i]
      BY <1>0, <1>2, <2>2, <2>5
    <3> QED  BY <1>0, <1>2, <2>3, <2>5, <3>1
  <2>6. CASE i # k /\ j # k
    <3>1. old(i) \in 1 .. n /\ old(j) \in 1 .. n /\ old(i) < old(j)
      BY <1>0, <1>2, <2>2, <2>6
    <3> QED  BY <2>1, <2>2, <2>6, <3>1
  <2> QED  BY <2>4, <2>5, <2>6
<1> QED  BY <1>3, <1>4, <1>5, <1>6 DEF new, n

(* list_remove: one member less, and the order of the others stays. *)
LEMMA Removed ==
    ASSUME NEW list \in Seq(Threads), NEW t, Contains(list, t), Distinct(list)
    PROVE  LET rest == Without(list, t)
           IN  /\ rest \in Seq(Threads)
               /\ ToSet(rest) = ToSet(list) \ {t}
               /\ Distinct(rest)
               /\ \A pri : Descending(list, pri) => Descending(rest, pri)
<1> DEFINE rest == Without(list, t)
           k == CHOOSE i \in DOMAIN list : list[i] = t
           n == Len(list)
<1>0. n \in Nat /\ DOMAIN list = 1 .. n
  BY LenProperties
<1>1. k \in 1 .. n /\ list[k] = t
  BY <1>0 DEF Contains
<1>2. rest = RemoveAt(list, k)
  BY DEF Without
<1> HIDE DEF k
<1>3. /\ rest \in Seq(Threads)
      /\ Len(rest) = n - 1 /\ DOMAIN rest = 1 .. n - 1
      /\ \A i \in 1 .. n - 1 : rest[i] = IF i < k THEN list[i] ELSE list[i + 1]
  <2>1. /\ RemoveAt(list, k) \in Seq(Threads)
        /\ Len(RemoveAt(list, k)) = n - 1
        /\ \A i \in 1 .. n - 1 :
              RemoveAt(list, k)[i] = IF i < k THEN list[i] ELSE list[i + 1]
    BY <1>1, RemovedAt
  <2>2. DOMAIN RemoveAt(list, k) = 1 .. n - 1
    BY <2>1, LenProperties
  <2> QED  BY <1>2, <2>1, <2>2
<1> HIDE DEF rest, n
<1> DEFINE old(i) == IF i < k THEN i ELSE i + 1
<1>4. /\ \A i \in 1 .. n - 1 : old(i) \in 1 .. n /\ old(i) # k /\ rest[i] = list[old(i)]
      /\ \A i, j \in 1 .. n - 1 : i < j => old(i) < old(j)
  BY <1>0, <1>1, <1>3
<1>5. \A i \in 1 .. n : i # k => \E j \in 1 .. n - 1 : old(j) = i
  <2> SUFFICES ASSUME NEW i \in 1 .. n, i # k PROVE \E j \in 1 .. n - 1 : old(j) = i
    OBVIOUS
  <2>1. CASE i < k
    <3>1. i \in 1 .. n - 1 /\ old(i) = i
      BY <1>0, <1>1, <2>1
    <3> QED  BY <3>1
  <2>2. CASE i > k
    <3>1. i - 1 \in 1 .. n - 1 /\ old(i - 1) = i
      BY <1>0, <1>1, <2>2
    <3> QED  BY <3>1
  <2> QED  BY <1>0, <1>1, <2>1, <2>2
<1> HIDE DEF old
<1>6. \A i, j \in 1 .. n : list[i] = list[j] => i = j
  BY <1>0 DEF Distinct
<1>7. ToSet(rest) = ToSet(list) \ {t}
  <2>1. \A x : x \in ToSet(rest) <=> \E j \in 1 .. n - 1 : rest[j] = x
    BY <1>3 DEF ToSet
  <2>2. \A x : x \in ToSet(list) <=> \E i \in 1 .. n : list[i] = x
    BY <1>0 DEF ToSet
  <2>3. ASSUME NEW x \in ToSet(rest) PROVE x \in ToSet(list) \ {t}
    <3>1. PICK j \in 1 .. n - 1 : rest[j] = x
      BY <2>1
    <3>2. old(j) \in 1 .. n /\ old(j) # k /\ list[old(j)] = x
      BY <1>4, <3>1
    <3> QED  BY <1>1, <1>6, <2>2, <3>2
  <2>4. ASSUME NEW x \in ToSet(list), x # t PROVE x \in ToSet(rest)
    <3>1. PICK i \in 1 .. n : list[i] = x
      BY <2>2
    <3>2. PICK j \in 1 .. n - 1 : old(j) = i
      BY <1>1, <1>5, <2>4, <3>1
    <3> QED  BY <1>4, <2>1, <3>1, <3>2
  <2> QED  BY <2>3, <2>4
<1>8. Distinct(rest)
  <2> SUFFICES ASSUME NEW i \in 1 .. n - 1, NEW j \in 1 .. n - 1, rest[i] = rest[j]
               PROVE  i = j
    BY <1>3 DEF Distinct
  <2>1. old(i) = old(j)
    BY <1>4, <1>6
  <2>2. ~(old(i) < old(j)) /\ ~(old(j) < old(i))
    BY <1>0, <1>4, <2>1
  <2> QED  BY <1>0, <1>4, <2>2
<1>9. ASSUME NEW pri, Descending(list, pri)
      PROVE  Descending(rest, pri)
  BY <1>0, <1>3, <1>4, <1>9 DEF Descending
<1> QED  BY <1>3, <1>7, <1>8, <1>9 DEF rest

(* next_thread_to_run takes the first thread off the list. *)
LEMMA Scheduled ==
    ASSUME NEW list \in Seq(Threads), Distinct(list), Schedule(list)
    PROVE  /\ cur' \in Threads \cup {NoThread}
           /\ ready_list' \in Seq(Threads)
           /\ Distinct(ready_list')
           /\ cur' \notin ToSet(ready_list')
           /\ \A t \in Threads : t \in ToSet(list) <=> t = cur' \/ t \in ToSet(ready_list')
           /\ \A pri : Descending(list, pri) => Descending(ready_list', pri)
<1>1. CASE list = <<>>
  BY <1>1, NoThreadAssumption DEF Schedule, Distinct, Descending, ToSet
<1>2. CASE list # <<>>
  <2> DEFINE n == Len(list)
  <2>1. /\ n \in Nat \ {0} /\ DOMAIN list = 1 .. n
        /\ \A i \in 1 .. n : list[i] \in Threads
    BY <1>2, EmptySeq, LenProperties
  <2>2. /\ ready_list' \in Seq(Threads) /\ DOMAIN ready_list' = 1 .. n - 1
        /\ \A i \in 1 .. n - 1 : ready_list'[i] = list[i + 1]
        /\ cur' = list[1]
    <3>1. cur' = Head(list) /\ ready_list' = Tail(list)
      BY <1>2 DEF Schedule
    <3>2. /\ Tail(list) \in Seq(Threads) /\ Len(Tail(list)) = n - 1
          /\ \A i \in 1 .. Len(Tail(list)) : Tail(list)[i] = list[i + 1]
      BY <1>2, HeadTailProperties
    <3>3. DOMAIN Tail(list) = 1 .. n - 1
      BY <3>2, LenProperties
    <3> QED  BY <3>1, <3>2, <3>3
  <2> HIDE DEF n
  <2>3. \A i, j \in 1 .. n : list[i] = list[j] => i = j
    BY <2>1 DEF Distinct
  <2>4. \A i \in 1 .. n - 1 : i + 1 \in 1 .. n /\ i + 1 # 1
    BY <2>1
  <2>5. Distinct(ready_list')
    <3> SUFFICES ASSUME NEW i \in 1 .. n - 1, NEW j \in 1 .. n - 1,
                        ready_list'[i] = ready_list'[j]
                 PROVE  i = j
      BY <2>2 DEF Distinct
    <3>1. i + 1 = j + 1
      BY <2>2, <2>3, <2>4
    <3> QED  BY <2>1, <3>1
  <2>6. \A t : t \in ToSet(ready_list') <=> \E i \in 1 .. n - 1 : list[i + 1] = t
    BY <2>2 DEF ToSet
  <2>7. \A t : t \in ToSet(list) <=> \E i \in 1 .. n : list[i] = t
    BY <2>1 DEF ToSet
  <2>8. cur' \notin ToSet(ready_list')
    <3>1. 1 \in 1 .. n
      BY <2>1
    <3> QED  BY <2>2, <2>3, <2>4, <2>6, <3>1
  <2>9. ASSUME NEW t \in Threads
        PROVE  t \in ToSet(list) <=> t = cur' \/ t \in ToSet(ready_list')
    <3>1. ASSUME NEW i \in 1 .. n, list[i] = t
          PROVE  t = cur' \/ t \in ToSet(ready_list')
      <4>1. CASE i = 1
        BY <2>2, <3>1, <4>1
      <4>2. CASE i # 1
        <5>1. i - 1 \in 1 .. n - 1 /\ (i - 1) + 1 = i
          BY <2>1, <4>2
        <5> QED  BY <2>6, <3>1, <5>1
      <4> QED  BY <4>1, <4>2
    <3>2. 1 \in 1 .. n
      BY <2>1
    <3> QED  BY <2>2, <2>4, <2>6, <2>7, <3>1, <3>2
  <2>10. ASSUME NEW pri, Descending(list, pri)
         PROVE  Descending(ready_list', pri)
    <3> SUFFICES ASSUME NEW i \in 1 .. n - 1, NEW j \in 1 .. n - 1, i < j
                 PROVE  pri[ready_list'[i]] >= pri[ready_list'[j]]
      BY <2>2 DEF Descending
    <3>1. i + 1 < j + 1
      BY <2>1
    <3> QED  BY <2>1, <2>2, <2>4, <2>10, <3>1 DEF Descending
  <2> QED  BY <2>1, <2>2, <2>5, <2>8, <2>9, <2>10
<1> QED  BY <1>1, <1>2

(* thread_yield: the running thread and the ready ones stay the same set. *)
LEMMA Yielded ==
    ASSUME NEW list \in Seq(Threads), Distinct(list),
           NEW t \in Threads, t \notin ToSet(list),
           NEW pri \in [Threads -> Nat], Yield(t, list, pri)
    PROVE  /\ cur' \in Threads \cup {NoThread}
           /\ ready_list' \in Seq(Threads)
           /\ Distinct(ready_list')
           /\ cur' \notin ToSet(ready_list')
           /\ \A u \in Threads : u \in ToSet(list) \cup {t}
                                   <=> u = cur' \/ u \in ToSet(ready_list')
           /\ Descending(list, pri) => Descending(ready_list', pri)
<1> DEFINE new == InsertOrdered(list, t, pri)
<1>1. /\ new \in Seq(Threads) /\ Distinct(new)
      /\ ToSet(new) = ToSet(list) \cup {t}
      /\ Descending(list, pri) => Descending(new, pri)
  BY Inserted
<1>2. Schedule(new)
  BY DEF Yield
<1> HIDE DEF new
<1> QED  BY <1>1, <1>2, Scheduled

(* list_sort: the same threads in descending order of priority. *)
LEMMA SortedList ==
    ASSUME NEW list \in Seq(Threads), priority \in [Threads -> Nat]
    PROVE  /\ Sorted(list) \in Seq(Threads)
           /\ Len(Sorted(list)) = Len(list)
           /\ ToSet(Sorted(list)) = ToSet(list)
           /\ Distinct(list) => Distinct(Sorted(list))
           /\ Descending(Sorted(list), priority)
<1> DEFINE n == Len(list)
           P(i) == priority[list[i]]
           rank == [i \in 1 .. n |-> Rank(list, i)]
           place(k) == CHOOSE i \in 1 .. n : Rank(list, i) = k
<1>0. /\ n \in Nat /\ DOMAIN list = 1 .. n
      /\ \A i \in 1 .. n : list[i] \in Threads /\ P(i) \in Nat
  BY LenProperties
<1>1. \A i \in 1 .. n :
         /\ Ahead(list, i) \subseteq 1 .. n
         /\ \A j \in 1 .. n :
               j \in Ahead(list, i) <=> P(j) > P(i) \/ (P(j) = P(i) /\ j <= i)
  BY <1>0 DEF Ahead
<1>2. Sorted(list) = [k \in 1 .. n |-> list[place(k)]]
  BY <1>0 DEF Sorted
<1> HIDE DEF n, P
<1>3. IsFiniteSet(1 .. n) /\ Cardinality(1 .. n) = n
  BY <1>0, FS_Interval
<1>4. ASSUME NEW i \in 1 .. n
      PROVE  /\ IsFiniteSet(Ahead(list, i)) /\ i \in Ahead(list, i)
             /\ Rank(list, i) \in 1 .. n
  <2>1. Ahead(list, i) \in SUBSET (1 .. n) /\ i \in Ahead(list, i)
    BY <1>0, <1>1
  <2>2. IsFiniteSet(Ahead(list, i)) /\ Cardinality(Ahead(list, i)) <= n
    BY <1>3, <2>1, FS_Subset
  <2>3. Cardinality(Ahead(list, i)) \in Nat /\ Cardinality(Ahead(list, i)) # 0
    BY <2>1, <2>2, FS_CardinalityType, FS_EmptySet
  <2> QED  BY <1>0, <2>1, <2>2, <2>3 DEF Rank
<1>5. ASSUME NEW i \in 1 .. n, NEW j \in 1 .. n,
             P(i) > P(j) \/ (P(i) = P(j) /\ i < j)
      PROVE  Rank(list, i) < Rank(list, j)
  <2>1. Ahead(list, i) \in SUBSET Ahead(list, j)
    BY <1>0, <1>1, <1>5
  <2>2. j \notin Ahead(list, i) /\ j \in Ahead(list, j)
    BY <1>0, <1>1, <1>5
  <2>3. Rank(list, i) <= Rank(list, j) /\ Rank(list, j) # Rank(list, i)
    BY <1>4, <2>1, <2>2, FS_Subset DEF Rank
  <2>4. Rank(list, i) \in Int /\ Rank(list, j) \in Int
    BY <1>4
  <2> QED  BY <2>3, <2>4
<1>6. rank \in Injection(1 .. n, 1 .. n)
  <2>1. rank \in [1 .. n -> 1 .. n]
    BY <1>4
  <2>2. \A i, j \in 1 .. n : rank[i] = rank[j] => i = j
    <3> SUFFICES ASSUME NEW i \in 1 .. n, NEW j \in 1 .. n, i # j
                 PROVE  Rank(list, i) # Rank(list, j)
      OBVIOUS
    <3>1. \/ P(i) > P(j) \/ (P(i) = P(j) /\ i < j)
          \/ P(j) > P(i) \/ (P(j) = P(i) /\ j < i)
      BY <1>0
    <3>2. Rank(list, i) \in Int /\ Rank(list, j) \in Int
      BY <1>4
    <3>3. Rank(list, i) < Rank(list, j) \/ Rank(list, j) < Rank(list, i)
      BY <1>5, <3>1
    <3> QED  BY <3>2, <3>3
  <2> QED  BY <2>1, <2>2 DEF Injection, IsInjective
<1>7. rank \in Surjection(1 .. n, 1 .. n)
  BY <1>3, <1>6, FS_Injection
<1>8. ASSUME NEW k \in 1 .. n
      PROVE  place(k) \in 1 .. n /\ Rank(list, place(k)) = k
  <2>1. \E i \in 1 .. n : Rank(list, i) = k
    BY <1>7 DEF Surjection
  <2> QED  BY <2>1
<1>9. ASSUME NEW i \in 1 .. n
      PROVE  Rank(list, i) \in 1 .. n /\ place(Rank(list, i)) = i
  <2>1. Rank(list, i) \in 1 .. n
    BY <1>4
  <2>2. place(Rank(list, i)) \in 1 .. n /\ Rank(list, place(Rank(list, i))) = Rank(list, i)
    BY <1>8, <2>1
  <2> HIDE DEF place
  <2>3. \A a, b \in 1 .. n : Rank(list, a) = Rank(list, b) => a = b
    BY <1>6 DEF Injection, IsInjective
  <2> QED  BY <2>1, <2>2, <2>3
<1> HIDE DEF rank, place
<1>10. /\ Sorted(list) \in Seq(Threads) /\ Len(Sorted(list)) = n
       /\ DOMAIN Sorted(list) = 1 .. n
  <2>1. Sorted(list) \in [1 .. n -> Threads]
    BY <1>0, <1>2, <1>8
  <2>2. Sorted(list) \in Seq(Threads)
    BY <1>0, <2>1, SeqDef
  <2>3. DOMAIN Sorted(list) = 1 .. n
    BY <2>1
  <2> QED  BY <1>0, <2>2, <2>3, LenProperties
<1>11. ToSet(Sorted(list)) = ToSet(list)
  <2>1. \A k \in 1 .. n : Sorted(list)[k] = list[place(k)]
    BY <1>2
  <2> QED  BY <1>0, <1>8, <1>9, <1>10, <2>1 DEF ToSet
<1>12. ASSUME Distinct(list) PROVE Distinct(Sorted(list))
  <2> SUFFICES ASSUME NEW k \in 1 .. n, NEW m \in 1 .. n, list[place(k)] = list[place(m)]
               PROVE  k = m
    BY <1>2, <1>10 DEF Distinct
  <2>1. place(k) = place(m)
    BY <1>0, <1>8, <1>12 DEF Distinct
  <2> QED  BY <1>8, <2>1
<1>13. Descending(Sorted(list), priority)
  <2> SUFFICES ASSUME NEW k \in 1 .. n, NEW m \in 1 .. n, k < m
               PROVE  P(place(k)) >= P(place(m))
    BY <1>2, <1>10 DEF Descending, P
  <2>1. /\ place(k) \in 1 .. n /\ Rank(list, place(k)) = k
        /\ place(m) \in 1 .. n /\ Rank(list, place(m)) = m
    BY <1>8
  <2>2. ~(P(place(m)) > P(place(k)))
    <3> SUFFICES ASSUME P(place(m)) > P(place(k)) PROVE FALSE
      OBVIOUS
    <3>1. Rank(list, place(m)) < Rank(list, place(k))
      BY <1>5, <2>1
    <3> QED  BY <2>1, <3>1
  <2>3. P(place(k)) \in Nat /\ P(place(m)) \in Nat
    BY <1>0, <2>1
  <2> QED  BY <2>2, <2>3
<1> QED  BY <1>10, <1>11, <1>12, <1>13 DEF n

-----------------------------------------------------------------------------
(* The types of what donation computes. *)

(* A thread in the donation loop, past its test, is at a lock. *)
LoopHasLock ==
    \A t \in Threads : pc[t] \in {"store", "fetch", "donate", "follow"} => lk[t] \in Locks

(* The types of what donation reads and writes.  max_pri of a lock is 0 until *)
(* the lock is first taken.                                                   *)
DonationTyped ==
    /\ priority \in [Threads -> Priorities]
    /\ waiting_lock \in [Threads -> Locks \cup {NoLock}]
    /\ max_pri \in [Locks -> Priorities \cup {0}]
    /\ lk \in [Threads -> Locks \cup {NoLock}]
    /\ fetched \in [Threads -> Threads \cup {NoThread}]
    /\ loaded \in [Threads -> Priorities]
    /\ up \in BOOLEAN
    /\ disturbed \in 0 .. MaxDisturbances
    /\ \A t \in Threads : IsFiniteSet(holding_locks[t])
    /\ LoopHasLock

(* thread_update_pri computes the maximum of the thread's own priority and *)
(* the offers for its locks.                                               *)
LEMMA UpdatedPriIsMax ==
    ASSUME Typed, DonationTyped, NEW t \in Threads,
           NEW held \in SUBSET Locks, IsFiniteSet(held)
    PROVE  /\ UpdatedPri(t, held) \in Nat
           /\ UpdatedPri(t, held) >= original_pri[t]
           /\ \A l \in held : UpdatedPri(t, held) >= max_pri[l]
           /\ \/ UpdatedPri(t, held) = original_pri[t]
              \/ \E l \in held : UpdatedPri(t, held) = max_pri[l]
<1> DEFINE donated == { max_pri[l] : l \in held }
           all == {original_pri[t]} \cup donated
<1>1. original_pri[t] \in Priorities /\ \A l \in held : max_pri[l] \in Priorities \cup {0}
  BY DEF Typed, DonationTyped
<1>2. IsFiniteSet(donated)
  <2> DEFINE f == [l \in held |-> max_pri[l]]
  <2>1. f \in Surjection(held, donated)
    BY DEF Surjection
  <2> HIDE DEF f, donated
  <2> QED  BY <2>1, FS_Surjection
<1>3. /\ \A l \in held : max_pri[l] \in donated
      /\ \A p \in donated : \E l \in held : p = max_pri[l]
  OBVIOUS
<1> HIDE DEF donated
<1>4. IsFiniteSet(all)
  <2>1. IsFiniteSet(donated \cup {original_pri[t]})
    BY <1>2, FS_AddElement
  <2>2. all = donated \cup {original_pri[t]}
    OBVIOUS
  <2> QED  BY <2>1, <2>2
<1>5. all \in SUBSET Nat /\ all # {} /\ original_pri[t] \in all
  <2>1. Priorities \cup {0} \subseteq Nat
    BY PrioritiesAssumption
  <2>2. original_pri[t] \in Nat /\ donated \subseteq Nat
    BY <1>1, <1>3, <2>1
  <2> QED  BY <2>2
<1>6. UpdatedPri(t, held) = Max(all)
  BY DEF UpdatedPri, donated
<1>7. /\ \A l \in held : max_pri[l] \in all
      /\ \A p \in all : p = original_pri[t] \/ \E l \in held : p = max_pri[l]
  BY <1>3
<1> HIDE DEF all
<1>8. Max(all) \in all /\ \A y \in all : Max(all) >= y
  BY <1>4, <1>5, MaxOfNats
<1>9. Max(all) \in Nat
  BY <1>5, <1>8
<1> QED  BY <1>5, <1>6, <1>7, <1>8, <1>9

(* thread_update_pri computes a priority. *)
LEMMA UpdatedPriType ==
    ASSUME Typed, DonationTyped, NEW t \in Threads,
           NEW held \in SUBSET Locks, IsFiniteSet(held)
    PROVE  UpdatedPri(t, held) \in Priorities
<1>1. original_pri[t] \in Priorities /\ \A l \in held : max_pri[l] \in Priorities \cup {0}
  BY DEF Typed, DonationTyped
<1>2. /\ UpdatedPri(t, held) \in Nat
      /\ UpdatedPri(t, held) >= original_pri[t]
      /\ \/ UpdatedPri(t, held) = original_pri[t]
         \/ \E l \in held : UpdatedPri(t, held) = max_pri[l]
  BY UpdatedPriIsMax
<1>3. CASE UpdatedPri(t, held) = 0
  <2>1. original_pri[t] \in Nat
    BY <1>1, PrioritiesAssumption
  <2>2. original_pri[t] = 0
    BY <1>2, <1>3, <2>1
  <2> QED  BY <1>1, <1>3, <2>2
<1>4. CASE UpdatedPri(t, held) # 0
  BY <1>1, <1>2, <1>4
<1> QED  BY <1>3, <1>4

(* Nothing leaves its type. *)
LEMMA DonationTypedPreserved ==
    ASSUME LockInv, DonationTyped, [Next]_vars
    PROVE  DonationTyped'
<1> USE DEF threadVars, lockVars, localVars
<1>0. /\ pc \in [Threads -> Points] /\ want \in [Threads -> Locks \cup {NoLock}]
      /\ holder \in [Locks -> Threads \cup {NoThread}]
      /\ holding_locks \in [Threads -> SUBSET Locks]
      /\ Typed /\ CallHasLock
      /\ 0 \in Nat /\ Priorities \subseteq Nat /\ Default \in Priorities
      /\ NewPriorities \subseteq Priorities /\ MaxDisturbances \in Nat
  BY PrioritiesAssumption, NewPrioritiesAssumption, DisturbancesAssumption DEF LockInv, Typed
<1>a. ASSUME Disturb \/ UNCHANGED disturbed
      PROVE  disturbed' \in 0 .. MaxDisturbances
  BY <1>0, <1>a DEF Disturb, DonationTyped
<1>1. CASE UNCHANGED vars
  BY <1>1 DEF vars, DonationTyped, LoopHasLock
<1>2. CASE IdleBlocks
  BY <1>2 DEF IdleBlocks, DonationTyped, LoopHasLock
<1>3. ASSUME NEW t \in Threads, Step(t)
      PROVE  DonationTyped'
  <2>1. CASE LockAcquire(t) \/ LockRelease(t) \/ SemaDown(t) \/ SemaBlock(t) \/ SemaUp(t)
             \/ TimerSleep(t) \/ Wake(t)
    <3>1. \E point \in {"mark", "down", "remove", "took", "blocked", "run", "sleep"} :
             pc' = [pc EXCEPT ![t] = point]
      BY <2>1 DEF LockAcquire, LockRelease, SemaDown, SemaBlock, SemaUp, TimerSleep, Wake, Goto
    <3>2. UNCHANGED <<priority, waiting_lock, max_pri, lk, fetched, loaded, up, disturbed,
                      holding_locks>>
      BY <2>1 DEF LockAcquire, LockRelease, SemaDown, SemaBlock, SemaUp, TimerSleep, Wake
    <3> QED  BY <1>0, <3>1, <3>2 DEF DonationTyped, LoopHasLock
  <2>2. CASE MarkWaiting(t)
    BY <1>0, <2>2 DEF MarkWaiting, At, Goto, DonationTyped, LoopHasLock, CallHasLock, Calling
  <2>3. CASE DonateTest(t)
    <3>1. CASE lk[t] # NoLock /\ priority[t] > max_pri[lk[t]]
      BY <1>0, <2>3, <3>1 DEF DonateTest, At, Goto, DonationTyped, LoopHasLock
    <3>2. CASE ~(lk[t] # NoLock /\ priority[t] > max_pri[lk[t]])
      BY <1>0, <2>3, <3>2 DEF DonateTest, At, Goto, DonationTyped, LoopHasLock
    <3> QED  BY <3>1, <3>2
  <2>4. CASE DonateStore(t)
    BY <1>0, <2>4 DEF DonateStore, At, Goto, DonationTyped, LoopHasLock
  <2>5. CASE FetchHolder(t)
    BY <1>0, <2>5 DEF FetchHolder, Goto, DonationTyped, LoopHasLock
  <2>6. CASE DonatePri(t)
    <3>1. /\ fetched[t] \in Threads
          /\ holding_locks[fetched[t]] \in SUBSET Locks
          /\ IsFiniteSet(holding_locks[fetched[t]])
      BY <1>0, <2>6 DEF DonatePri, Fetched, DonationTyped
    <3>2. UpdatedPri(fetched[t], holding_locks[fetched[t]]) \in Priorities
      BY <1>0, <3>1, UpdatedPriType
    <3>3. /\ priority' = [priority EXCEPT ![fetched[t]] =
                            UpdatedPri(fetched[t], holding_locks[fetched[t]])]
          /\ fetched' = [fetched EXCEPT ![t] = NoThread]
          /\ pc[t] = "donate" /\ pc' = [pc EXCEPT ![t] = "follow"]
          /\ UNCHANGED <<waiting_lock, max_pri, lk, loaded, up, disturbed, holding_locks>>
      BY <2>6 DEF DonatePri, At, Goto
    <3> QED  BY <1>0, <3>1, <3>2, <3>3 DEF DonationTyped, LoopHasLock
  <2>7. CASE DonateNext(t)
    <3>1. fetched[t] \in Threads
      BY <2>7 DEF DonateNext, Fetched, DonationTyped
    <3>2. /\ lk' = [lk EXCEPT ![t] = waiting_lock[fetched[t]]]
          /\ Disturb \/ UNCHANGED disturbed
          /\ fetched' = [fetched EXCEPT ![t] = NoThread]
          /\ pc' = [pc EXCEPT ![t] = "test"]
          /\ UNCHANGED <<priority, waiting_lock, max_pri, loaded, up, holding_locks>>
      BY <2>7 DEF DonateNext, Goto
    <3> QED  BY <1>0, <1>a, <3>1, <3>2 DEF DonationTyped, LoopHasLock
  <2>8. CASE DonateAstray(t)
    BY <2>8 DEF DonateAstray, DonationTyped, LoopHasLock
  <2>9. CASE GetLock(t)
    <3>1. /\ want[t] \in Locks
          /\ waiting_lock' = [waiting_lock EXCEPT ![t] = NoLock]
          /\ max_pri' = [max_pri EXCEPT ![want[t]] = priority[t]]
          /\ holding_locks' = [holding_locks EXCEPT ![t] = @ \cup {want[t]}]
          /\ pc' = [pc EXCEPT ![t] = "run"]
          /\ UNCHANGED <<priority, lk, fetched, loaded, up, disturbed>>
      BY <1>0, <2>9 DEF GetLock, At, Goto, CallHasLock, Calling
    <3>2. IsFiniteSet(holding_locks[t] \cup {want[t]})
      BY FS_AddElement DEF DonationTyped
    <3> QED  BY <1>0, <3>1, <3>2 DEF DonationTyped, LoopHasLock
  <2>10. CASE RemoveLock(t)
    <3>1. /\ holding_locks' = [holding_locks EXCEPT ![t] = @ \ {want[t]}]
          /\ priority' = [priority EXCEPT ![t] = UpdatedPri(t, holding_locks'[t])]
          /\ pc' = [pc EXCEPT ![t] = "up"]
          /\ UNCHANGED <<waiting_lock, max_pri, lk, fetched, loaded, up, disturbed>>
      BY <2>10 DEF RemoveLock, Goto
    <3>2. holding_locks'[t] = holding_locks[t] \ {want[t]}
      BY <1>0, <3>1
    <3>3. IsFiniteSet(holding_locks'[t]) /\ holding_locks'[t] \in SUBSET Locks
      <4>1. IsFiniteSet(holding_locks[t] \ {want[t]})
        BY FS_RemoveElement DEF DonationTyped
      <4> QED  BY <1>0, <3>2, <4>1
    <3>4. UpdatedPri(t, holding_locks'[t]) \in Priorities
      BY <1>0, <3>3, UpdatedPriType
    <3> QED  BY <1>0, <3>1, <3>3, <3>4 DEF DonationTyped, LoopHasLock
  <2>11. CASE ThreadCreate(t)
    <3>1. PICK u \in Threads, p \in Priorities :
            pc' = [pc EXCEPT ![u] = "run"] /\ priority' = [priority EXCEPT ![u] = p]
      BY <2>11 DEF ThreadCreate, Goto
    <3>2. UNCHANGED <<waiting_lock, max_pri, lk, fetched, loaded, up, disturbed, holding_locks>>
      BY <2>11 DEF ThreadCreate
    <3> QED  BY <1>0, <3>1, <3>2 DEF DonationTyped, LoopHasLock
  <2>12. CASE ThreadExit(t)
    BY <1>0, <2>12 DEF ThreadExit, Goto, DonationTyped, LoopHasLock
  <2>13. CASE SetPriority(t)
    <3>1. PICK new \in NewPriorities :
            \/ priority' = [priority EXCEPT ![t] = new] /\ (Disturb \/ UNCHANGED disturbed)
            \/ UNCHANGED <<priority, disturbed>>
      BY <2>13 DEF SetPriority
    <3>2. UNCHANGED <<waiting_lock, max_pri, lk, fetched, loaded, up, holding_locks, pc>>
      BY <2>13 DEF SetPriority
    <3> QED  BY <1>0, <1>a, <3>1, <3>2 DEF DonationTyped, LoopHasLock
  <2>14. CASE Preempt(t)
    <3>1. Disturb \/ UNCHANGED disturbed
      BY <2>14 DEF Preempt
    <3> QED  BY <1>a, <2>14, <3>1 DEF Preempt, DonationTyped, LoopHasLock
  <2> QED  BY <1>3, <2>1, <2>2, <2>3, <2>4, <2>5, <2>6, <2>7, <2>8, <2>9, <2>10, <2>11,
              <2>12, <2>13, <2>14 DEF Step
<1> QED  BY <1>1, <1>2, <1>3 DEF Next

-----------------------------------------------------------------------------
(* Where the threads are. *)

Runnable(t) == t = cur \/ t \in ToSet(ready_list)

(* Where the threads are: no list has a thread twice, the running and the     *)
(* ready threads are at points where they can run, and a thread on a list of  *)
(* waiters blocks on that lock and is neither.                                *)
Queues ==
    /\ cur \in Threads \cup {NoThread}
    /\ ready_list \in Seq(Threads)
    /\ waiters \in [Locks -> Seq(Threads)]
    /\ Distinct(ready_list)
    /\ cur \notin ToSet(ready_list)
    /\ \A t \in Threads : Runnable(t) => pc[t] \notin {"unborn", "sleep", "dead"}
    /\ \A l \in Locks :
          /\ Distinct(waiters[l])
          /\ \A t \in ToSet(waiters[l]) : pc[t] = "blocked" /\ want[t] = l /\ ~Runnable(t)
    /\ Descending(ready_list, priority)

PlacesInv == LockInv /\ DonationTyped /\ Queues

(* The ready list is as sorted under priorities that agree on its members. *)
LEMMA DescendingAgrees ==
    ASSUME NEW list \in Seq(Threads), NEW p, NEW q, Descending(list, p),
           \A u \in ToSet(list) : p[u] = q[u]
    PROVE  Descending(list, q)
BY LenProperties DEF Descending, ToSet

(* What the other threads of a step by t keep. *)
OthersStay(t) ==
    \A u \in Threads \ {t} : priority'[u] = priority[u] /\ pc'[u] = pc[u] /\ want'[u] = want[u]

(* A thread that is not ready may change its priority: the list stays sorted. *)
LEMMA ReadyStaysSorted ==
    ASSUME PlacesInv, NEW t, t \notin ToSet(ready_list), OthersStay(t)
    PROVE  Descending(ready_list, priority')
<1>1. ready_list \in Seq(Threads) /\ Descending(ready_list, priority)
  BY DEF PlacesInv, Queues
<1>2. \A u \in ToSet(ready_list) : priority[u] = priority'[u]
  BY <1>1, Members DEF OthersStay
<1> QED  BY <1>1, <1>2, DescendingAgrees

(* Steps that only move the running thread in its code. *)
LEMMA CurMoves ==
    ASSUME PlacesInv, NEW t \in Threads, cur = t, OthersStay(t),
           pc'[t] \notin {"unborn", "sleep", "dead"},
           UNCHANGED <<cur, ready_list, waiters>>
    PROVE  Queues'
<1> USE DEF PlacesInv
<1>1. \A u \in ToSet(ready_list) : u \in Threads /\ u # t
  BY Members DEF Queues
<1>2. Descending(ready_list, priority')
  BY ReadyStaysSorted DEF Queues
<1>3. \A l \in Locks : \A u \in ToSet(waiters[l]) : u \in Threads /\ u # t
  BY Members DEF Queues, Runnable
<1>4. \A u \in Threads : Runnable(u)' <=> Runnable(u)
  BY DEF Runnable
<1>5. \A l \in Locks : \A u \in ToSet(waiters[l]) :
         pc'[u] = "blocked" /\ want'[u] = l /\ ~Runnable(u)'
  BY <1>3, <1>4 DEF Queues, OthersStay
<1>6. \A u \in Threads : Runnable(u)' => pc'[u] \notin {"unborn", "sleep", "dead"}
  BY <1>4 DEF Queues, OthersStay
<1> QED  BY <1>2, <1>5, <1>6 DEF Queues

(* The running thread yields, with its own priority perhaps changed. *)
LEMMA CurYields ==
    ASSUME PlacesInv, NEW t \in Threads, cur = t, OthersStay(t),
           pc'[t] \notin {"unborn", "sleep", "dead"},
           priority' \in [Threads -> Nat],
           Yield(t, ready_list, priority'),
           UNCHANGED waiters
    PROVE  Queues'
<1> USE DEF PlacesInv
<1>1. \A u \in ToSet(ready_list) : u \in Threads /\ u # t
  BY Members DEF Queues
<1>2. Descending(ready_list, priority')
  BY ReadyStaysSorted DEF Queues
<1>3. /\ cur' \in Threads \cup {NoThread} /\ ready_list' \in Seq(Threads)
      /\ Distinct(ready_list') /\ cur' \notin ToSet(ready_list')
      /\ \A u \in Threads : u \in ToSet(ready_list) \cup {t}
                              <=> u = cur' \/ u \in ToSet(ready_list')
      /\ Descending(ready_list', priority')
  BY <1>2, Yielded DEF Queues
<1>4. \A u \in Threads : Runnable(u)' <=> Runnable(u)
  BY <1>3 DEF Runnable
<1>5. \A l \in Locks : \A u \in ToSet(waiters[l]) : u \in Threads /\ u # t
  BY Members DEF Queues, Runnable
<1>6. \A l \in Locks : \A u \in ToSet(waiters[l]) :
         pc'[u] = "blocked" /\ want'[u] = l /\ ~Runnable(u)'
  BY <1>4, <1>5 DEF Queues, OthersStay
<1>7. \A u \in Threads : Runnable(u)' => pc'[u] \notin {"unborn", "sleep", "dead"}
  BY <1>4 DEF Queues, OthersStay
<1> QED  BY <1>3, <1>6, <1>7 DEF Queues

(* The processor goes to the next ready thread; t does not become ready. *)
LEMMA CurLeaves ==
    ASSUME PlacesInv, NEW t, cur = t, OthersStay(t), Schedule(ready_list)
    PROVE  /\ cur' \in Threads \cup {NoThread}
           /\ ready_list' \in Seq(Threads)
           /\ Distinct(ready_list')
           /\ cur' \notin ToSet(ready_list')
           /\ Descending(ready_list', priority')
           /\ \A u \in Threads : Runnable(u)' <=> (Runnable(u) /\ u # t)
           /\ \A u \in Threads : Runnable(u)' => pc'[u] \notin {"unborn", "sleep", "dead"}
           /\ \A l \in Locks : \A u \in ToSet(waiters[l]) :
                 u # t /\ pc'[u] = "blocked" /\ want'[u] = l /\ ~Runnable(u)'
<1> USE DEF PlacesInv
<1>1. \A u \in ToSet(ready_list) : u \in Threads /\ u # t
  BY Members DEF Queues
<1>2. Descending(ready_list, priority')
  BY ReadyStaysSorted DEF Queues
<1>3. /\ cur' \in Threads \cup {NoThread} /\ ready_list' \in Seq(Threads)
      /\ Distinct(ready_list') /\ cur' \notin ToSet(ready_list')
      /\ \A u \in Threads : u \in ToSet(ready_list) <=> u = cur' \/ u \in ToSet(ready_list')
      /\ Descending(ready_list', priority')
  BY <1>2, Scheduled DEF Queues
<1>4. \A u \in Threads : Runnable(u)' <=> (Runnable(u) /\ u # t)
  BY <1>1, <1>3 DEF Runnable
<1>5. \A l \in Locks : \A u \in ToSet(waiters[l]) : u \in Threads /\ u # t
  BY Members DEF Queues, Runnable
<1>6. \A l \in Locks : \A u \in ToSet(waiters[l]) :
         u # t /\ pc'[u] = "blocked" /\ want'[u] = l /\ ~Runnable(u)'
  BY <1>4, <1>5 DEF Queues, OthersStay
<1>7. \A u \in Threads : Runnable(u)' => pc'[u] \notin {"unborn", "sleep", "dead"}
  BY <1>4 DEF Queues, OthersStay
<1> QED  BY <1>3, <1>4, <1>6, <1>7

(* A thread that was on no list becomes ready. *)
LEMMA BecomesReady ==
    ASSUME PlacesInv, NEW t \in Threads, ~Runnable(t), OthersStay(t),
           priority' \in [Threads -> Nat]
    PROVE  LET list == InsertOrdered(ready_list, t, priority')
           IN  /\ list \in Seq(Threads) /\ Distinct(list)
               /\ ToSet(list) = ToSet(ready_list) \cup {t}
               /\ cur \notin ToSet(list)
               /\ Descending(list, priority')
<1> DEFINE list == InsertOrdered(ready_list, t, priority')
<1>1. \A u \in ToSet(ready_list) : u \in Threads /\ u # t
  BY Members DEF PlacesInv, Queues, Runnable
<1>2. Descending(ready_list, priority')
  BY ReadyStaysSorted DEF Runnable
<1>3. /\ list \in Seq(Threads)
      /\ ToSet(list) = ToSet(ready_list) \cup {t}
      /\ Distinct(list) /\ Descending(list, priority')
  BY <1>1, <1>2, Inserted DEF PlacesInv, Queues
<1> HIDE DEF list
<1>4. cur \notin ToSet(list)
  BY <1>3 DEF PlacesInv, Queues, Runnable
<1> QED  BY <1>3, <1>4 DEF list

(* sema_down blocks: the thread leaves the processor for the lock's list. *)
LEMMA BlockPreserves ==
    ASSUME PlacesInv, NEW t \in Threads, SemaBlock(t)
    PROVE  Queues'
<1> USE DEF PlacesInv
<1>1. PICK l \in Locks : l = want[t]
  BY DEF SemaBlock, LockInv, CallHasLock, Calling
<1>2. /\ cur = t /\ pc' = [pc EXCEPT ![t] = "blocked"]
      /\ waiters' = [waiters EXCEPT ![l] = InsertOrdered(waiters[l], t, priority)]
      /\ UNCHANGED <<priority, want>> /\ Schedule(ready_list)
  BY <1>1 DEF SemaBlock, Goto, threadVars, localVars
<1>3. OthersStay(t) /\ pc'[t] = "blocked"
  BY <1>2 DEF OthersStay, LockInv, Typed
<1>4. /\ cur' \in Threads \cup {NoThread} /\ ready_list' \in Seq(Threads)
      /\ Distinct(ready_list') /\ cur' \notin ToSet(ready_list')
      /\ Descending(ready_list', priority')
      /\ \A u \in Threads : Runnable(u)' <=> (Runnable(u) /\ u # t)
      /\ \A u \in Threads : Runnable(u)' => pc'[u] \notin {"unborn", "sleep", "dead"}
      /\ \A m \in Locks : \A u \in ToSet(waiters[m]) :
            u # t /\ pc'[u] = "blocked" /\ want'[u] = m /\ ~Runnable(u)'
  BY <1>2, <1>3, CurLeaves
<1>5. priority \in [Threads -> Nat]
  BY PrioritiesAssumption DEF DonationTyped
<1>6. waiters[l] \in Seq(Threads) /\ Distinct(waiters[l]) /\ t \notin ToSet(waiters[l])
  BY <1>4 DEF Queues
<1>7. /\ InsertOrdered(waiters[l], t, priority) \in Seq(Threads)
      /\ Distinct(InsertOrdered(waiters[l], t, priority))
      /\ ToSet(InsertOrdered(waiters[l], t, priority)) = ToSet(waiters[l]) \cup {t}
  BY <1>5, <1>6, Inserted
<1>8. waiters' \in [Locks -> Seq(Threads)]
  BY <1>2, <1>7 DEF Queues
<1>9. ASSUME NEW m \in Locks
      PROVE  /\ Distinct(waiters'[m])
             /\ \A u \in ToSet(waiters'[m]) : pc'[u] = "blocked" /\ want'[u] = m /\ ~Runnable(u)'
  <2>1. CASE m = l
    <3>1. waiters'[m] = InsertOrdered(waiters[l], t, priority)
      BY <1>2, <2>1 DEF Queues
    <3>2. pc'[t] = "blocked" /\ want'[t] = l /\ ~Runnable(t)'
      BY <1>1, <1>2, <1>3, <1>4
    <3> QED  BY <1>4, <1>7, <2>1, <3>1, <3>2
  <2>2. CASE m # l
    <3>1. waiters'[m] = waiters[m]
      BY <1>2, <2>2 DEF Queues
    <3> QED  BY <1>4, <3>1 DEF Queues
  <2> QED  BY <2>1, <2>2
<1> QED  BY <1>4, <1>8, <1>9 DEF Queues

(* The waiter sema_up takes off the list: a first one in order of priority. *)
LEMMA SortedHead ==
    ASSUME PlacesInv, NEW l \in Locks, Sorted(waiters[l]) # <<>>
    PROVE  LET w == Head(Sorted(waiters[l]))
               rest == Tail(Sorted(waiters[l]))
           IN  /\ w \in ToSet(waiters[l])
               /\ rest \in Seq(Threads) /\ Distinct(rest)
               /\ ToSet(rest) = ToSet(waiters[l]) \ {w}
               /\ Len(rest) = Len(waiters[l]) - 1
               /\ \A u \in ToSet(waiters[l]) : priority[w] >= priority[u]
<1> DEFINE s == Sorted(waiters[l])
           n == Len(s)
           w == Head(s)
           rest == Tail(s)
<1>0. priority \in [Threads -> Nat] /\ waiters[l] \in Seq(Threads) /\ Distinct(waiters[l])
  BY PrioritiesAssumption DEF PlacesInv, DonationTyped, Queues
<1>1. /\ s \in Seq(Threads) /\ s # <<>> /\ Len(s) = Len(waiters[l])
      /\ ToSet(s) = ToSet(waiters[l])
      /\ Distinct(s) /\ Descending(s, priority)
  BY <1>0, SortedList
<1> HIDE DEF s
<1>2. /\ n \in Nat \ {0} /\ DOMAIN s = 1 .. n
      /\ \A i \in 1 .. n : s[i] \in Threads /\ priority[s[i]] \in Nat
  BY <1>0, <1>1, EmptySeq, LenProperties
<1>3. /\ w = s[1]
      /\ rest \in Seq(Threads) /\ Len(rest) = n - 1 /\ DOMAIN rest = 1 .. n - 1
      /\ \A i \in 1 .. n - 1 : rest[i] = s[i + 1]
  <2>1. /\ Tail(s) \in Seq(Threads) /\ Len(Tail(s)) = n - 1
        /\ \A i \in 1 .. Len(Tail(s)) : Tail(s)[i] = s[i + 1]
    BY <1>1, HeadTailProperties
  <2>2. DOMAIN Tail(s) = 1 .. n - 1
    BY <2>1, LenProperties
  <2> QED  BY <1>1, <2>1, <2>2
<1> HIDE DEF w, rest, n
<1>4. \A u : u \in ToSet(s) <=> \E i \in 1 .. n : s[i] = u
  BY <1>2 DEF ToSet
<1>5. \A u : u \in ToSet(rest) <=> \E i \in 1 .. n - 1 : s[i + 1] = u
  BY <1>3 DEF ToSet
<1>6. \A i, j \in 1 .. n : s[i] = s[j] => i = j
  BY <1>1, <1>2 DEF Distinct
<1>7. 1 \in 1 .. n /\ \A i \in 1 .. n - 1 : i + 1 \in 1 .. n /\ i + 1 # 1
  BY <1>2
<1>8. \A i \in 1 .. n : i = 1 \/ \E j \in 1 .. n - 1 : i = j + 1
  <2> TAKE i \in 1 .. n
  <2>1. CASE i # 1
    <3>1. i - 1 \in 1 .. n - 1 /\ i = (i - 1) + 1
      BY <1>2, <2>1
    <3> QED  BY <3>1
  <2> QED  BY <2>1
<1>9. ToSet(rest) = ToSet(s) \ {w}
  BY <1>3, <1>4, <1>5, <1>6, <1>7, <1>8
<1>10. Distinct(rest)
  <2> SUFFICES ASSUME NEW i \in 1 .. n - 1, NEW j \in 1 .. n - 1, rest[i] = rest[j]
               PROVE  i = j
    BY <1>3 DEF Distinct
  <2>1. i + 1 = j + 1
    BY <1>3, <1>6, <1>7
  <2> QED  BY <1>2, <2>1
<1>11. \A u \in ToSet(s) : priority[w] >= priority[u]
  <2> SUFFICES ASSUME NEW i \in 1 .. n PROVE priority[s[1]] >= priority[s[i]]
    BY <1>3, <1>4
  <2>1. CASE i = 1
    BY <1>2, <2>1
  <2>2. CASE i # 1
    <3>1. 1 < i
      BY <1>2, <2>2
    <3> QED  BY <1>1, <1>2, <1>7, <3>1 DEF Descending
  <2> QED  BY <2>1, <2>2
<1>12. w \in ToSet(s)
  BY <1>3, <1>4, <1>7
<1> QED  BY <1>1, <1>3, <1>9, <1>10, <1>11, <1>12 DEF s, w, rest, n

(* sema_up: a waiter becomes ready and the caller yields. *)
LEMMA UpQueues ==
    ASSUME PlacesInv, NEW t \in Threads, SemaUp(t)
    PROVE  Queues'
<1> USE DEF PlacesInv
<1> DEFINE l == want[t]
           w == Head(Sorted(waiters[l]))
           rest == Tail(Sorted(waiters[l]))
<1>1. /\ cur = t /\ pc[t] = "up" /\ pc' = [pc EXCEPT ![t] = "run"]
      /\ want' = [want EXCEPT ![t] = NoLock] /\ UNCHANGED priority
  BY DEF SemaUp, At, Goto, threadVars
<1>2. l \in Locks
  BY <1>1 DEF LockInv, CallHasLock, Calling
<1>3. priority \in [Threads -> Nat]
  BY PrioritiesAssumption DEF DonationTyped
<1>4. OthersStay(t) /\ pc'[t] = "run"
  BY <1>1 DEF OthersStay, LockInv, Typed
<1>5. CASE Sorted(waiters[l]) = <<>>
  <2>1. Yield(t, ready_list, priority) /\ UNCHANGED waiters
    BY <1>5 DEF SemaUp
  <2>2. priority' \in [Threads -> Nat] /\ Yield(t, ready_list, priority')
    BY <1>1, <1>3, <2>1
  <2> QED  BY <1>1, <1>4, <2>1, <2>2, CurYields
<1>6. CASE Sorted(waiters[l]) # <<>>
  <2> DEFINE list == InsertOrdered(ready_list, w, priority)
  <2>1. waiters' = [waiters EXCEPT ![l] = rest] /\ Yield(t, list, priority)
    BY <1>6 DEF SemaUp
  <2>2. /\ w \in ToSet(waiters[l])
        /\ rest \in Seq(Threads) /\ Distinct(rest)
        /\ ToSet(rest) = ToSet(waiters[l]) \ {w}
    BY <1>2, <1>6, SortedHead
  <2> HIDE DEF l, w, rest
  <2>3. w \in Threads /\ pc[w] = "blocked" /\ want[w] = l /\ ~Runnable(w) /\ w # t
    BY <1>1, <1>2, <2>2, Members DEF Queues
  <2>4. /\ list \in Seq(Threads) /\ Distinct(list)
        /\ ToSet(list) = ToSet(ready_list) \cup {w}
        /\ Descending(list, priority)
    BY <1>3, <2>3, Inserted DEF Queues, Runnable
  <2>5. t \notin ToSet(list)
    BY <1>1, <2>3, <2>4 DEF Queues
  <2> HIDE DEF list
  <2>6. /\ cur' \in Threads \cup {NoThread} /\ ready_list' \in Seq(Threads)
        /\ Distinct(ready_list') /\ cur' \notin ToSet(ready_list')
        /\ \A u \in Threads : u \in ToSet(list) \cup {t}
                                <=> u = cur' \/ u \in ToSet(ready_list')
        /\ Descending(ready_list', priority')
    BY <1>1, <1>3, <2>1, <2>4, <2>5, Yielded
  <2>7. \A u \in Threads : Runnable(u)' <=> Runnable(u) \/ u = w
    BY <1>1, <2>4, <2>6 DEF Runnable
  <2>8. \A u \in Threads : Runnable(u)' => pc'[u] \notin {"unborn", "sleep", "dead"}
    BY <1>4, <2>3, <2>7 DEF Queues, OthersStay
  <2>9. waiters' \in [Locks -> Seq(Threads)]
    BY <2>1, <2>2 DEF Queues
  <2>10. ASSUME NEW m \in Locks
         PROVE  /\ Distinct(waiters'[m])
                /\ \A u \in ToSet(waiters'[m]) :
                      pc'[u] = "blocked" /\ want'[u] = m /\ ~Runnable(u)'
    <3>1. /\ Distinct(waiters'[m])
          /\ \A u \in ToSet(waiters'[m]) : u \in ToSet(waiters[m]) /\ u # w
      <4>1. CASE m = l
        <5>1. waiters'[m] = rest
          BY <2>1, <4>1 DEF Queues
        <5> QED  BY <2>2, <4>1, <5>1
      <4>2. CASE m # l
        <5>1. waiters'[m] = waiters[m]
          BY <2>1, <4>2 DEF Queues
        <5>2. w \notin ToSet(waiters[m])
          BY <2>3, <4>2 DEF Queues
        <5> QED  BY <5>1, <5>2 DEF Queues
      <4> QED  BY <4>1, <4>2
    <3>2. \A u \in ToSet(waiters[m]) : u \in Threads /\ u # t
      BY <1>1, Members DEF Queues, Runnable
    <3> QED  BY <2>7, <3>1, <3>2, <1>4 DEF Queues, OthersStay
  <2> QED  BY <2>6, <2>8, <2>9, <2>10 DEF Queues
<1> QED  BY <1>5, <1>6

(* thread_donate_pri: a ready thread moves to its new place. *)
LEMMA DonateQueues ==
    ASSUME PlacesInv, NEW t \in Threads, DonatePri(t), priority' \in [Threads -> Nat]
    PROVE  Queues'
<1> USE DEF PlacesInv
<1> DEFINE h == fetched[t]
           rest == Without(ready_list, h)
<1>1. /\ cur = t /\ pc[t] = "donate" /\ pc' = [pc EXCEPT ![t] = "follow"]
      /\ \E p : priority' = [priority EXCEPT ![h] = p]
      /\ ready_list' = IF Contains(ready_list, h) THEN InsertOrdered(rest, h, priority')
                       ELSE ready_list
      /\ UNCHANGED <<cur, want, waiters>> /\ h # NoThread
  BY DEF DonatePri, At, Goto, Fetched, lockVars
<1>2. h \in Threads
  BY <1>1 DEF DonationTyped
<1> HIDE DEF h
<1>3. /\ \A u \in Threads : u # h => priority'[u] = priority[u]
      /\ \A u \in Threads : u # t => pc'[u] = pc[u]
      /\ pc'[t] = "follow"
  BY <1>1 DEF DonationTyped, LockInv, Typed
<1>4. Contains(ready_list, h) <=> h \in ToSet(ready_list)
  BY Members DEF Contains, Queues
<1>5. /\ ready_list' \in Seq(Threads) /\ Distinct(ready_list')
      /\ ToSet(ready_list') = ToSet(ready_list)
      /\ Descending(ready_list', priority')
  <2>1. CASE Contains(ready_list, h)
    <3>1. /\ rest \in Seq(Threads) /\ Distinct(rest)
          /\ ToSet(rest) = ToSet(ready_list) \ {h}
          /\ Descending(rest, priority)
      BY <2>1, Removed DEF Queues
    <3> HIDE DEF rest
    <3>2. \A u \in ToSet(rest) : priority[u] = priority'[u]
      BY <1>3, <3>1, Members
    <3>3. Descending(rest, priority')
      BY <3>1, <3>2, DescendingAgrees
    <3>4. /\ InsertOrdered(rest, h, priority') \in Seq(Threads)
          /\ Distinct(InsertOrdered(rest, h, priority'))
          /\ ToSet(InsertOrdered(rest, h, priority')) = ToSet(rest) \cup {h}
          /\ Descending(InsertOrdered(rest, h, priority'), priority')
      BY <1>2, <3>1, <3>3, Inserted
    <3> QED  BY <1>1, <1>4, <2>1, <3>1, <3>4
  <2>2. CASE ~Contains(ready_list, h)
    <3>1. \A u \in ToSet(ready_list) : priority[u] = priority'[u]
      BY <1>3, <1>4, <2>2, Members DEF Queues
    <3>2. Descending(ready_list, priority')
      BY <3>1, DescendingAgrees DEF Queues
    <3> QED  BY <1>1, <2>2, <3>2 DEF Queues
  <2> QED  BY <2>1, <2>2
<1>6. \A u \in Threads : Runnable(u)' <=> Runnable(u)
  BY <1>1, <1>5 DEF Runnable
<1>7. \A u \in Threads : Runnable(u)' => pc'[u] \notin {"unborn", "sleep", "dead"}
  BY <1>3, <1>6 DEF Queues
<1>8. \A l \in Locks : \A u \in ToSet(waiters[l]) : u \in Threads /\ u # t
  BY <1>1, Members DEF Queues, Runnable
<1>9. \A l \in Locks : \A u \in ToSet(waiters[l]) :
         pc'[u] = "blocked" /\ want'[u] = l /\ ~Runnable(u)'
  BY <1>1, <1>3, <1>6, <1>8 DEF Queues
<1> QED  BY <1>1, <1>5, <1>7, <1>9 DEF Queues

(* The whole of Next, for the lists. *)
LEMMA QueuesPreserved ==
    ASSUME PlacesInv, [Next]_vars
    PROVE  Queues'
<1> USE DEF threadVars, lockVars, localVars, PlacesInv
<1>0. /\ pc \in [Threads -> Points] /\ want \in [Threads -> Locks \cup {NoLock}]
      /\ priority \in [Threads -> Nat] /\ priority' \in [Threads -> Nat]
  <2>1. DonationTyped'
    BY DonationTypedPreserved
  <2> QED  BY <2>1, PrioritiesAssumption DEF LockInv, Typed, DonationTyped
<1>1. CASE UNCHANGED vars
  BY <1>1 DEF vars, Queues, Runnable
<1>2. CASE IdleBlocks
  <2>1. OthersStay(NoThread) /\ Schedule(ready_list) /\ cur = NoThread /\ UNCHANGED waiters
    BY <1>2 DEF IdleBlocks, OthersStay
  <2> QED  BY <2>1, CurLeaves DEF Queues
<1>3. ASSUME NEW t \in Threads, Step(t)
      PROVE  Queues'
  <2>1. CASE \/ LockAcquire(t) \/ MarkWaiting(t) \/ DonateTest(t) \/ DonateStore(t)
             \/ FetchHolder(t) \/ DonateNext(t) \/ DonateAstray(t) \/ SemaDown(t)
             \/ GetLock(t) \/ LockRelease(t)
    <3>1. /\ cur = t /\ UNCHANGED <<cur, ready_list, waiters, priority>>
          /\ want' = want \/ \E l : want' = [want EXCEPT ![t] = l]
      BY <2>1 DEF LockAcquire, MarkWaiting, DonateTest, DonateStore, FetchHolder, DonateNext,
                  DonateAstray, SemaDown, GetLock, LockRelease, At
    <3>2. \/ \E point \in Calling \cup {"run"} : pc' = [pc EXCEPT ![t] = point]
          \/ pc' = pc /\ pc[t] \in Calling
      BY <2>1 DEF LockAcquire, MarkWaiting, DonateTest, DonateStore, FetchHolder, DonateNext,
                  DonateAstray, SemaDown, GetLock, LockRelease, Goto, Calling, Donating
    <3>3. OthersStay(t) /\ pc'[t] \notin {"unborn", "sleep", "dead"}
      BY <1>0, <3>1, <3>2 DEF OthersStay, Calling, Donating
    <3> QED  BY <3>1, <3>3, CurMoves
  <2>2. CASE RemoveLock(t)
    <3>1. /\ cur = t /\ UNCHANGED <<cur, ready_list, waiters, want>>
          /\ pc' = [pc EXCEPT ![t] = "up"]
          /\ \E p : priority' = [priority EXCEPT ![t] = p]
      BY <2>2 DEF RemoveLock, At, Goto
    <3>2. OthersStay(t) /\ pc'[t] \notin {"unborn", "sleep", "dead"}
      BY <1>0, <3>1 DEF OthersStay
    <3> QED  BY <3>1, <3>2, CurMoves
  <2>3. CASE DonatePri(t)
    BY <1>0, <2>3, DonateQueues
  <2>4. CASE SemaBlock(t)
    BY <2>4, BlockPreserves
  <2>5. CASE SemaUp(t)
    BY <2>5, UpQueues
  <2>6. CASE ThreadCreate(t)
    <3>1. PICK u \in Threads, p \in Priorities :
            /\ pc[u] = "unborn" /\ pc' = [pc EXCEPT ![u] = "run"]
            /\ priority' = [priority EXCEPT ![u] = p]
            /\ LET list == InsertOrdered(ready_list, u, priority') IN
               IF priority[t] < p THEN Yield(t, list, priority')
               ELSE cur' = cur /\ ready_list' = list
      BY <2>6 DEF ThreadCreate, Goto
    <3>2. cur = t /\ pc[t] = "run" /\ UNCHANGED <<waiters, want>>
      BY <2>6 DEF ThreadCreate, At
    <3> DEFINE list == InsertOrdered(ready_list, u, priority')
    <3>3. ~Runnable(u) /\ OthersStay(u) /\ u # t /\ pc'[u] = "run"
      BY <1>0, <3>1, <3>2 DEF Queues, OthersStay
    <3>4. /\ list \in Seq(Threads) /\ Distinct(list)
          /\ ToSet(list) = ToSet(ready_list) \cup {u}
          /\ cur \notin ToSet(list)
          /\ Descending(list, priority')
      BY <1>0, <3>3, BecomesReady
    <3>5. \/ Yield(t, list, priority')
          \/ cur' = cur /\ ready_list' = list
      BY <3>1
    <3> HIDE DEF list
    <3>6. /\ cur' \in Threads \cup {NoThread} /\ ready_list' \in Seq(Threads)
          /\ Distinct(ready_list') /\ cur' \notin ToSet(ready_list')
          /\ \A v \in Threads : Runnable(v)' <=> Runnable(v) \/ v = u
          /\ Descending(ready_list', priority')
      <4>1. CASE Yield(t, list, priority')
        <5>1. /\ cur' \in Threads \cup {NoThread} /\ ready_list' \in Seq(Threads)
              /\ Distinct(ready_list') /\ cur' \notin ToSet(ready_list')
              /\ \A v \in Threads : v \in ToSet(list) \cup {t}
                                      <=> v = cur' \/ v \in ToSet(ready_list')
              /\ Descending(ready_list', priority')
          BY <1>0, <3>2, <3>4, <4>1, Yielded
        <5> QED  BY <3>2, <3>4, <5>1 DEF Runnable
      <4>2. CASE cur' = cur /\ ready_list' = list
        BY <3>4, <4>2 DEF Queues, Runnable
      <4> QED  BY <3>5, <4>1, <4>2
    <3>7. \A v \in Threads : Runnable(v)' => pc'[v] \notin {"unborn", "sleep", "dead"}
      BY <3>3, <3>6 DEF Queues, OthersStay
    <3>8. \A l \in Locks : \A v \in ToSet(waiters[l]) : v \in Threads /\ v # u
      BY <3>1, Members DEF Queues
    <3>9. \A l \in Locks : \A v \in ToSet(waiters[l]) :
             pc'[v] = "blocked" /\ want'[v] = l /\ ~Runnable(v)'
      BY <3>3, <3>6, <3>8 DEF Queues, OthersStay
    <3> QED  BY <3>2, <3>6, <3>7, <3>9 DEF Queues
  <2>7. CASE ThreadExit(t) \/ TimerSleep(t)
    <3>1. /\ cur = t /\ UNCHANGED <<want, waiters>> /\ Schedule(ready_list)
          /\ \E point : pc' = [pc EXCEPT ![t] = point]
          /\ priority' = priority \/ \E p : priority' = [priority EXCEPT ![t] = p]
      BY <2>7 DEF ThreadExit, TimerSleep, At, Goto
    <3>2. OthersStay(t)
      BY <1>0, <3>1 DEF OthersStay
    <3> QED  BY <3>1, <3>2, CurLeaves DEF Queues
  <2>8. CASE SetPriority(t)
    <3>1. PICK new \in NewPriorities :
            \/ priority' = [priority EXCEPT ![t] = new] /\ Yield(t, ready_list, priority')
            \/ UNCHANGED <<priority, cur, ready_list>>
      BY <2>8 DEF SetPriority
    <3>2. cur = t /\ pc[t] = "run" /\ UNCHANGED <<pc, want, waiters>>
      BY <2>8 DEF SetPriority, At
    <3>3. OthersStay(t) /\ pc'[t] \notin {"unborn", "sleep", "dead"}
      BY <1>0, <3>1, <3>2 DEF OthersStay
    <3> QED  BY <1>0, <3>1, <3>2, <3>3, CurYields, CurMoves
  <2>9. CASE Wake(t)
    <3> DEFINE list == InsertOrdered(ready_list, t, priority')
    <3>1. /\ pc[t] = "sleep" /\ pc' = [pc EXCEPT ![t] = "run"]
          /\ ready_list' = list
          /\ UNCHANGED <<cur, priority, want, waiters>>
      BY <2>9 DEF Wake, Goto
    <3>2. ~Runnable(t) /\ OthersStay(t) /\ pc'[t] = "run"
      BY <1>0, <3>1 DEF Queues, OthersStay
    <3>3. /\ list \in Seq(Threads) /\ Distinct(list)
          /\ ToSet(list) = ToSet(ready_list) \cup {t}
          /\ cur \notin ToSet(list)
          /\ Descending(list, priority')
      BY <1>0, <3>2, BecomesReady
    <3> HIDE DEF list
    <3>4. \A v \in Threads : Runnable(v)' <=> Runnable(v) \/ v = t
      BY <3>1, <3>3 DEF Runnable
    <3>5. \A v \in Threads : Runnable(v)' => pc'[v] \notin {"unborn", "sleep", "dead"}
      BY <3>2, <3>4 DEF Queues, OthersStay
    <3>6. \A l \in Locks : \A v \in ToSet(waiters[l]) : v \in Threads /\ v # t
      BY <3>1, Members DEF Queues
    <3>7. \A l \in Locks : \A v \in ToSet(waiters[l]) :
             pc'[v] = "blocked" /\ want'[v] = l /\ ~Runnable(v)'
      BY <3>2, <3>4, <3>6 DEF Queues, OthersStay
    <3> QED  BY <3>1, <3>3, <3>5, <3>7 DEF Queues
  <2>10. CASE Preempt(t)
    <3>1. /\ cur = t /\ UNCHANGED <<priority, pc, want, waiters>>
          /\ Yield(t, ready_list, priority')
      BY <2>10 DEF Preempt
    <3>2. OthersStay(t) /\ pc'[t] \notin {"unborn", "sleep", "dead"}
      BY <3>1 DEF OthersStay, Queues, Runnable
    <3> QED  BY <1>0, <3>1, <3>2, CurYields
  <2> QED  BY <1>3, <2>1, <2>2, <2>3, <2>4, <2>5, <2>6, <2>7, <2>8, <2>9, <2>10 DEF Step
<1> QED  BY <1>1, <1>2, <1>3 DEF Next

(* Wake-ups: the waiter that sema_up takes off the list stays on its way    *)
(* until it finds the semaphore up, and only then does the value go down.   *)
LEMMA WakeupsKept ==
    ASSUME PlacesInv, NoLostWakeup, [Next]_vars
    PROVE  NoLostWakeup'
<1> USE DEF threadVars, lockVars, localVars, PlacesInv
<1>0. /\ pc \in [Threads -> Points] /\ want \in [Threads -> Locks \cup {NoLock}]
      /\ value \in [Locks -> {0, 1}] /\ waiters \in [Locks -> Seq(Threads)]
  BY DEF LockInv, Typed, Queues
<1> SUFFICES ASSUME NEW l \in Locks, value'[l] = 1, waiters'[l] # <<>>
             PROVE  \E u \in Threads : /\ pc'[u] = "blocked" /\ want'[u] = l
                                       /\ ~Contains(waiters'[l], u)
  BY DEF NoLostWakeup
<1> DEFINE Coming(u) == pc[u] = "blocked" /\ want[u] = l /\ ~Contains(waiters[l], u)
<1>1. ASSUME value[l] = 1, waiters[l] # <<>>, waiters'[l] = waiters[l],
             \A u \in Threads : pc[u] = "blocked" /\ want[u] = l
                                  => pc'[u] = "blocked" /\ want'[u] = l
      PROVE  \E u \in Threads : /\ pc'[u] = "blocked" /\ want'[u] = l
                                /\ ~Contains(waiters'[l], u)
  <2>1. PICK u \in Threads : Coming(u)
    BY <1>1 DEF NoLostWakeup
  <2> QED  BY <1>1, <2>1
<1>2. CASE UNCHANGED vars \/ IdleBlocks
  <2>1. UNCHANGED <<pc, want, value, waiters>>
    BY <1>2 DEF vars, IdleBlocks
  <2> QED  BY <1>1, <2>1
<1>3. ASSUME NEW t \in Threads, Step(t)
      PROVE  \E u \in Threads : /\ pc'[u] = "blocked" /\ want'[u] = l
                                /\ ~Contains(waiters'[l], u)
  <2>1. CASE \/ LockAcquire(t) \/ MarkWaiting(t) \/ DonateTest(t) \/ DonateStore(t)
             \/ FetchHolder(t) \/ DonatePri(t) \/ DonateNext(t) \/ DonateAstray(t)
             \/ GetLock(t) \/ LockRelease(t) \/ RemoveLock(t)
             \/ ThreadExit(t) \/ SetPriority(t) \/ TimerSleep(t) \/ Wake(t) \/ Preempt(t)
    <3>1. /\ UNCHANGED <<value, waiters>>
          /\ pc' = pc \/ (pc[t] # "blocked" /\ \E p : pc' = [pc EXCEPT ![t] = p])
          /\ want' = want \/ (pc[t] # "blocked" /\ \E m : want' = [want EXCEPT ![t] = m])
      BY <2>1 DEF LockAcquire, MarkWaiting, DonateTest, DonateStore, FetchHolder, DonatePri,
                  DonateNext, DonateAstray, GetLock, LockRelease, RemoveLock, ThreadExit,
                  SetPriority, TimerSleep, Wake, Preempt, At, Goto
    <3>2. \A u \in Threads : pc[u] = "blocked" => pc'[u] = pc[u] /\ want'[u] = want[u]
      BY <1>0, <3>1
    <3> QED  BY <1>1, <3>1, <3>2
  <2>2. CASE ThreadCreate(t)
    <3>1. PICK v \in Threads : pc[v] = "unborn" /\ pc' = [pc EXCEPT ![v] = "run"]
      BY <2>2 DEF ThreadCreate, Goto
    <3>2. UNCHANGED <<value, waiters, want>>
      BY <2>2 DEF ThreadCreate
    <3>3. \A u \in Threads : pc[u] = "blocked" => pc'[u] = pc[u]
      BY <1>0, <3>1
    <3> QED  BY <1>1, <3>2, <3>3
  <2>3. CASE SemaDown(t)
    <3>1. /\ want[t] \in Locks /\ value[want[t]] = 1
          /\ value' = [value EXCEPT ![want[t]] = value[want[t]] - 1]
          /\ pc' = [pc EXCEPT ![t] = "took"] /\ UNCHANGED <<want, waiters>>
      BY <1>0, <2>3 DEF SemaDown, Goto, LockInv, CallHasLock, Calling
    <3>2. want[t] # l
      BY <1>0, <3>1
    <3>3. \A u \in Threads : pc[u] = "blocked" /\ want[u] = l => pc'[u] = "blocked"
      BY <1>0, <3>1, <3>2
    <3> QED  BY <1>0, <1>1, <3>1, <3>2, <3>3
  <2>4. CASE SemaBlock(t)
    <3>1. /\ value[want[t]] = 0 /\ UNCHANGED <<value, want>>
          /\ \E s : waiters' = [waiters EXCEPT ![want[t]] = s]
          /\ pc' = [pc EXCEPT ![t] = "blocked"]
      BY <2>4 DEF SemaBlock, Goto
    <3>2. want[t] # l /\ waiters'[l] = waiters[l]
      BY <1>0, <3>1
    <3>3. \A u \in Threads : pc[u] = "blocked" => pc'[u] = "blocked"
      BY <1>0, <3>1
    <3> QED  BY <1>1, <3>1, <3>2, <3>3
  <2>5. CASE SemaUp(t)
    <3>1. /\ cur = t /\ pc[t] = "up" /\ want[t] \in Locks
          /\ pc' = [pc EXCEPT ![t] = "run"] /\ want' = [want EXCEPT ![t] = NoLock]
          /\ value' = [value EXCEPT ![want[t]] = value[want[t]] + 1]
          /\ LET sorted == Sorted(waiters[want[t]])
             IN  waiters' = IF sorted = <<>> THEN waiters
                            ELSE [waiters EXCEPT ![want[t]] = Tail(sorted)]
      <4>1. cur = t /\ pc[t] = "up"
        BY <2>5 DEF SemaUp, At
      <4>2. want[t] \in Locks
        BY <4>1 DEF LockInv, CallHasLock, Calling
      <4>3. /\ pc' = [pc EXCEPT ![t] = "run"] /\ want' = [want EXCEPT ![t] = NoLock]
            /\ value' = [value EXCEPT ![want[t]] = value[want[t]] + 1]
        BY <2>5 DEF SemaUp, Goto
      <4>4. LET sorted == Sorted(waiters[want[t]])
            IN  waiters' = IF sorted = <<>> THEN waiters
                           ELSE [waiters EXCEPT ![want[t]] = Tail(sorted)]
        BY <2>5 DEF SemaUp
      <4> QED  BY <4>1, <4>2, <4>3, <4>4
    <3>2. \A u \in Threads : pc[u] = "blocked" => pc'[u] = "blocked" /\ want'[u] = want[u]
      BY <1>0, <3>1
    <3>3. CASE want[t] # l
      <4>1. waiters'[l] = waiters[l] /\ value'[l] = value[l]
        BY <1>0, <3>1, <3>3
      <4> QED  BY <1>1, <3>2, <4>1
    <3>4. CASE want[t] = l
      <4> DEFINE sorted == Sorted(waiters[l])
                 w == Head(sorted)
      <4>1. sorted # <<>>
        <5> SUFFICES ASSUME sorted = <<>> PROVE FALSE
          OBVIOUS
        <5>1. waiters'[l] = waiters[l]
          BY <3>1, <3>4
        <5>2. Len(sorted) = Len(waiters[l])
          BY <1>0, SortedList, PrioritiesAssumption DEF DonationTyped
        <5>3. waiters[l] = <<>>
          BY <1>0, <5>2, EmptySeq
        <5> QED  BY <5>1, <5>3
      <4>2. waiters'[l] = Tail(sorted)
        BY <1>0, <3>1, <3>4, <4>1
      <4>3. /\ w \in ToSet(waiters[l]) /\ Tail(sorted) \in Seq(Threads)
            /\ ToSet(Tail(sorted)) = ToSet(waiters[l]) \ {w}
        BY <4>1, SortedHead
      <4> HIDE DEF w, sorted
      <4>4. w \in Threads /\ pc[w] = "blocked" /\ want[w] = l
        BY <1>0, <4>3, Members DEF Queues
      <4>5. ~Contains(waiters'[l], w)
        <5>1. w \notin ToSet(Tail(sorted))
          BY <4>3
        <5> QED  BY <4>2, <4>3, <5>1, Members DEF Contains
      <4> QED  BY <3>2, <4>4, <4>5
    <3> QED  BY <3>3, <3>4
  <2> QED  BY <1>3, <2>1, <2>2, <2>3, <2>4, <2>5 DEF Step
<1> QED  BY <1>2, <1>3 DEF Next

(* The initial state: the main thread runs and every list is empty. *)
LEMMA InitPlaces == Init => PlacesInv /\ NoLostWakeup
<1> SUFFICES ASSUME Init PROVE PlacesInv /\ NoLostWakeup
  OBVIOUS
<1> USE MainAssumption, PrioritiesAssumption, NoThreadAssumption, DisturbancesAssumption
<1>1. LockInv
  BY InitInv DEF Inv
<1>2. DonationTyped
  BY FS_EmptySet DEF Init, DonationTyped, LoopHasLock
<1>3. Queues
  <2>1. ToSet(<<>>) = {} /\ <<>> \in Seq(Threads) /\ Distinct(<<>>)
    BY DEF ToSet, Distinct
  <2> QED  BY <2>1 DEF Init, Queues, Runnable, Descending
<1>4. NoLostWakeup
  BY DEF Init, NoLostWakeup
<1> QED  BY <1>1, <1>2, <1>3, <1>4 DEF PlacesInv

-----------------------------------------------------------------------------
(* Where threads are, and that no wake-up is lost, in every reachable state. *)
THEOREM PlacesHold == Spec => [](PlacesInv /\ NoLostWakeup)
<1>1. PlacesInv /\ NoLostWakeup /\ [Next]_vars => (PlacesInv /\ NoLostWakeup)'
  BY LocksPreserved, DonationTypedPreserved, QueuesPreserved, WakeupsKept DEF PlacesInv
<1> QED  BY InitPlaces, <1>1, PTL DEF Spec

(* The variables have their types: priorities computed from donations are *)
(* priorities, and the lists hold threads.                                *)
THEOREM TypesHold == Spec => []TypeOK
<1>1. PlacesInv => TypeOK
  <2>1. Priorities \cup {0} \subseteq Nat
    BY PrioritiesAssumption
  <2> QED  BY <2>1 DEF PlacesInv, LockInv, Typed, DonationTyped, Queues, TypeOK
<1> QED  BY PlacesHold, <1>1, PTL

(* Whatever donations do to the priorities of ready threads, the ready list *)
(* is in order.                                                             *)
THEOREM ReadyIsSorted == Spec => []ReadySorted
<1>1. PlacesInv => ReadySorted
  BY DEF PlacesInv, Queues, Descending, ReadySorted
<1> QED  BY PlacesHold, <1>1, PTL

(* A semaphore that is up has a woken thread on its way if any thread waits. *)
THEOREM WakeupsArrive == Spec => []NoLostWakeup
BY PlacesHold, PTL

(* lock_release wakes a waiter of the highest priority. *)
THEOREM HighestIsWoken == Spec => WakesHighest
<1>1. ASSUME PlacesInv, [Next]_vars,
             NEW l \in Locks, Len(waiters'[l]) < Len(waiters[l])
      PROVE  \E t \in ToSet(waiters[l]) \ ToSet(waiters'[l]) :
                \A u \in ToSet(waiters[l]) : priority[t] >= priority[u]
  <2> USE DEF threadVars, lockVars, localVars
  <2>0. waiters \in [Locks -> Seq(Threads)] /\ Len(waiters[l]) \in Nat
    BY <1>1 DEF PlacesInv, Queues
  <2>1. waiters'[l] # waiters[l]
    BY <1>1, <2>0
  <2>2. PICK t \in Threads : Step(t)
    BY <1>1, <2>1 DEF Next, IdleBlocks, vars
  <2>3. ~SemaBlock(t)
    <3> SUFFICES ASSUME SemaBlock(t) PROVE FALSE
      OBVIOUS
    <3>1. waiters' = [waiters EXCEPT ![want[t]] = InsertOrdered(waiters[want[t]], t, priority)]
      BY DEF SemaBlock
    <3>2. waiters'[l] = InsertOrdered(waiters[l], t, priority)
      BY <2>0, <2>1, <3>1
    <3>3. Len(waiters'[l]) = Len(waiters[l]) + 1
      <4>1. waiters[l] \in Seq(Threads) /\ priority \in [Threads -> Nat]
        BY <1>1, <2>0, PrioritiesAssumption DEF PlacesInv, DonationTyped
      <4>2. Len(InsertOrdered(waiters[l], t, priority)) = Len(waiters[l]) + 1
        BY <4>1, Inserted
      <4> QED  BY <3>2, <4>2
    <3> QED  BY <1>1, <2>0, <3>3
  <2>4. SemaUp(t)
    BY <2>1, <2>2, <2>3 DEF Step, LockAcquire, MarkWaiting, DonateTest, DonateStore,
         FetchHolder, DonatePri, DonateNext, DonateAstray, SemaDown, GetLock, LockRelease,
         RemoveLock, ThreadCreate, ThreadExit, SetPriority, TimerSleep, Wake, Preempt
  <2>5. LET sorted == Sorted(waiters[want[t]])
        IN  waiters' = IF sorted = <<>> THEN waiters
                       ELSE [waiters EXCEPT ![want[t]] = Tail(sorted)]
    BY <2>4 DEF SemaUp
  <2>6. want[t] = l /\ Sorted(waiters[l]) # <<>> /\ waiters'[l] = Tail(Sorted(waiters[l]))
    BY <2>0, <2>1, <2>5
  <2> DEFINE w == Head(Sorted(waiters[l]))
  <2>7. /\ w \in ToSet(waiters[l]) /\ w \notin ToSet(waiters'[l])
        /\ \A u \in ToSet(waiters[l]) : priority[w] >= priority[u]
    BY <1>1, <2>6, SortedHead
  <2> QED  BY <2>7
<1>2. PlacesInv /\ [Next]_vars =>
        [\A l \in Locks : Len(waiters'[l]) < Len(waiters[l]) =>
            \E t \in ToSet(waiters[l]) \ ToSet(waiters'[l]) :
                \A u \in ToSet(waiters[l]) : priority[t] >= priority[u]]_vars
  BY <1>1
<1> QED  BY PlacesHold, <1>2, PTL DEF Spec, WakesHighest

(* The link fields of struct thread: a thread is on at most one list, once, *)
(* and not while it runs.                                                   *)
THEOREM ThreadInOnePlace == Spec => []OnePlace
<1>1. PlacesInv => OnePlace
  <2> SUFFICES ASSUME PlacesInv, NEW t \in Threads
               PROVE  Cardinality(Places(t)) <= 1
    BY DEF OnePlace
  <2>1. \A p \in ReadyPlaces(t) : t \in ToSet(ready_list)
    BY DEF ReadyPlaces, ToSet
  <2>2. \A p, q \in ReadyPlaces(t) : p = q
    BY DEF ReadyPlaces, PlacesInv, Queues, Distinct
  <2>3. \A p \in WaitPlaces(t) : \E l \in Locks : t \in ToSet(waiters[l])
    BY DEF WaitPlaces, ToSet
  <2>4. \A p, q \in WaitPlaces(t) : p = q
    <3> SUFFICES ASSUME NEW l \in Locks, NEW m \in Locks,
                        NEW i \in DOMAIN waiters[l], waiters[l][i] = t,
                        NEW j \in DOMAIN waiters[m], waiters[m][j] = t
                 PROVE  <<l, i>> = <<m, j>>
      BY DEF WaitPlaces
    <3>1. t \in ToSet(waiters[l]) /\ t \in ToSet(waiters[m])
      BY DEF ToSet
    <3>2. l = m
      BY <3>1 DEF PlacesInv, Queues
    <3>3. i = j
      BY <3>2 DEF PlacesInv, Queues, Distinct
    <3> QED  BY <3>2, <3>3
  <2>5. t = cur => ReadyPlaces(t) = {} /\ WaitPlaces(t) = {}
    <3>1. t = cur => t \notin ToSet(ready_list) /\ \A l \in Locks : t \notin ToSet(waiters[l])
      BY DEF PlacesInv, Queues, Runnable
    <3> QED  BY <2>1, <2>3, <3>1
  <2>6. ReadyPlaces(t) = {} \/ WaitPlaces(t) = {}
    <3>1. \A l \in Locks : t \in ToSet(waiters[l]) => t \notin ToSet(ready_list)
      BY DEF PlacesInv, Queues, Runnable
    <3> QED  BY <2>1, <2>3, <3>1
  <2> DEFINE places == Places(t)
  <2>7. \A p, q \in places : p = q
    BY <2>2, <2>4, <2>5, <2>6 DEF Places
  <2> HIDE DEF places
  <2>8. Cardinality(places) <= 1
    <3>1. CASE places = {}
      BY <3>1, FS_EmptySet
    <3>2. CASE places # {}
      <4>1. PICK p : p \in places
        BY <3>2
      <4>2. places = {p}
        BY <2>7, <4>1
      <4>3. Cardinality({p}) = 1
        BY FS_Singleton
      <4> QED  BY <4>2, <4>3
    <3> QED  BY <3>1, <3>2
  <2> QED  BY <2>8 DEF places
<1> QED  BY PlacesHold, <1>1, PTL

-----------------------------------------------------------------------------
(* Donation: no priority inversion. *)

(* The running thread is at one of the points. *)
In(points) == cur \in Threads /\ pc[cur] \in points

Loop == {"test", "store", "fetch", "donate", "follow", "next"}

(* Nobody is preempted inside the lock code, so at most the running thread is *)
(* at a point of it; who has blocked in sema_down is elsewhere.               *)
Alone == \A t \in Threads : pc[t] \in Calling \ {"blocked"} => t = cur

(* Where the donation loop is: on a lock that has a holder, with what was *)
(* read of it still true.                                                 *)
Chained ==
    /\ In({"mark"} \cup Loop) => holder[want[cur]] # NoThread
    /\ In(Loop) => waiting_lock[cur] = want[cur]
    /\ In(Loop) /\ lk[cur] # NoLock => holder[lk[cur]] # NoThread
    /\ In({"next"}) => lk[cur] \in Locks
    /\ In({"store"}) => loaded[cur] = priority[cur] /\ priority[cur] > max_pri[lk[cur]]
    /\ In({"fetch", "donate"}) => max_pri[lk[cur]] = priority[cur]
    /\ In({"donate", "next"}) => fetched[cur] = holder[lk[cur]]

(* The thread in lock_acquire has offered its priority to the lock it wants, *)
(* from the store of the first round on.                                     *)
Offered ==
    /\ In({"test", "store"}) => lk[cur] = want[cur] \/ priority[cur] <= max_pri[want[cur]]
    /\ In({"fetch", "donate", "follow", "next"}) => priority[cur] <= max_pri[want[cur]]
    /\ In({"down"}) /\ holder[want[cur]] # NoThread =>
          waiting_lock[cur] = want[cur] /\ priority[cur] <= max_pri[want[cur]]

(* waiting_lock is the lock a blocked thread waits for: the chain is there. *)
Marked == \A t \in Threads : pc[t] = "blocked" => waiting_lock[t] = want[t]

(* A thread has what is offered for its locks, but for the one whose holder *)
(* the loop is about to raise, and it has no more than that.                *)
Pending(l) == In({"fetch", "donate"}) /\ lk[cur] = l
Raised ==
    \A t \in Threads :
        /\ original_pri[t] <= priority[t]
        /\ \A l \in holding_locks[t] : max_pri[l] <= priority[t] \/ Pending(l)
Lowered ==
    \A t \in Threads :
        priority[t] = original_pri[t] \/ \E l \in holding_locks[t] : priority[t] <= max_pri[l]

(* A blocked thread has offered its priority to the lock it waits for, or the *)
(* loop has just raised it and is on its way to that lock.                    *)
Reaching(t, l) ==
    /\ \/ In({"follow", "next"}) /\ holder[lk[cur]] = t
       \/ In({"test", "store"}) /\ lk[cur] = l
    /\ priority[t] <= priority[cur]
Backed ==
    \A t \in Threads : pc[t] = "blocked" /\ holder[want[t]] # NoThread =>
        priority[t] <= max_pri[want[t]] \/ Reaching(t, want[t])

(* While a lock is free, the thread woken for it is on its way and outranks   *)
(* those that still wait, but for one that the loop has just raised.          *)
Raising(w) == In({"follow", "next"}) /\ holder[lk[cur]] = w
Woken ==
    \A l \in Locks : value[l] = 1 /\ waiters[l] # <<>> =>
        \E u \in Threads :
            /\ pc[u] = "blocked" /\ want[u] = l /\ Runnable(u)
            /\ \A w \in ToSet(waiters[l]) : priority[w] <= priority[u] \/ Raising(w)

(* A woken thread that is not running has no higher priority than the one   *)
(* that is, up to the yield of sema_up; so whoever takes a free lock has at *)
(* least the priority of all who want it.                                   *)
Outranks ==
    \A u \in ToSet(ready_list) : pc[u] = "blocked" =>
        In({"up"}) \/ (cur \in Threads /\ priority[u] <= priority[cur])
Took ==
    In({"took"}) => \A t \in Threads :
        pc[t] = "blocked" /\ want[t] = want[cur] => priority[t] <= priority[cur]

Donation ==
    /\ Alone /\ Chained /\ Offered /\ Marked /\ Raised /\ Lowered
    /\ Backed /\ Woken /\ Outranks /\ Took

(* A thread in sema_down waits or has been woken. *)
Placed ==
    \A t \in Threads : pc[t] = "blocked" => t \in ToSet(waiters[want[t]]) \/ Runnable(t)

(* A thread that has not been created holds nothing. *)
UnbornHoldNothing == \A t \in Threads : pc[t] = "unborn" => holding_locks[t] = {}

DonationInv == Placed /\ UnbornHoldNothing /\ (disturbed = 0 => Donation)

(* The types the argument about donation uses, priorities as numbers. *)
DonationTypes ==
    /\ cur \in Threads \cup {NoThread} /\ NoThread \notin Threads /\ NoLock \notin Locks
    /\ pc \in [Threads -> Points] /\ want \in [Threads -> Locks \cup {NoLock}]
    /\ priority \in [Threads -> Nat] /\ original_pri \in [Threads -> Nat]
    /\ max_pri \in [Locks -> Nat] /\ value \in [Locks -> {0, 1}]
    /\ holding_locks \in [Threads -> SUBSET Locks]
    /\ holder \in [Locks -> Threads \cup {NoThread}]
    /\ waiting_lock \in [Threads -> Locks \cup {NoLock}]
    /\ lk \in [Threads -> Locks \cup {NoLock}]
    /\ fetched \in [Threads -> Threads \cup {NoThread}]
    /\ loaded \in [Threads -> Nat]
    /\ ready_list \in Seq(Threads) /\ Distinct(ready_list) /\ Descending(ready_list, priority)
    /\ cur \notin ToSet(ready_list)
    /\ waiters \in [Locks -> Seq(Threads)]
    /\ disturbed \in Nat

(* They follow from the invariant about places. *)
LEMMA DonationTypesHold == PlacesInv => DonationTypes
<1>1. Priorities \subseteq Nat /\ Priorities \cup {0} \subseteq Nat
  BY PrioritiesAssumption
<1>2. 0 .. MaxDisturbances \subseteq Nat
  BY DisturbancesAssumption
<1> QED  BY <1>1, <1>2, NoThreadAssumption, NoLockAssumption
         DEF DonationTypes, PlacesInv, LockInv, Typed, DonationTyped, Queues

(* next_thread_to_run picks a thread of the highest priority. *)
LEMMA HeadLeads ==
    ASSUME NEW list \in Seq(Threads), NEW pri \in [Threads -> Nat], Descending(list, pri),
           Schedule(list), NEW u \in ToSet(ready_list')
    PROVE  cur' \in Threads /\ pri[u] <= pri[cur']
<1>1. list # <<>>
  BY DEF Schedule, ToSet
<1>2. cur' = Head(list) /\ ready_list' = Tail(list)
  BY <1>1 DEF Schedule
<1> DEFINE n == Len(list)
<1>3. /\ n \in Nat \ {0} /\ DOMAIN list = 1 .. n /\ Head(list) = list[1]
      /\ \A i \in 1 .. n : list[i] \in Threads /\ pri[list[i]] \in Nat
  BY <1>1, EmptySeq, LenProperties
<1>4. /\ Tail(list) \in Seq(Threads) /\ Len(Tail(list)) = n - 1
      /\ \A i \in 1 .. Len(Tail(list)) : Tail(list)[i] = list[i + 1]
  BY <1>1, HeadTailProperties
<1>5. PICK i \in 1 .. n - 1 : list[i + 1] = u
  <2>1. \E i \in 1 .. Len(Tail(list)) : Tail(list)[i] = u
    BY <1>2, <1>4, Members
  <2> QED  BY <1>4, <2>1
<1>6. 1 \in 1 .. n /\ i + 1 \in 1 .. n /\ 1 < i + 1
  BY <1>3
<1>7. pri[list[1]] >= pri[list[i + 1]]
  BY <1>3, <1>6 DEF Descending
<1> QED  BY <1>2, <1>3, <1>5, <1>6, <1>7

(* thread_yield over a list in order leaves the processor to a thread of the *)
(* highest priority.                                                         *)
LEMMA YieldLeads ==
    ASSUME NEW list \in Seq(Threads), NEW pri \in [Threads -> Nat], Descending(list, pri),
           NEW t \in Threads, Yield(t, list, pri), NEW u \in ToSet(ready_list')
    PROVE  cur' \in Threads /\ pri[u] <= pri[cur']
<1> DEFINE new == InsertOrdered(list, t, pri)
<1>1. new \in Seq(Threads) /\ Descending(new, pri) /\ Schedule(new)
  BY Inserted DEF Yield
<1> HIDE DEF new
<1> QED  BY <1>1, HeadLeads

(* Nobody is inside the lock code, blocked threads apart. *)
Quiet == \A t \in Threads : pc[t] \notin Calling \ {"blocked"}

(* A running thread outside the lock code, or none, means that nobody is in it. *)
LEMMA QuietOutside ==
    ASSUME PlacesInv, Alone,
           cur = NoThread \/ (cur \in Threads /\ pc[cur] \notin Calling \ {"blocked"})
    PROVE  Quiet
BY NoThreadAssumption DEF Alone, Quiet

(* With nobody in the lock code nothing is under way. *)
LEMMA NothingUnderWay ==
    Quiet => /\ Alone /\ Chained /\ Offered /\ Took
             /\ \A S \in SUBSET (Calling \ {"blocked"}) : ~In(S)
             /\ \A l : ~Pending(l)
             /\ \A w : ~Raising(w)
             /\ \A t, l : ~Reaching(t, l)
<1> SUFFICES ASSUME Quiet
             PROVE  /\ Alone /\ Chained /\ Offered /\ Took
                    /\ \A S \in SUBSET (Calling \ {"blocked"}) : ~In(S)
                    /\ \A l : ~Pending(l)
                    /\ \A w : ~Raising(w)
                    /\ \A t, l : ~Reaching(t, l)
  OBVIOUS
<1>1. \A S \in SUBSET (Calling \ {"blocked"}) : ~In(S)
  BY DEF Quiet, In
<1>2. /\ ~In({"mark"} \cup Loop) /\ ~In(Loop) /\ ~In({"next"}) /\ ~In({"store"})
      /\ ~In({"fetch", "donate"})
      /\ ~In({"donate", "next"}) /\ ~In({"test", "store"})
      /\ ~In({"fetch", "donate", "follow", "next"}) /\ ~In({"down"}) /\ ~In({"follow", "next"})
      /\ ~In({"took"})
  BY DEF Quiet, In, Loop, Calling, Donating
<1>3. Alone
  BY DEF Quiet, Alone
<1> QED  BY <1>1, <1>2, <1>3 DEF Chained, Offered, Took, Pending, Raising, Reaching

(* Steps of threads outside the lock code: the blocked ones stay as they are. *)
BlockedStay ==
    \A u \in Threads :
        /\ pc'[u] = "blocked" <=> pc[u] = "blocked"
        /\ pc[u] = "blocked" => priority'[u] = priority[u] /\ (Runnable(u) => Runnable(u)')

(* Such steps preserve what donation promises, if the priorities they set and *)
(* the thread they run next do.                                               *)
LEMMA OutsidePreserves ==
    ASSUME PlacesInv, Donation, Quiet, Quiet', BlockedStay,
           UNCHANGED <<waiting_lock, holding_locks, lockVars, want>>,
           Raised', Lowered', Outranks'
    PROVE  Donation'
<1> USE DEF PlacesInv, lockVars
<1>1. Alone' /\ Chained' /\ Offered' /\ Took'
  BY NothingUnderWay, PTL
<1>2. Marked'
  BY DEF Donation, Marked, BlockedStay
<1>3. Backed'
  <2>1. \A t, l : ~Reaching(t, l)
    BY NothingUnderWay
  <2> QED  BY <2>1 DEF Donation, Backed, BlockedStay
<1>4. Woken'
  <2> SUFFICES ASSUME NEW l \in Locks, value[l] = 1, waiters[l] # <<>>
               PROVE  \E u \in Threads :
                         /\ pc'[u] = "blocked" /\ want'[u] = l /\ Runnable(u)'
                         /\ \A w \in ToSet(waiters[l]) : priority'[w] <= priority'[u] \/ Raising(w)'
    BY DEF Woken
  <2>1. \A w : ~Raising(w)
    BY NothingUnderWay
  <2>2. PICK u \in Threads :
            /\ pc[u] = "blocked" /\ want[u] = l /\ Runnable(u)
            /\ \A w \in ToSet(waiters[l]) : priority[w] <= priority[u]
    BY <2>1 DEF Donation, Woken
  <2>3. \A w \in ToSet(waiters[l]) : priority'[w] = priority[w]
    BY Members DEF Queues, BlockedStay
  <2> QED  BY <2>2, <2>3 DEF BlockedStay
<1> QED  BY <1>1, <1>2, <1>3, <1>4 DEF Donation

(* Raised and Lowered speak of priorities and locks only, while nothing is *)
(* under way.                                                              *)
LEMMA StillRaised ==
    ASSUME PlacesInv, Donation, Quiet,
           UNCHANGED <<priority, original_pri, holding_locks, max_pri>>
    PROVE  Raised' /\ Lowered'
<1>1. \A l : ~Pending(l)
  BY NothingUnderWay
<1>2. \A t \in Threads : /\ original_pri[t] <= priority[t]
                         /\ \A l \in holding_locks[t] : max_pri[l] <= priority[t]
  BY <1>1 DEF Donation, Raised
<1>3. Raised'
  BY <1>2 DEF Raised
<1>4. Lowered'
  BY DEF Donation, Lowered
<1> QED  BY <1>3, <1>4

(* The steps of threads outside the lock code that leave priorities alone. *)
LEMMA SchedulingPreserves ==
    ASSUME PlacesInv, Donation, Queues', NEW t \in Threads,
           IdleBlocks \/ (Preempt(t) /\ disturbed' = 0) \/ TimerSleep(t)
    PROVE  Donation'
<1> USE DEF PlacesInv, threadVars, lockVars, localVars
<1>0. /\ pc \in [Threads -> Points] /\ priority \in [Threads -> Nat]
      /\ ready_list \in Seq(Threads) /\ Descending(ready_list, priority)
      /\ disturbed \in Nat
  BY DonationTypesHold DEF DonationTypes
<1>1. UNCHANGED <<priority, original_pri, waiting_lock, holding_locks, lockVars, want>>
  BY DEF IdleBlocks, Preempt, TimerSleep
<1>2. \/ cur = NoThread /\ Schedule(ready_list) /\ pc' = pc
      \/ cur = t /\ pc[t] = "run" /\ Yield(t, ready_list, priority) /\ pc' = pc
      \/ cur = t /\ pc[t] = "run" /\ Schedule(ready_list) /\ pc' = [pc EXCEPT ![t] = "sleep"]
  BY <1>0 DEF IdleBlocks, Preempt, TimerSleep, At, Goto, Disturb
<1>3. Quiet
  BY <1>2, QuietOutside DEF Donation, Calling, Donating
<1>4. Quiet'
  BY <1>0, <1>2, <1>3 DEF Quiet, Calling, Donating
<1>5. \A u \in ToSet(ready_list') : cur' \in Threads /\ priority[u] <= priority[cur']
  BY <1>0, <1>2, HeadLeads, YieldLeads
<1>6. Outranks'
  BY <1>1, <1>5 DEF Outranks
<1>7. \A u \in Threads : Runnable(u) /\ pc[u] = "blocked" => Runnable(u)'
  <2>1. CASE Schedule(ready_list)
    <3>1. \A u \in Threads : u \in ToSet(ready_list) <=> u = cur' \/ u \in ToSet(ready_list')
      BY <2>1, Scheduled DEF Queues
    <3> QED  BY <1>2, <3>1, NoThreadAssumption DEF Runnable
  <2>2. CASE cur = t /\ Yield(t, ready_list, priority)
    <3>1. \A u \in Threads : u \in ToSet(ready_list) \cup {t}
                               <=> u = cur' \/ u \in ToSet(ready_list')
      BY <1>0, <2>2, Yielded DEF Queues
    <3> QED  BY <2>2, <3>1 DEF Runnable
  <2> QED  BY <1>2, <2>1, <2>2
<1>8. BlockedStay
  BY <1>0, <1>1, <1>2, <1>7 DEF BlockedStay
<1>9. Raised' /\ Lowered'
  BY <1>1, <1>3, StillRaised
<1> QED  BY <1>1, <1>3, <1>4, <1>6, <1>8, <1>9, OutsidePreserves

(* thread_exit: the priorities of a thread without locks end. *)
LEMMA ExitPreserves ==
    ASSUME PlacesInv, Donation, NEW t \in Threads, ThreadExit(t)
    PROVE  Donation'
<1> USE DEF PlacesInv, threadVars, lockVars, localVars
<1>0. /\ pc \in [Threads -> Points] /\ priority \in [Threads -> Nat]
      /\ original_pri \in [Threads -> Nat] /\ Default \in Nat
      /\ ready_list \in Seq(Threads) /\ Distinct(ready_list)
  BY DonationTypesHold, PrioritiesAssumption DEF DonationTypes
<1>1. /\ cur = t /\ pc[t] = "run" /\ pc' = [pc EXCEPT ![t] = "dead"]
      /\ holding_locks[t] = {}
      /\ priority' = [priority EXCEPT ![t] = Default]
      /\ original_pri' = [original_pri EXCEPT ![t] = Default]
      /\ Schedule(ready_list)
      /\ UNCHANGED <<waiting_lock, holding_locks, lockVars, want>>
  BY DEF ThreadExit, At, Goto
<1>2. Quiet
  BY <1>1, QuietOutside DEF Donation, Calling, Donating
<1>3. Quiet'
  BY <1>0, <1>1, <1>2 DEF Quiet, Calling, Donating
<1>4. OthersStay(t) /\ priority' \in [Threads -> Nat]
  BY <1>0, <1>1 DEF OthersStay
<1>5. t \notin ToSet(ready_list)
  BY <1>1 DEF Queues
<1>6. Descending(ready_list, priority')
  BY <1>4, <1>5, ReadyStaysSorted
<1>7. Outranks'
  BY <1>0, <1>1, <1>4, <1>6, HeadLeads DEF Outranks
<1>8. \A u \in Threads : u \in ToSet(ready_list) <=> u = cur' \/ u \in ToSet(ready_list')
  BY <1>0, <1>1, Scheduled
<1>9. BlockedStay
  BY <1>0, <1>1, <1>8 DEF BlockedStay, Runnable
<1>10. \A l : ~Pending(l)
  BY <1>2, NothingUnderWay
<1>11. Raised'
  <2> SUFFICES ASSUME NEW u \in Threads
               PROVE  /\ original_pri'[u] <= priority'[u]
                      /\ \A l \in holding_locks'[u] : max_pri'[l] <= priority'[u]
    BY DEF Raised
  <2>1. CASE u = t
    BY <1>0, <1>1, <2>1
  <2>2. CASE u # t
    BY <1>0, <1>1, <1>10, <2>2 DEF Donation, Raised
  <2> QED  BY <2>1, <2>2
<1>12. Lowered'
  BY <1>0, <1>1 DEF Donation, Lowered
<1> QED  BY <1>1, <1>2, <1>3, <1>7, <1>9, <1>11, <1>12, OutsidePreserves

(* thread_set_priority: a holder of locks does not go down. *)
LEMMA SetPreserves ==
    ASSUME PlacesInv, Donation, NEW t \in Threads, SetPriority(t), disturbed' = 0
    PROVE  Donation'
<1> USE DEF PlacesInv, threadVars, lockVars, localVars
<1>0. /\ pc \in [Threads -> Points] /\ priority \in [Threads -> Nat]
      /\ original_pri \in [Threads -> Nat] /\ NewPriorities \subseteq Nat
      /\ ready_list \in Seq(Threads) /\ Distinct(ready_list)
      /\ disturbed \in Nat
      /\ holding_locks \in [Threads -> SUBSET Locks] /\ max_pri \in [Locks -> Nat]
  <2>1. NewPriorities \subseteq Nat
    BY PrioritiesAssumption, NewPrioritiesAssumption
  <2> QED  BY <2>1, DonationTypesHold DEF DonationTypes
<1>1. PICK new \in NewPriorities :
        /\ original_pri' = [original_pri EXCEPT ![t] = new]
        /\ IF TakesEffect(t, new)
           THEN /\ priority' = [priority EXCEPT ![t] = new]
                /\ Yield(t, ready_list, priority')
                /\ IF holding_locks[t] = {} \/ new >= priority[t]
                   THEN UNCHANGED disturbed ELSE Disturb
           ELSE UNCHANGED <<priority, cur, ready_list>>
  BY DEF SetPriority
<1>2. /\ cur = t /\ pc[t] = "run"
      /\ UNCHANGED <<pc, waiting_lock, holding_locks, lockVars, want>>
  BY DEF SetPriority, At
<1>3. \/ /\ priority' = [priority EXCEPT ![t] = new]
         /\ Yield(t, ready_list, priority')
         /\ holding_locks[t] = {} \/ new >= priority[t]
      \/ /\ UNCHANGED <<priority, cur, ready_list>>
         /\ original_pri[t] # priority[t] /\ new <= priority[t]
  BY <1>0, <1>1 DEF TakesEffect, Disturb
<1>4. Quiet
  BY <1>2, QuietOutside DEF Donation, Calling, Donating
<1>5. Quiet'
  BY <1>2, <1>4 DEF Quiet
<1>6. OthersStay(t) /\ priority' \in [Threads -> Nat]
  BY <1>0, <1>2, <1>3 DEF OthersStay
<1>7. t \notin ToSet(ready_list)
  BY <1>2 DEF Queues
<1>8. Descending(ready_list, priority')
  BY <1>6, <1>7, ReadyStaysSorted
<1>9. Outranks'
  <2>1. CASE Yield(t, ready_list, priority')
    BY <1>0, <1>6, <1>8, <2>1, YieldLeads DEF Outranks
  <2>2. CASE UNCHANGED <<priority, cur, ready_list>>
    BY <1>2, <2>2 DEF Donation, Outranks, In
  <2> QED  BY <1>3, <2>1, <2>2
<1>10. \A u \in Threads : Runnable(u) => Runnable(u)'
  <2>1. CASE Yield(t, ready_list, priority')
    <3>1. \A u \in Threads : u \in ToSet(ready_list) \cup {t}
                               <=> u = cur' \/ u \in ToSet(ready_list')
      BY <1>0, <1>6, <1>7, <2>1, Yielded
    <3> QED  BY <1>2, <3>1 DEF Runnable
  <2>2. CASE UNCHANGED <<priority, cur, ready_list>>
    BY <2>2 DEF Runnable
  <2> QED  BY <1>3, <2>1, <2>2
<1>11. BlockedStay
  BY <1>2, <1>6, <1>10 DEF BlockedStay, OthersStay
<1>12. \A l : ~Pending(l)
  BY <1>4, NothingUnderWay
<1>13. Raised'
  <2> SUFFICES ASSUME NEW u \in Threads
               PROVE  /\ original_pri'[u] <= priority'[u]
                      /\ \A l \in holding_locks[u] : max_pri[l] <= priority'[u]
    BY <1>2 DEF Raised
  <2>1. /\ original_pri[u] <= priority[u]
        /\ \A l \in holding_locks[u] : max_pri[l] <= priority[u] /\ max_pri[l] \in Nat
    BY <1>0, <1>12 DEF Donation, Raised
  <2>2. CASE u = t
    BY <1>0, <1>1, <1>3, <2>1, <2>2
  <2>3. CASE u # t
    BY <1>0, <1>1, <1>3, <2>1, <2>3
  <2> QED  BY <2>2, <2>3
<1>14. Lowered'
  <2> SUFFICES ASSUME NEW u \in Threads
               PROVE  \/ priority'[u] = original_pri'[u]
                      \/ \E l \in holding_locks[u] : priority'[u] <= max_pri[l]
    BY <1>2 DEF Lowered
  <2>1. priority[u] = original_pri[u] \/ \E l \in holding_locks[u] : priority[u] <= max_pri[l]
    BY DEF Donation, Lowered
  <2>2. CASE u = t
    BY <1>0, <1>1, <1>3, <2>1, <2>2
  <2>3. CASE u # t
    BY <1>0, <1>1, <1>3, <2>1, <2>3
  <2> QED  BY <2>2, <2>3
<1> QED  BY <1>2, <1>4, <1>5, <1>9, <1>11, <1>13, <1>14, OutsidePreserves

(* thread_create: the new thread holds nothing and waits for nothing. *)
LEMMA CreatePreserves ==
    ASSUME PlacesInv, UnbornHoldNothing, Donation, NEW t \in Threads, ThreadCreate(t)
    PROVE  Donation'
<1> USE DEF PlacesInv, threadVars, lockVars, localVars
<1>0. DonationTypes
  BY DonationTypesHold
<1>1. PICK v \in Threads, p \in Priorities :
        /\ pc[v] = "unborn" /\ pc' = [pc EXCEPT ![v] = "run"]
        /\ priority' = [priority EXCEPT ![v] = p]
        /\ original_pri' = [original_pri EXCEPT ![v] = p]
        /\ LET list == InsertOrdered(ready_list, v, priority') IN
           IF priority[t] < p THEN Yield(t, list, priority')
           ELSE cur' = cur /\ ready_list' = list
  BY DEF ThreadCreate, Goto
<1>2. /\ cur = t /\ pc[t] = "run"
      /\ UNCHANGED <<waiting_lock, holding_locks, lockVars, want>>
  BY DEF ThreadCreate, At
<1>3. p \in Nat
  BY PrioritiesAssumption
<1> DEFINE list == InsertOrdered(ready_list, v, priority')
<1>4. /\ v # t /\ ~Runnable(v) /\ OthersStay(v) /\ priority' \in [Threads -> Nat]
      /\ holding_locks[v] = {}
  BY <1>0, <1>1, <1>2, <1>3 DEF DonationTypes, Queues, OthersStay, UnbornHoldNothing
<1>5. /\ list \in Seq(Threads) /\ Distinct(list)
      /\ ToSet(list) = ToSet(ready_list) \cup {v}
      /\ cur \notin ToSet(list)
      /\ Descending(list, priority')
  BY <1>4, BecomesReady
<1>6. Yield(t, list, priority') \/ (cur' = cur /\ ready_list' = list)
  BY <1>1
<1> HIDE DEF list
<1>7. Quiet
  BY <1>2, QuietOutside DEF Donation, Calling, Donating
<1>8. Quiet'
  BY <1>0, <1>1, <1>7 DEF Quiet, DonationTypes, Calling, Donating
<1>9. Outranks'
  <2>1. CASE Yield(t, list, priority')
    BY <1>4, <1>5, <2>1, YieldLeads DEF Outranks
  <2>2. CASE cur' = cur /\ ready_list' = list
    <3> SUFFICES ASSUME NEW u \in ToSet(list), pc'[u] = "blocked"
                 PROVE  cur' \in Threads /\ priority'[u] <= priority'[cur']
      BY <2>2 DEF Outranks
    <3>1. u \in Threads
      BY <1>5, Members
    <3>2. u # v /\ u \in ToSet(ready_list) /\ pc[u] = "blocked"
      BY <1>0, <1>1, <1>5, <3>1 DEF DonationTypes
    <3>3. priority[u] <= priority[t]
      BY <1>2, <3>2 DEF Donation, Outranks, In
    <3> QED  BY <1>2, <1>4, <2>2, <3>1, <3>2, <3>3 DEF OthersStay
  <2> QED  BY <1>6, <2>1, <2>2
<1>10. \A u \in Threads : Runnable(u) => Runnable(u)'
  <2>1. CASE Yield(t, list, priority')
    <3>1. \A u \in Threads : u \in ToSet(list) \cup {t} <=> u = cur' \/ u \in ToSet(ready_list')
      BY <1>2, <1>4, <1>5, <2>1, Yielded
    <3> QED  BY <1>2, <1>5, <3>1 DEF Runnable
  <2>2. CASE cur' = cur /\ ready_list' = list
    BY <1>5, <2>2 DEF Runnable
  <2> QED  BY <1>6, <2>1, <2>2
<1>11. BlockedStay
  BY <1>0, <1>1, <1>10 DEF BlockedStay, DonationTypes
<1>12. \A l : ~Pending(l)
  BY <1>7, NothingUnderWay
<1>13. Raised'
  <2> SUFFICES ASSUME NEW u \in Threads
               PROVE  /\ original_pri'[u] <= priority'[u]
                      /\ \A l \in holding_locks[u] : max_pri[l] <= priority'[u]
    BY <1>2 DEF Raised
  <2>1. CASE u = v
    BY <1>0, <1>1, <1>3, <1>4, <2>1 DEF DonationTypes
  <2>2. CASE u # v
    BY <1>0, <1>1, <1>12, <2>2 DEF Donation, Raised, DonationTypes
  <2> QED  BY <2>1, <2>2
<1>14. Lowered'
  BY <1>0, <1>1, <1>2 DEF Donation, Lowered, DonationTypes
<1> QED  BY <1>2, <1>7, <1>8, <1>9, <1>11, <1>13, <1>14, OutsidePreserves

(* Steps that the lock code does not notice: the running thread stays where *)
(* it is, and at most a thread that is not in a call becomes ready.         *)
LEMMA UnnoticedPreserves ==
    ASSUME PlacesInv, Donation,
           UNCHANGED <<cur, threadVars, lockVars, localVars>>,
           pc' \in [Threads -> Points],
           \A u \in Threads : pc'[u] = pc[u] \/ (pc[u] \notin Calling /\ pc'[u] \notin Calling),
           \A u \in Threads : u \in ToSet(ready_list) => u \in ToSet(ready_list'),
           \A u \in ToSet(ready_list') : u \in ToSet(ready_list) \/ pc[u] \notin Calling,
           ready_list' \in Seq(Threads)
    PROVE  Donation'
<1> USE DEF threadVars, lockVars, localVars
<1>0. DonationTypes
  BY DonationTypesHold
<1>1. \A S \in SUBSET Calling : In(S)' <=> In(S)
  BY DEF In
<1>2. /\ \A S \in {{"mark"} \cup Loop, Loop, {"next"}, {"store"}, {"fetch", "donate"},
                   {"donate", "next"}, {"test", "store"}, {"fetch", "donate", "follow", "next"},
                   {"down"}, {"follow", "next"}, {"took"}, {"up"}} : S \in SUBSET Calling
  BY DEF Loop, Calling, Donating
<1>3. \A u \in Threads : pc'[u] = "blocked" <=> pc[u] = "blocked"
  BY DEF Calling
<1>4. \A u \in Threads : Runnable(u) => Runnable(u)'
  BY DEF Runnable
<1>5. Alone'
  BY DEF Donation, Alone
<1>6. Chained'
  BY <1>1, <1>2 DEF Donation, Chained
<1>7. Offered' /\ Took'
  BY <1>1, <1>2, <1>3 DEF Donation, Offered, Took
<1>8. Marked' /\ Lowered'
  BY <1>3 DEF Donation, Marked, Lowered
<1>9. Raised'
  <2>1. \A l : Pending(l)' <=> Pending(l)
    BY <1>1, <1>2 DEF Pending
  <2> QED  BY <2>1 DEF Donation, Raised
<1>10. Backed'
  <2>1. \A u, l : Reaching(u, l)' <=> Reaching(u, l)
    BY <1>1, <1>2 DEF Reaching
  <2> QED  BY <1>3, <2>1 DEF Donation, Backed
<1>11. Woken'
  <2>1. \A w : Raising(w)' <=> Raising(w)
    BY <1>1, <1>2 DEF Raising
  <2> QED  BY <1>3, <1>4, <2>1 DEF Donation, Woken
<1>12. Outranks'
  <2> SUFFICES ASSUME NEW u \in ToSet(ready_list'), pc'[u] = "blocked"
               PROVE  In({"up"})' \/ (cur \in Threads /\ priority[u] <= priority[cur])
    BY DEF Outranks
  <2>1. u \in Threads
    BY Members
  <2>2. pc[u] = "blocked" /\ u \in ToSet(ready_list)
    BY <1>3, <2>1 DEF Calling
  <2> QED  BY <1>1, <1>2, <2>2 DEF Donation, Outranks
<1> QED  BY <1>5, <1>6, <1>7, <1>8, <1>9, <1>10, <1>11, <1>12 DEF Donation

(* A sleeper wakes, the kernel fails, or nothing happens. *)
LEMMA WakePreserves ==
    ASSUME PlacesInv, Donation, NEW t \in Threads,
           Wake(t) \/ DonateAstray(t) \/ UNCHANGED vars
    PROVE  Donation'
<1> USE DEF threadVars, lockVars, localVars
<1>0. DonationTypes
  BY DonationTypesHold
<1>1. CASE Wake(t)
  <2>1. /\ pc[t] = "sleep" /\ pc' = [pc EXCEPT ![t] = "run"]
        /\ ready_list' = InsertOrdered(ready_list, t, priority)
        /\ UNCHANGED <<cur, threadVars, lockVars, localVars>>
    BY <1>1 DEF Wake, Goto
  <2>2. /\ InsertOrdered(ready_list, t, priority) \in Seq(Threads)
        /\ ToSet(InsertOrdered(ready_list, t, priority)) = ToSet(ready_list) \cup {t}
    BY <1>0, Inserted DEF DonationTypes
  <2>3. pc' \in [Threads -> Points]
    BY <1>0, <2>1 DEF DonationTypes, Points
  <2>4. \A u \in Threads : pc'[u] = pc[u] \/ (pc[u] \notin Calling /\ pc'[u] \notin Calling)
    BY <1>0, <2>1 DEF DonationTypes, Calling, Donating
  <2>5. /\ \A u \in Threads : u \in ToSet(ready_list) => u \in ToSet(ready_list')
        /\ \A u \in ToSet(ready_list') : u \in ToSet(ready_list) \/ pc[u] \notin Calling
        /\ ready_list' \in Seq(Threads)
    BY <2>1, <2>2 DEF Calling, Donating
  <2> QED  BY <2>1, <2>3, <2>4, <2>5, UnnoticedPreserves
<1>2. CASE DonateAstray(t) \/ UNCHANGED vars
  <2>1. UNCHANGED <<cur, threadVars, lockVars, localVars, pc, ready_list>>
    BY <1>2 DEF DonateAstray, vars
  <2> QED  BY <1>0, <2>1, UnnoticedPreserves DEF DonationTypes
<1> QED  BY <1>1, <1>2

(* Raised, Backed and Woken while the donation loop is not running. *)
Settled ==
    /\ \A t \in Threads :
          /\ original_pri[t] <= priority[t]
          /\ \A l \in holding_locks[t] : max_pri[l] <= priority[t]
    /\ \A t \in Threads : pc[t] = "blocked" /\ holder[want[t]] # NoThread =>
          priority[t] <= max_pri[want[t]]
    /\ \A l \in Locks : value[l] = 1 /\ waiters[l] # <<>> =>
          \E u \in Threads :
              /\ pc[u] = "blocked" /\ want[u] = l /\ Runnable(u)
              /\ \A w \in ToSet(waiters[l]) : priority[w] <= priority[u]

(* Outside the donation loop there are no exceptions. *)
LEMMA SettledOutsideLoop == Donation /\ ~In(Loop) => Settled
<1> SUFFICES ASSUME Donation, ~In(Loop) PROVE Settled
  OBVIOUS
<1>1. ~In({"fetch", "donate"}) /\ ~In({"follow", "next"}) /\ ~In({"test", "store"})
  BY DEF In, Loop
<1>2. \A l : ~Pending(l)
  BY <1>1 DEF Pending
<1>3. \A t, l : ~Reaching(t, l)
  BY <1>1 DEF Reaching
<1>4. \A w : ~Raising(w)
  BY <1>1 DEF Raising
<1>5. \A t \in Threads : /\ original_pri[t] <= priority[t]
                         /\ \A l \in holding_locks[t] : max_pri[l] <= priority[t]
  BY <1>2 DEF Donation, Raised
<1>6. \A t \in Threads : pc[t] = "blocked" /\ holder[want[t]] # NoThread =>
          priority[t] <= max_pri[want[t]]
  BY <1>3 DEF Donation, Backed
<1>7. \A l \in Locks : value[l] = 1 /\ waiters[l] # <<>> =>
          \E u \in Threads :
              /\ pc[u] = "blocked" /\ want[u] = l /\ Runnable(u)
              /\ \A w \in ToSet(waiters[l]) : priority[w] <= priority[u]
  BY <1>4 DEF Donation, Woken
<1> QED  BY <1>5, <1>6, <1>7 DEF Settled

(* Without exceptions is stronger than with them. *)
LEMMA SettledIsEnough == Settled => Raised /\ Backed /\ Woken
BY DEF Settled, Raised, Backed, Woken

(* What a move of the running thread from point to point leaves alone. *)
Moves(t, to) ==
    /\ cur = t /\ pc' = [pc EXCEPT ![t] = to] /\ to \in Points \ {"blocked"}
    /\ UNCHANGED <<cur, ready_list, priority, waiters>>

(* Such a move changes neither who is alone in the lock code nor who is ready. *)
LEMMA MovePreserves ==
    ASSUME PlacesInv, Donation, NEW t \in Threads, NEW to, Moves(t, to), pc[t] # "up"
    PROVE  /\ Alone' /\ Outranks'
           /\ pc'[t] = to /\ cur' = t
           /\ \A u \in Threads : u # t => pc'[u] = pc[u]
           /\ \A u \in Threads : pc'[u] = "blocked" => pc[u] = "blocked" /\ u # t
           /\ \A u \in Threads : Runnable(u)' <=> Runnable(u)
<1>0. DonationTypes
  BY DonationTypesHold
<1>1. pc'[t] = to /\ cur' = t /\ \A u \in Threads : u # t => pc'[u] = pc[u]
  BY <1>0 DEF Moves, DonationTypes
<1>2. \A u \in Threads : pc'[u] = "blocked" => pc[u] = "blocked" /\ u # t
  BY <1>1 DEF Moves
<1>3. Alone'
  BY <1>1 DEF Donation, Alone, Moves
<1>4. \A u \in Threads : Runnable(u)' <=> Runnable(u)
  BY DEF Runnable, Moves
<1>5. Outranks'
  <2> SUFFICES ASSUME NEW u \in ToSet(ready_list), pc'[u] = "blocked"
               PROVE  priority[u] <= priority[t]
    BY <1>1 DEF Outranks, Moves
  <2>1. u \in Threads /\ pc[u] = "blocked"
    BY <1>0, <1>2, Members DEF DonationTypes
  <2>2. ~In({"up"})
    BY DEF In, Moves
  <2> QED  BY <2>1, <2>2 DEF Donation, Outranks, Moves
<1> QED  BY <1>1, <1>2, <1>3, <1>4, <1>5

(* Entering lock_acquire or lock_release and taking the semaphore give no one *)
(* a lock and change no priority.                                             *)
LEMMA SettledStays ==
    ASSUME DonationTypes, Settled,
           UNCHANGED <<cur, ready_list, priority, original_pri, holding_locks, max_pri, waiters>>,
           \A u \in Threads : pc'[u] = "blocked" =>
               /\ pc[u] = "blocked" /\ want'[u] = want[u]
               /\ holder'[want[u]] # NoThread => holder[want[u]] # NoThread,
           \A l \in Locks : value'[l] = 1 =>
               /\ value[l] = 1
               /\ \A u \in Threads : pc[u] = "blocked" /\ want[u] = l =>
                     pc'[u] = "blocked" /\ want'[u] = l
    PROVE  Settled'
<1>1. \A u \in Threads : Runnable(u)' <=> Runnable(u)
  BY DEF Runnable
<1>2. \A u \in Threads : pc'[u] = "blocked" /\ holder'[want'[u]] # NoThread =>
          priority[u] <= max_pri[want'[u]]
  BY DEF Settled
<1>3. ASSUME NEW l \in Locks, value'[l] = 1, waiters[l] # <<>>
      PROVE  \E u \in Threads :
                /\ pc'[u] = "blocked" /\ want'[u] = l /\ Runnable(u)'
                /\ \A w \in ToSet(waiters[l]) : priority[w] <= priority[u]
  <2>1. PICK u \in Threads :
              /\ pc[u] = "blocked" /\ want[u] = l /\ Runnable(u)
              /\ \A w \in ToSet(waiters[l]) : priority[w] <= priority[u]
    BY <1>3 DEF Settled
  <2> QED  BY <1>1, <1>3, <2>1
<1> QED  BY <1>2, <1>3 DEF Settled

(* lock_acquire enters, with or without a holder to donate to. *)
LEMMA AcquireDonation ==
    ASSUME PlacesInv, Donation, NEW t \in Threads, LockAcquire(t)
    PROVE  Donation'
<1> USE DEF threadVars, lockVars, localVars
<1>0. DonationTypes
  BY DonationTypesHold
<1>1. PICK l \in Locks :
        /\ want' = [want EXCEPT ![t] = l]
        /\ pc' = [pc EXCEPT ![t] = IF holder[l] # NoThread THEN "mark" ELSE "down"]
  BY DEF LockAcquire, Goto
<1>2. /\ cur = t /\ pc[t] = "run"
      /\ UNCHANGED <<cur, ready_list, threadVars, lockVars, lk, fetched, loaded>>
  BY DEF LockAcquire, At
<1>3. PICK to : to = IF holder[l] # NoThread THEN "mark" ELSE "down"
  OBVIOUS
<1>4. Moves(t, to)
  BY <1>1, <1>2, <1>3 DEF Moves, Points, Calling, Donating
<1>5. /\ Alone' /\ Outranks'
      /\ pc'[t] = to /\ cur' = t
      /\ \A u \in Threads : pc'[u] = "blocked" => pc[u] = "blocked" /\ u # t
      /\ \A u \in Threads : u # t => pc'[u] = pc[u]
  BY <1>2, <1>4, MovePreserves
<1>6. \A u \in Threads : u # t => want'[u] = want[u]
  BY <1>0, <1>1 DEF DonationTypes
<1>7. want'[t] = l
  BY <1>0, <1>1 DEF DonationTypes
<1>8. ~In(Loop)
  BY <1>2 DEF In, Loop
<1>9. Settled'
  <2>1. Settled
    BY <1>8, SettledOutsideLoop
  <2> QED  BY <1>0, <1>2, <1>5, <1>6, <2>1, SettledStays
<1>10. Chained'
  BY <1>2, <1>3, <1>5, <1>7 DEF Chained, In, Loop
<1>11. Offered' /\ Took'
  BY <1>2, <1>3, <1>5, <1>7 DEF Offered, Took, In
<1>12. Marked'
  BY <1>2, <1>5, <1>6 DEF Donation, Marked
<1>13. Lowered'
  BY <1>2 DEF Donation, Lowered
<1>14. Raised' /\ Backed' /\ Woken'
  BY <1>9, SettledIsEnough, PTL
<1> QED  BY <1>5, <1>10, <1>11, <1>12, <1>13, <1>14 DEF Donation

(* cur->waiting_lock = lock: the thread's own end of the chain. *)
LEMMA MarkDonation ==
    ASSUME PlacesInv, Donation, NEW t \in Threads, MarkWaiting(t)
    PROVE  Donation'
<1> USE DEF threadVars, lockVars, localVars
<1>0. DonationTypes
  BY DonationTypesHold
<1>1. /\ cur = t /\ pc[t] = "mark" /\ pc' = [pc EXCEPT ![t] = "test"]
      /\ waiting_lock' = [waiting_lock EXCEPT ![t] = want[t]]
      /\ lk' = [lk EXCEPT ![t] = want[t]]
      /\ UNCHANGED <<cur, ready_list, priority, original_pri, holding_locks, lockVars, want>>
  BY DEF MarkWaiting, At, Goto
<1>2. Moves(t, "test")
  BY <1>1 DEF Moves, Points, Calling, Donating
<1>3. /\ Alone' /\ Outranks'
      /\ pc'[t] = "test" /\ cur' = t
      /\ \A u \in Threads : pc'[u] = "blocked" => pc[u] = "blocked" /\ u # t
      /\ \A u \in Threads : u # t => pc'[u] = pc[u]
  BY <1>1, <1>2, MovePreserves
<1>4. waiting_lock'[t] = want[t] /\ lk'[t] = want[t]
  BY <1>0, <1>1 DEF DonationTypes
<1>5. Settled'
  <2>1. ~In(Loop)
    BY <1>1 DEF In, Loop
  <2>2. Settled
    BY <2>1, SettledOutsideLoop
  <2> QED  BY <1>0, <1>1, <1>3, <2>2, SettledStays
<1>6. holder[want[t]] # NoThread
  BY <1>1 DEF Donation, Chained, In
<1>7. Chained'
  BY <1>1, <1>3, <1>4, <1>6 DEF Chained, In
<1>8. Offered' /\ Took'
  BY <1>1, <1>3, <1>4 DEF Offered, Took, In
<1>9. Marked'
  BY <1>0, <1>1, <1>3 DEF Donation, Marked, DonationTypes
<1>10. Lowered'
  BY <1>1 DEF Donation, Lowered
<1>11. Raised' /\ Backed' /\ Woken'
  BY <1>5, SettledIsEnough, PTL
<1> QED  BY <1>3, <1>7, <1>8, <1>9, <1>10, <1>11 DEF Donation

(* The loop's condition.  Where it fails, who was to be reached is backed. *)
LEMMA TestDonation ==
    ASSUME PlacesInv, Donation, NEW t \in Threads, DonateTest(t)
    PROVE  Donation'
<1> USE DEF threadVars, lockVars, localVars
<1>0. DonationTypes
  BY DonationTypesHold
<1>1. /\ cur = t /\ pc[t] = "test"
      /\ UNCHANGED <<cur, ready_list, threadVars, lockVars, want, fetched>>
  BY DEF DonateTest, At
<1>2. /\ holder[want[t]] # NoThread /\ waiting_lock[t] = want[t]
      /\ lk[t] # NoLock => holder[lk[t]] # NoThread
      /\ lk[t] = want[t] \/ priority[t] <= max_pri[want[t]]
      /\ want[t] \in Locks
  <2>1. want[t] \in Locks
    BY <1>1 DEF PlacesInv, LockInv, CallHasLock, Calling, Donating
  <2> QED  BY <1>1, <2>1 DEF Donation, Chained, Offered, In, Loop
<1>3. /\ \A l : ~Pending(l)
      /\ \A w : ~Raising(w)
      /\ \A u, l : Reaching(u, l) <=> lk[t] = l /\ priority[u] <= priority[t]
  BY <1>1 DEF Pending, Raising, Reaching, In
<1>4. CASE lk[t] # NoLock /\ priority[t] > max_pri[lk[t]]
  <2>1. /\ pc' = [pc EXCEPT ![t] = "store"] /\ lk' = lk
        /\ loaded' = [loaded EXCEPT ![t] = priority[t]]
    BY <1>4 DEF DonateTest, Goto
  <2>2. Moves(t, "store")
    BY <1>1, <2>1 DEF Moves, Points, Calling, Donating
  <2>3. /\ Alone' /\ Outranks'
        /\ pc'[t] = "store" /\ cur' = t
        /\ \A u \in Threads : pc'[u] = "blocked" => pc[u] = "blocked" /\ u # t
        /\ \A u \in Threads : u # t => pc'[u] = pc[u]
        /\ \A u \in Threads : Runnable(u)' <=> Runnable(u)
    BY <1>1, <2>2, MovePreserves
  <2>4. loaded'[t] = priority[t]
    BY <1>0, <2>1 DEF DonationTypes
  <2>5. \A u, l : Reaching(u, l)' <=> lk[t] = l /\ priority[u] <= priority[t]
    BY <1>1, <2>1, <2>3 DEF Reaching, In
  <2>6. Chained'
    BY <1>1, <1>2, <1>4, <2>1, <2>3, <2>4 DEF Chained, In
  <2>7. Offered' /\ Took'
    BY <1>1, <1>2, <2>1, <2>3 DEF Offered, Took, In
  <2>8. Marked' /\ Lowered'
    BY <1>1, <2>3 DEF Donation, Marked, Lowered
  <2>9. Raised'
    BY <1>1, <1>3 DEF Donation, Raised
  <2>10. Backed'
    BY <1>1, <1>3, <2>3, <2>5 DEF Donation, Backed
  <2>11. Woken'
    BY <1>1, <1>3, <2>3 DEF Donation, Woken
  <2> QED  BY <2>3, <2>6, <2>7, <2>8, <2>9, <2>10, <2>11 DEF Donation
<1>5. CASE ~(lk[t] # NoLock /\ priority[t] > max_pri[lk[t]])
  <2>1. pc' = [pc EXCEPT ![t] = "down"]
    BY <1>5 DEF DonateTest, Goto
  <2>2. Moves(t, "down")
    BY <1>1, <2>1 DEF Moves, Points, Calling
  <2>3. /\ Alone' /\ Outranks'
        /\ pc'[t] = "down" /\ cur' = t
        /\ \A u \in Threads : pc'[u] = "blocked" => pc[u] = "blocked" /\ u # t
        /\ \A u \in Threads : u # t => pc'[u] = pc[u]
        /\ \A u \in Threads : Runnable(u)' <=> Runnable(u)
    BY <1>1, <2>2, MovePreserves
  <2>4. lk[t] = NoLock \/ (lk[t] \in Locks /\ priority[t] <= max_pri[lk[t]])
    <3>1. CASE lk[t] # NoLock
      <4>1. lk[t] \in Locks /\ priority[t] \in Nat /\ max_pri[lk[t]] \in Nat
        BY <1>0, <3>1 DEF DonationTypes
      <4> QED  BY <1>5, <3>1, <4>1
    <3> QED  BY <3>1
  <2>5. priority[t] <= max_pri[want[t]]
    BY <1>0, <1>2, <2>4 DEF DonationTypes
  <2>6. Chained'
    BY <2>3 DEF Chained, In, Loop
  <2>7. Offered' /\ Took'
    BY <1>1, <1>2, <2>3, <2>5 DEF Offered, Took, In
  <2>8. Marked' /\ Lowered'
    BY <1>1, <2>3 DEF Donation, Marked, Lowered
  <2>9. Raised'
    BY <1>1, <1>3 DEF Donation, Raised
  <2>10. Backed'
    <3> SUFFICES ASSUME NEW u \in Threads, pc[u] = "blocked", holder[want[u]] # NoThread
                 PROVE  priority[u] <= max_pri[want[u]]
      BY <1>1, <2>3 DEF Backed
    <3>1. want[u] \in Locks
      BY DEF PlacesInv, LockInv, CallHasLock, Calling
    <3>2. priority[u] <= max_pri[want[u]] \/ (lk[t] = want[u] /\ priority[u] <= priority[t])
      BY <1>3 DEF Donation, Backed
    <3>3. priority[u] \in Nat /\ priority[t] \in Nat /\ max_pri[want[u]] \in Nat
      BY <1>0, <3>1 DEF DonationTypes
    <3>4. lk[t] = want[u] => priority[t] <= max_pri[want[u]]
      BY <1>0, <2>4, <3>1 DEF DonationTypes
    <3> QED  BY <3>2, <3>3, <3>4
  <2>11. Woken'
    BY <1>1, <1>3, <2>3 DEF Donation, Woken
  <2> QED  BY <2>3, <2>6, <2>7, <2>8, <2>9, <2>10, <2>11 DEF Donation
<1> QED  BY <1>4, <1>5

(* lk->max_pri = cur->priority: an offer the holder does not have yet. *)
LEMMA StoreDonation ==
    ASSUME PlacesInv, Donation, NEW t \in Threads, DonateStore(t)
    PROVE  Donation'
<1> USE DEF threadVars, lockVars, localVars
<1>0. DonationTypes
  BY DonationTypesHold
<1>1. /\ cur = t /\ pc[t] = "store" /\ pc' = [pc EXCEPT ![t] = "fetch"]
      /\ max_pri' = [max_pri EXCEPT ![lk[t]] = loaded[t]]
      /\ UNCHANGED <<cur, ready_list, threadVars, holder, value, waiters, want, lk, fetched>>
  BY DEF DonateStore, At, Goto
<1>2. PICK m \in Locks : m = lk[t]
  BY <1>1 DEF PlacesInv, DonationTyped, LoopHasLock
<1>3. /\ holder[want[t]] # NoThread /\ waiting_lock[t] = want[t] /\ want[t] \in Locks
      /\ holder[m] # NoThread
      /\ loaded[t] = priority[t] /\ priority[t] > max_pri[m]
      /\ m = want[t] \/ priority[t] <= max_pri[want[t]]
  <2>1. want[t] \in Locks
    BY <1>1 DEF PlacesInv, LockInv, CallHasLock, Calling, Donating
  <2>2. lk[t] # NoLock
    BY <1>0, <1>2 DEF DonationTypes
  <2> QED  BY <1>1, <1>2, <2>1, <2>2 DEF Donation, Chained, Offered, In, Loop
<1>4. /\ \A l : ~Pending(l)
      /\ \A w : ~Raising(w)
      /\ \A u, l : Reaching(u, l) <=> m = l /\ priority[u] <= priority[t]
  BY <1>1, <1>2 DEF Pending, Raising, Reaching, In
<1>5. /\ \A l \in Locks : max_pri'[l] = IF l = m THEN priority[t] ELSE max_pri[l]
      /\ \A l \in Locks : max_pri[l] <= max_pri'[l] /\ max_pri[l] \in Nat /\ max_pri'[l] \in Nat
  <2>1. \A l \in Locks : max_pri'[l] = IF l = m THEN priority[t] ELSE max_pri[l]
    BY <1>0, <1>1, <1>2, <1>3 DEF DonationTypes
  <2>2. priority[t] \in Nat /\ \A l \in Locks : max_pri[l] \in Nat
    BY <1>0 DEF DonationTypes
  <2> QED  BY <1>3, <2>1, <2>2
<1>6. Moves(t, "fetch")
  BY <1>1 DEF Moves, Points, Calling, Donating
<1>7. /\ Alone' /\ Outranks'
      /\ pc'[t] = "fetch" /\ cur' = t
      /\ \A u \in Threads : pc'[u] = "blocked" => pc[u] = "blocked" /\ u # t
      /\ \A u \in Threads : u # t => pc'[u] = pc[u]
      /\ \A u \in Threads : Runnable(u)' <=> Runnable(u)
  BY <1>1, <1>6, MovePreserves
<1>8. Chained'
  BY <1>1, <1>2, <1>3, <1>5, <1>7 DEF Chained, In
<1>9. Offered' /\ Took'
  <2>1. priority[t] <= max_pri'[want[t]]
    BY <1>0, <1>3, <1>5 DEF DonationTypes
  <2> QED  BY <1>1, <1>7, <2>1 DEF Offered, Took, In
<1>10. Marked'
  BY <1>1, <1>7 DEF Donation, Marked
<1>11. Raised'
  <2> SUFFICES ASSUME NEW u \in Threads, NEW l \in holding_locks[u]
               PROVE  max_pri'[l] <= priority[u] \/ Pending(l)'
    BY <1>1 DEF Donation, Raised
  <2>1. l \in Locks
    BY <1>0 DEF DonationTypes
  <2>2. CASE l = m
    <3>1. Pending(l)'
      BY <1>1, <1>2, <1>7, <2>2 DEF Pending, In
    <3> QED  BY <3>1
  <2>3. CASE l # m
    BY <1>4, <1>5, <2>1, <2>3 DEF Donation, Raised
  <2> QED  BY <2>2, <2>3
<1>12. Lowered'
  <2> SUFFICES ASSUME NEW u \in Threads, priority[u] # original_pri[u]
               PROVE  \E l \in holding_locks[u] : priority[u] <= max_pri'[l]
    BY <1>1 DEF Lowered
  <2>1. PICK l \in holding_locks[u] : priority[u] <= max_pri[l]
    BY DEF Donation, Lowered
  <2>2. l \in Locks /\ priority[u] \in Nat
    BY <1>0 DEF DonationTypes
  <2>3. priority[u] <= max_pri'[l]
    BY <1>5, <2>1, <2>2
  <2> QED  BY <2>3
<1>13. Backed'
  <2> SUFFICES ASSUME NEW u \in Threads, pc[u] = "blocked", holder[want[u]] # NoThread
               PROVE  priority[u] <= max_pri'[want[u]]
    BY <1>1, <1>7 DEF Backed
  <2>1. want[u] \in Locks /\ priority[u] \in Nat
    BY <1>0 DEF PlacesInv, LockInv, CallHasLock, Calling, DonationTypes
  <2>2. priority[u] <= max_pri[want[u]] \/ (want[u] = m /\ priority[u] <= priority[t])
    BY <1>4 DEF Donation, Backed
  <2> QED  BY <1>5, <2>1, <2>2
<1>14. Woken'
  BY <1>1, <1>4, <1>7 DEF Donation, Woken
<1> QED  BY <1>7, <1>8, <1>9, <1>10, <1>11, <1>12, <1>13, <1>14 DEF Donation

(* The holder is read; nobody can change it meanwhile. *)
LEMMA FetchDonation ==
    ASSUME PlacesInv, Donation, NEW t \in Threads, FetchHolder(t)
    PROVE  Donation'
<1> USE DEF threadVars, lockVars, localVars
<1>0. DonationTypes
  BY DonationTypesHold
<1>1. /\ cur = t /\ pc[t] \in {"fetch", "follow"}
      /\ fetched' = [fetched EXCEPT ![t] = holder[lk[t]]]
      /\ pc' = [pc EXCEPT ![t] = IF pc[t] = "fetch" THEN "donate" ELSE "next"]
      /\ UNCHANGED <<cur, ready_list, threadVars, lockVars, want, lk, loaded>>
  BY DEF FetchHolder, Goto
<1>2. PICK to : to = IF pc[t] = "fetch" THEN "donate" ELSE "next"
  OBVIOUS
<1>3. Moves(t, to)
  BY <1>1, <1>2 DEF Moves, Points, Calling, Donating
<1>4. /\ Alone' /\ Outranks'
      /\ pc'[t] = to /\ cur' = t
      /\ \A u \in Threads : pc'[u] = "blocked" => pc[u] = "blocked" /\ u # t
      /\ \A u \in Threads : u # t => pc'[u] = pc[u]
      /\ \A u \in Threads : Runnable(u)' <=> Runnable(u)
  BY <1>1, <1>3, MovePreserves
<1>5. fetched'[t] = holder[lk[t]] /\ lk[t] \in Locks
  BY <1>0, <1>1 DEF DonationTypes, PlacesInv, DonationTyped, LoopHasLock
<1>6. /\ \A l : Pending(l)' <=> Pending(l)
      /\ \A w : Raising(w)' <=> Raising(w)
      /\ \A u, l : Reaching(u, l)' <=> Reaching(u, l)
  BY <1>1, <1>2, <1>4 DEF Pending, Raising, Reaching, In
<1>7. Chained'
  BY <1>1, <1>2, <1>4, <1>5 DEF Donation, Chained, In, Loop
<1>8. Offered' /\ Took'
  BY <1>1, <1>2, <1>4 DEF Donation, Offered, Took, In
<1>9. Marked' /\ Lowered'
  BY <1>1, <1>4 DEF Donation, Marked, Lowered
<1>10. Raised'
  BY <1>1, <1>6 DEF Donation, Raised
<1>11. Backed'
  BY <1>1, <1>4, <1>6 DEF Donation, Backed
<1>12. Woken'
  BY <1>1, <1>4, <1>6 DEF Donation, Woken
<1> QED  BY <1>4, <1>7, <1>8, <1>9, <1>10, <1>11, <1>12 DEF Donation

(* thread_donate_pri moves a thread within the ready list. *)
LEMMA DonateKeepsReady ==
    ASSUME PlacesInv, NEW t \in Threads, DonatePri(t), priority' \in [Threads -> Nat]
    PROVE  ToSet(ready_list') = ToSet(ready_list)
<1>0. DonationTypes
  BY DonationTypesHold
<1>1. PICK g, rest : g = fetched[t] /\ rest = Without(ready_list, g)
  OBVIOUS
<1>2. ready_list' = IF Contains(ready_list, g) THEN InsertOrdered(rest, g, priority')
                    ELSE ready_list
  BY <1>1 DEF DonatePri
<1>3. CASE Contains(ready_list, g)
  <2>1. rest \in Seq(Threads) /\ ToSet(rest) = ToSet(ready_list) \ {g}
    BY <1>0, <1>1, <1>3, Removed DEF DonationTypes
  <2>2. g \in ToSet(ready_list) /\ g \in Threads
    BY <1>0, <1>3, Members DEF DonationTypes, Contains
  <2>3. ToSet(InsertOrdered(rest, g, priority')) = ToSet(rest) \cup {g}
    BY <2>1, <2>2, Inserted
  <2> QED  BY <1>2, <1>3, <2>1, <2>2, <2>3
<1>4. CASE ~Contains(ready_list, g)
  BY <1>2, <1>4
<1> QED  BY <1>3, <1>4

(* thread_donate_pri raises the holder to the donor, or leaves it as it is. *)
LEMMA DonationRaises ==
    ASSUME PlacesInv, Donation, NEW t \in Threads, DonatePri(t)
    PROVE  LET h == holder[lk[t]]
           IN  /\ lk[t] \in Locks /\ h \in Threads /\ lk[t] \in holding_locks[h]
               /\ priority' = [priority EXCEPT ![h] = UpdatedPri(h, holding_locks[h])]
               /\ UpdatedPri(h, holding_locks[h]) =
                     IF priority[h] <= priority[t] THEN priority[t] ELSE priority[h]
               /\ \A l \in holding_locks[h] : max_pri[l] <= UpdatedPri(h, holding_locks[h])
               /\ original_pri[h] <= UpdatedPri(h, holding_locks[h])
               /\ \/ UpdatedPri(h, holding_locks[h]) = original_pri[h]
                  \/ \E l \in holding_locks[h] : UpdatedPri(h, holding_locks[h]) <= max_pri[l]
<1>0. DonationTypes
  BY DonationTypesHold
<1>1. /\ cur = t /\ pc[t] = "donate" /\ fetched[t] # NoThread
      /\ priority' = [priority EXCEPT ![fetched[t]] =
                        UpdatedPri(fetched[t], holding_locks[fetched[t]])]
  BY DEF DonatePri, At, Fetched
<1>2. PICK m \in Locks : m = lk[t]
  BY <1>1 DEF PlacesInv, DonationTyped, LoopHasLock
<1>3. fetched[t] = holder[m] /\ max_pri[m] = priority[t]
  BY <1>1, <1>2 DEF Donation, Chained, In
<1>4. PICK h \in Threads : h = holder[m]
  BY <1>0, <1>1, <1>3 DEF DonationTypes
<1>5. m \in holding_locks[h]
  BY <1>4 DEF PlacesInv, LockInv, HoldingIsHeld
<1> DEFINE new == UpdatedPri(h, holding_locks[h])
<1>6. /\ new \in Nat /\ new >= original_pri[h]
      /\ \A l \in holding_locks[h] : new >= max_pri[l]
      /\ new = original_pri[h] \/ \E l \in holding_locks[h] : new = max_pri[l]
  <2>1. holding_locks[h] \in SUBSET Locks /\ IsFiniteSet(holding_locks[h])
    BY <1>0 DEF DonationTypes, PlacesInv, DonationTyped
  <2> QED  BY <2>1, UpdatedPriIsMax DEF PlacesInv, LockInv
<1> HIDE DEF new
<1>7. /\ priority[h] \in Nat /\ priority[t] \in Nat /\ original_pri[h] \in Nat
      /\ \A l \in holding_locks[h] : l \in Locks /\ max_pri[l] \in Nat
  BY <1>0 DEF DonationTypes
<1>8. /\ original_pri[h] <= priority[h]
      /\ \A l \in holding_locks[h] : max_pri[l] <= priority[h] \/ l = m
  BY <1>1, <1>2 DEF Donation, Raised, Pending
<1>9. priority[h] = original_pri[h] \/ \E l \in holding_locks[h] : priority[h] <= max_pri[l]
  BY DEF Donation, Lowered
<1>10. new >= priority[h]
  BY <1>6, <1>7, <1>9
<1>11. new >= priority[t]
  BY <1>3, <1>5, <1>6
<1>12. new <= priority[h] \/ new <= priority[t]
  BY <1>3, <1>6, <1>7, <1>8
<1>13. new = IF priority[h] <= priority[t] THEN priority[t] ELSE priority[h]
  BY <1>6, <1>7, <1>10, <1>11, <1>12
<1>14. /\ \A l \in holding_locks[h] : max_pri[l] <= new
       /\ original_pri[h] <= new
       /\ new = original_pri[h] \/ \E l \in holding_locks[h] : new <= max_pri[l]
  BY <1>6, <1>7
<1>15. priority' = [priority EXCEPT ![h] = new]
  BY <1>1, <1>3, <1>4 DEF new
<1> QED  BY <1>2, <1>4, <1>5, <1>13, <1>14, <1>15 DEF new

(* thread_donate_pri.  A holder that is blocked itself, or woken but not yet *)
(* running, is now ahead of its own offer; the loop goes on to that lock.    *)
LEMMA DonateDonation ==
    ASSUME PlacesInv, Donation, NEW t \in Threads, DonatePri(t), Queues'
    PROVE  Donation'
<1> USE DEF threadVars, lockVars, localVars
<1>0. DonationTypes
  BY DonationTypesHold
<1>1. /\ cur = t /\ pc[t] = "donate" /\ pc' = [pc EXCEPT ![t] = "follow"]
      /\ UNCHANGED <<cur, original_pri, waiting_lock, holding_locks, lockVars, want, lk, loaded>>
  BY DEF DonatePri, At, Goto
<1>2. PICK m \in Locks, h \in Threads :
        /\ m = lk[t] /\ h = holder[m] /\ m \in holding_locks[h]
        /\ priority' = [priority EXCEPT ![h] = UpdatedPri(h, holding_locks[h])]
        /\ UpdatedPri(h, holding_locks[h]) =
              IF priority[h] <= priority[t] THEN priority[t] ELSE priority[h]
        /\ \A l \in holding_locks[h] : max_pri[l] <= UpdatedPri(h, holding_locks[h])
        /\ original_pri[h] <= UpdatedPri(h, holding_locks[h])
        /\ \/ UpdatedPri(h, holding_locks[h]) = original_pri[h]
           \/ \E l \in holding_locks[h] : UpdatedPri(h, holding_locks[h]) <= max_pri[l]
  BY DonationRaises
<1>3. PICK new : new = UpdatedPri(h, holding_locks[h])
  OBVIOUS
<1>4. /\ priority' = [priority EXCEPT ![h] = new]
      /\ new = IF priority[h] <= priority[t] THEN priority[t] ELSE priority[h]
      /\ \A l \in holding_locks[h] : max_pri[l] <= new
      /\ original_pri[h] <= new
      /\ new = original_pri[h] \/ \E l \in holding_locks[h] : new <= max_pri[l]
  BY <1>2, <1>3
<1>5. /\ \A u \in Threads : u # h => priority'[u] = priority[u]
      /\ priority'[h] = new
      /\ \A u \in Threads : /\ priority[u] <= priority'[u]
                            /\ priority[u] \in Nat /\ priority'[u] \in Nat
      /\ priority'[t] = priority[t]
  <2>1. \A u \in Threads : priority[u] \in Nat
    BY <1>0 DEF DonationTypes
  <2>2. new \in Nat /\ priority[h] <= new
    BY <1>4, <2>1
  <2>3. \A u \in Threads : priority'[u] = IF u = h THEN new ELSE priority[u]
    BY <1>0, <1>4 DEF DonationTypes
  <2> QED  BY <1>4, <2>1, <2>2, <2>3
<1>6. /\ pc'[t] = "follow" /\ cur' = t
      /\ \A u \in Threads : u # t => pc'[u] = pc[u]
      /\ \A u \in Threads : pc'[u] = "blocked" <=> pc[u] = "blocked"
  BY <1>0, <1>1 DEF DonationTypes
<1>7. ToSet(ready_list') = ToSet(ready_list)
  <2>1. priority' \in [Threads -> Nat]
    BY <1>0, <1>4, <1>5 DEF DonationTypes
  <2> QED  BY <2>1, DonateKeepsReady
<1>8. \A u \in Threads : Runnable(u)' <=> Runnable(u)
  BY <1>1, <1>7 DEF Runnable
<1>9. /\ \A l : Pending(l) <=> l = m
      /\ \A l : ~Pending(l)'
      /\ \A w : ~Raising(w)
      /\ \A w : Raising(w)' <=> w = h
      /\ \A u, l : ~Reaching(u, l)
      /\ \A u, l : Reaching(u, l)' <=> u = h /\ priority'[u] <= priority[t]
  BY <1>1, <1>2, <1>5, <1>6 DEF Pending, Raising, Reaching, In
<1>10. Alone'
  BY <1>1, <1>6 DEF Donation, Alone
<1>11. Chained'
  BY <1>0, <1>1, <1>2, <1>6 DEF Donation, Chained, In, Loop, DonationTypes
<1>12. Offered' /\ Took'
  BY <1>1, <1>5, <1>6 DEF Donation, Offered, Took, In
<1>13. Marked'
  BY <1>1, <1>6 DEF Donation, Marked
<1>14. Raised'
  <2> SUFFICES ASSUME NEW u \in Threads
               PROVE  /\ original_pri[u] <= priority'[u]
                      /\ \A l \in holding_locks[u] : max_pri[l] <= priority'[u]
    BY <1>1 DEF Raised
  <2>1. CASE u = h
    BY <1>4, <1>5, <2>1
  <2>2. CASE u # h
    <3>1. m \notin holding_locks[u]
      <4>1. holder[m] # u /\ ~(pc[u] = "remove")
        BY <1>1, <1>2, <2>2 DEF Donation, Alone, Calling
      <4> QED  BY <4>1 DEF PlacesInv, LockInv, HoldingIsHeld
    <3> QED  BY <1>5, <1>9, <2>2, <3>1 DEF Donation, Raised
  <2> QED  BY <2>1, <2>2
<1>15. Lowered'
  <2> SUFFICES ASSUME NEW u \in Threads
               PROVE  \/ priority'[u] = original_pri[u]
                      \/ \E l \in holding_locks[u] : priority'[u] <= max_pri[l]
    BY <1>1 DEF Lowered
  <2>1. CASE u = h
    BY <1>4, <1>5, <2>1
  <2>2. CASE u # h
    BY <1>5, <2>2 DEF Donation, Lowered
  <2> QED  BY <2>1, <2>2
<1>16. Backed'
  <2> SUFFICES ASSUME NEW u \in Threads, pc[u] = "blocked", holder[want[u]] # NoThread
               PROVE  priority'[u] <= max_pri[want[u]] \/ Reaching(u, want[u])'
    BY <1>1, <1>6 DEF Backed
  <2>1. priority[u] <= max_pri[want[u]]
    BY <1>9 DEF Donation, Backed
  <2>2. CASE u = h /\ priority[h] <= priority[t]
    <3>1. priority'[u] = priority[t]
      BY <1>4, <1>5, <2>2
    <3>2. priority'[u] <= priority[t]
      BY <1>5, <3>1
    <3>3. Reaching(u, want[u])' <=> u = h /\ priority'[u] <= priority[t]
      BY <1>1, <1>9
    <3> QED  BY <2>2, <3>2, <3>3
  <2>3. CASE ~(u = h /\ priority[h] <= priority[t])
    BY <1>4, <1>5, <2>1, <2>3
  <2> QED  BY <2>2, <2>3
<1>17. Woken'
  <2> SUFFICES ASSUME NEW l \in Locks, value[l] = 1, waiters[l] # <<>>
               PROVE  \E u \in Threads :
                         /\ pc'[u] = "blocked" /\ want[u] = l /\ Runnable(u)'
                         /\ \A w \in ToSet(waiters[l]) : priority'[w] <= priority'[u] \/ Raising(w)'
    BY <1>1 DEF Woken
  <2>1. PICK u \in Threads :
            /\ pc[u] = "blocked" /\ want[u] = l /\ Runnable(u)
            /\ \A w \in ToSet(waiters[l]) : priority[w] <= priority[u]
    BY <1>9 DEF Donation, Woken
  <2>2. \A w \in ToSet(waiters[l]) : w \in Threads
    BY <1>0, Members DEF DonationTypes
  <2>3. \A w \in ToSet(waiters[l]) : priority'[w] <= priority'[u] \/ Raising(w)'
    BY <1>5, <1>9, <2>1, <2>2
  <2> QED  BY <1>6, <1>8, <2>1, <2>3
<1>18. Outranks'
  <2> SUFFICES ASSUME NEW u \in ToSet(ready_list), pc'[u] = "blocked"
               PROVE  priority'[u] <= priority[t]
    BY <1>5, <1>6, <1>7 DEF Outranks
  <2>1. u \in Threads /\ pc[u] = "blocked"
    BY <1>0, <1>6, Members DEF DonationTypes
  <2>2. priority[u] <= priority[t]
    BY <1>1, <2>1 DEF Donation, Outranks, In
  <2> QED  BY <1>4, <1>5, <2>1, <2>2
<1> QED  BY <1>10, <1>11, <1>12, <1>13, <1>14, <1>15, <1>16, <1>17, <1>18 DEF Donation

(* lk = lk->holder->waiting_lock: the loop arrives at the lock the holder is *)
(* blocked on, which has a holder in turn.                                   *)
LEMMA NextDonation ==
    ASSUME PlacesInv, Donation, NEW t \in Threads, DonateNext(t), disturbed' = 0
    PROVE  Donation'
<1> USE DEF threadVars, lockVars, localVars
<1>0. DonationTypes
  BY DonationTypesHold
<1>1. /\ cur = t /\ pc[t] = "next" /\ pc' = [pc EXCEPT ![t] = "test"]
      /\ fetched[t] # NoThread
      /\ lk' = [lk EXCEPT ![t] = waiting_lock[fetched[t]]]
      /\ UNCHANGED <<cur, ready_list, threadVars, lockVars, want, loaded>>
      /\ IF waiting_lock[fetched[t]] # NoLock /\ holder[waiting_lock[fetched[t]]] = NoThread
         THEN Disturb ELSE UNCHANGED disturbed
  BY DEF DonateNext, At, Goto, Fetched
<1>2. PICK h \in Threads : h = fetched[t] /\ h = holder[lk[t]]
  BY <1>0, <1>1 DEF DonationTypes, Donation, Chained, In
<1>3. PICK m : m = waiting_lock[h]
  OBVIOUS
<1>4. m # NoLock => holder[m] # NoThread
  BY <1>0, <1>1, <1>2, <1>3 DEF Disturb, DonationTypes
<1>5. lk'[t] = m
  BY <1>0, <1>1, <1>2, <1>3 DEF DonationTypes
<1>6. Moves(t, "test")
  BY <1>1 DEF Moves, Points, Calling, Donating
<1>7. /\ Alone' /\ Outranks'
      /\ pc'[t] = "test" /\ cur' = t
      /\ \A u \in Threads : pc'[u] = "blocked" => pc[u] = "blocked" /\ u # t
      /\ \A u \in Threads : u # t => pc'[u] = pc[u]
      /\ \A u \in Threads : Runnable(u)' <=> Runnable(u)
  BY <1>1, <1>6, MovePreserves
<1>8. /\ \A l : ~Pending(l)
      /\ \A w : Raising(w) <=> w = h
      /\ \A u, l : Reaching(u, l) <=> u = h /\ priority[u] <= priority[t]
      /\ \A u, l : Reaching(u, l)' <=> m = l /\ priority[u] <= priority[t]
  BY <1>1, <1>2, <1>5, <1>7 DEF Pending, Raising, Reaching, In
<1>9. Chained'
  BY <1>1, <1>4, <1>5, <1>7 DEF Donation, Chained, In, Loop
<1>10. Offered' /\ Took'
  BY <1>1, <1>7 DEF Donation, Offered, Took, In
<1>11. Marked' /\ Lowered'
  BY <1>1, <1>7 DEF Donation, Marked, Lowered
<1>12. Raised'
  BY <1>1, <1>8 DEF Donation, Raised
<1>13. Backed'
  <2> SUFFICES ASSUME NEW u \in Threads, pc[u] = "blocked", holder[want[u]] # NoThread
               PROVE  priority[u] <= max_pri[want[u]] \/ Reaching(u, want[u])'
    BY <1>1, <1>7 DEF Backed
  <2>1. Reaching(u, want[u])' <=> m = want[u] /\ priority[u] <= priority[t]
    BY <1>1, <1>8
  <2>2. u = h => m = want[u]
    BY <1>3 DEF Donation, Marked
  <2> QED  BY <1>8, <2>1, <2>2 DEF Donation, Backed
<1>14. Woken'
  <2> SUFFICES ASSUME NEW l \in Locks, value[l] = 1, waiters[l] # <<>>
               PROVE  \E u \in Threads :
                         /\ pc'[u] = "blocked" /\ want[u] = l /\ Runnable(u)'
                         /\ \A w \in ToSet(waiters[l]) : priority[w] <= priority[u]
    BY <1>1 DEF Woken
  <2>1. PICK u \in Threads :
            /\ pc[u] = "blocked" /\ want[u] = l /\ Runnable(u)
            /\ \A w \in ToSet(waiters[l]) : priority[w] <= priority[u] \/ w = h
    BY <1>8 DEF Donation, Woken
  <2>2. h \notin ToSet(waiters[l])
    <3> SUFFICES ASSUME h \in ToSet(waiters[l]) PROVE FALSE
      OBVIOUS
    <3>1. pc[h] = "blocked" /\ want[h] = l
      BY DEF PlacesInv, Queues
    <3>2. m = l /\ holder[l] # NoThread
      BY <1>0, <1>3, <1>4, <3>1 DEF Donation, Marked, DonationTypes
    <3>3. holder[l] \in Owners(l)
      BY <1>0, <3>2 DEF DonationTypes, Owners
    <3> QED  BY <3>3 DEF PlacesInv, LockInv, LockExclusive
  <2>3. pc'[u] = "blocked"
    BY <1>1, <1>7, <2>1
  <2> QED  BY <1>7, <2>1, <2>2, <2>3
<1> QED  BY <1>7, <1>9, <1>10, <1>11, <1>12, <1>13, <1>14 DEF Donation

(* sema_down finds the semaphore up: nobody who wants the lock has a higher *)
(* priority than the thread that takes it.                                  *)
LEMMA DownDonation ==
    ASSUME PlacesInv, Placed, Donation, NEW t \in Threads, SemaDown(t)
    PROVE  Donation'
<1> USE DEF threadVars, lockVars, localVars
<1>0. DonationTypes
  BY DonationTypesHold
<1>1. /\ cur = t /\ pc[t] \in {"down", "blocked"} /\ pc' = [pc EXCEPT ![t] = "took"]
      /\ value[want[t]] > 0 /\ value' = [value EXCEPT ![want[t]] = value[want[t]] - 1]
      /\ UNCHANGED <<cur, ready_list, threadVars, holder, max_pri, waiters, localVars>>
  BY DEF SemaDown, Goto
<1>2. PICK l \in Locks : l = want[t]
  BY <1>1 DEF PlacesInv, LockInv, CallHasLock, Calling
<1>3. value[l] = 1 /\ \A m \in Locks : value'[m] = IF m = l THEN 0 ELSE value[m]
  <2>1. value[l] = 1
    BY <1>0, <1>1, <1>2 DEF DonationTypes
  <2>2. value[l] - 1 = 0
    BY <2>1
  <2> QED  BY <1>0, <1>1, <1>2, <2>1, <2>2 DEF DonationTypes
<1>4. Moves(t, "took")
  BY <1>1 DEF Moves, Points, Calling
<1>5. /\ Alone' /\ Outranks'
      /\ pc'[t] = "took" /\ cur' = t
      /\ \A u \in Threads : pc'[u] = "blocked" => pc[u] = "blocked" /\ u # t
      /\ \A u \in Threads : u # t => pc'[u] = pc[u]
  BY <1>1, <1>4, MovePreserves
<1>6. Settled
  <2>1. ~In(Loop)
    BY <1>1 DEF In, Loop
  <2> QED  BY <2>1, SettledOutsideLoop
<1>7. Settled'
  <2>1. \A u \in Threads : pc'[u] = "blocked" =>
               /\ pc[u] = "blocked" /\ want'[u] = want[u]
               /\ holder'[want[u]] # NoThread => holder[want[u]] # NoThread
    BY <1>1, <1>5
  <2>2. \A m \in Locks : value'[m] = 1 =>
               /\ value[m] = 1
               /\ \A u \in Threads : pc[u] = "blocked" /\ want[u] = m =>
                     pc'[u] = "blocked" /\ want'[u] = m
    BY <1>1, <1>2, <1>3, <1>5
  <2> QED  BY <1>0, <1>1, <1>6, <2>1, <2>2, SettledStays
<1>8. Took'
  <2> SUFFICES ASSUME NEW u \in Threads, u # t, pc[u] = "blocked", want[u] = l
               PROVE  priority[u] <= priority[t]
    BY <1>1, <1>2, <1>5 DEF Took
  <2>1. \A v \in Threads : v \in ToSet(ready_list) /\ pc[v] = "blocked" =>
           priority[v] <= priority[t]
    BY <1>1 DEF Donation, Outranks, In
  <2>2. \A v \in Threads : priority[v] \in Nat
    BY <1>0 DEF DonationTypes
  <2>3. \A v \in Threads : Runnable(v) /\ pc[v] = "blocked" => priority[v] <= priority[t]
    BY <1>1, <2>1, <2>2 DEF Runnable
  <2>4. CASE u \in ToSet(waiters[l])
    <3>1. waiters[l] # <<>>
      BY <2>4 DEF ToSet
    <3>2. PICK v \in Threads :
              /\ pc[v] = "blocked" /\ want[v] = l /\ Runnable(v)
              /\ \A w \in ToSet(waiters[l]) : priority[w] <= priority[v]
      BY <1>3, <1>6, <3>1 DEF Settled
    <3> QED  BY <2>2, <2>3, <2>4, <3>2
  <2>5. CASE Runnable(u)
    BY <2>3, <2>5
  <2> QED  BY <2>4, <2>5 DEF Placed
<1>9. Chained'
  BY <1>5 DEF Chained, In, Loop
<1>10. Offered'
  BY <1>5 DEF Offered, In
<1>11. Marked' /\ Lowered'
  BY <1>1, <1>5 DEF Donation, Marked, Lowered
<1>12. Raised' /\ Backed' /\ Woken'
  BY <1>7, SettledIsEnough, PTL
<1> QED  BY <1>5, <1>8, <1>9, <1>10, <1>11, <1>12 DEF Donation

(* sema_down blocks, in lock_acquire: the semaphore has a holder, to whom the *)
(* thread has offered its priority.                                           *)
LEMMA BlockDonation ==
    ASSUME PlacesInv, Donation, NEW t \in Threads, SemaBlock(t)
    PROVE  Donation'
<1> USE DEF threadVars, lockVars, localVars
<1>0. DonationTypes
  BY DonationTypesHold
<1>1. /\ cur = t /\ pc[t] \in {"down", "blocked"} /\ pc' = [pc EXCEPT ![t] = "blocked"]
      /\ value[want[t]] = 0 /\ Schedule(ready_list)
      /\ waiters' = [waiters EXCEPT ![want[t]] = InsertOrdered(waiters[want[t]], t, priority)]
      /\ UNCHANGED <<threadVars, holder, max_pri, value, localVars>>
  BY DEF SemaBlock, Goto
<1>2. PICK l \in Locks : l = want[t]
  BY <1>1 DEF PlacesInv, LockInv, CallHasLock, Calling
<1>3. holder[l] # NoThread
  <2>0. value[l] # 1
    BY <1>1, <1>2
  <2>1. Owners(l) # {}
    BY <2>0 DEF PlacesInv, LockInv, LockExclusive
  <2>2. PICK o \in Threads : o \in Owners(l)
    BY <2>1 DEF Owners
  <2>3. pc[o] \notin {"took", "remove", "up"}
    BY <1>1 DEF Donation, Alone, Calling
  <2> QED  BY <1>0, <2>2, <2>3 DEF Owners, DonationTypes
<1>4. Settled
  <2>1. ~In(Loop)
    BY <1>1 DEF In, Loop
  <2> QED  BY <2>1, SettledOutsideLoop
<1>5. waiting_lock[t] = l /\ priority[t] <= max_pri[l]
  <2>1. CASE pc[t] = "down"
    BY <1>1, <1>2, <1>3, <2>1 DEF Donation, Offered, In
  <2>2. CASE pc[t] = "blocked"
    BY <1>2, <1>3, <1>4, <2>2 DEF Donation, Marked, Settled
  <2> QED  BY <1>1, <2>1, <2>2
<1>6. \A u \in Threads : u # t => pc'[u] = pc[u]
  BY <1>0, <1>1 DEF DonationTypes
<1>7. Quiet'
  BY <1>0, <1>1 DEF Donation, Alone, Quiet, DonationTypes
<1>8. Outranks'
  BY <1>0, <1>1, HeadLeads DEF Outranks, DonationTypes
<1>9. \A u \in Threads : Runnable(u) /\ u # t => Runnable(u)'
  <2>1. \A u \in Threads : u \in ToSet(ready_list) <=> u = cur' \/ u \in ToSet(ready_list')
    BY <1>0, <1>1, Scheduled DEF DonationTypes
  <2> QED  BY <1>1, <2>1 DEF Runnable
<1>10. Settled'
  <2>1. \A u \in Threads : pc'[u] = "blocked" /\ holder[want[u]] # NoThread =>
           priority[u] <= max_pri[want[u]]
    BY <1>2, <1>4, <1>5, <1>6 DEF Settled
  <2>2. ASSUME NEW m \in Locks, value[m] = 1, waiters'[m] # <<>>
        PROVE  \E u \in Threads :
                  /\ pc'[u] = "blocked" /\ want[u] = m /\ Runnable(u)'
                  /\ \A w \in ToSet(waiters'[m]) : priority[w] <= priority[u]
    <3>1. m # l /\ waiters'[m] = waiters[m]
      BY <1>0, <1>1, <1>2, <2>2 DEF DonationTypes
    <3>2. PICK u \in Threads :
              /\ pc[u] = "blocked" /\ want[u] = m /\ Runnable(u)
              /\ \A w \in ToSet(waiters[m]) : priority[w] <= priority[u]
      BY <1>4, <2>2, <3>1 DEF Settled
    <3>3. u # t
      BY <1>2, <3>1, <3>2
    <3> QED  BY <1>6, <1>9, <3>1, <3>2, <3>3
  <2>3. \A u \in Threads : /\ original_pri[u] <= priority[u]
                           /\ \A m \in holding_locks[u] : max_pri[m] <= priority[u]
    BY <1>4 DEF Settled
  <2> QED  BY <1>1, <2>1, <2>2, <2>3 DEF Settled
<1>11. Marked'
  BY <1>1, <1>2, <1>5, <1>6 DEF Donation, Marked
<1>12. Lowered'
  BY <1>1 DEF Donation, Lowered
<1>13. Alone' /\ Chained' /\ Offered' /\ Took'
  BY <1>7, NothingUnderWay, PTL
<1>14. Raised' /\ Backed' /\ Woken'
  BY <1>10, SettledIsEnough, PTL
<1> QED  BY <1>8, <1>11, <1>12, <1>13, <1>14 DEF Donation

(* The new holder: its priority covers all who wait, as max_pri now says. *)
LEMMA GetDonation ==
    ASSUME PlacesInv, Donation, NEW t \in Threads, GetLock(t)
    PROVE  Donation'
<1> USE DEF threadVars, lockVars, localVars
<1>0. DonationTypes
  BY DonationTypesHold
<1>1. PICK l \in Locks : l = want[t]
  BY DEF GetLock, At, PlacesInv, LockInv, CallHasLock, Calling
<1>2. /\ cur = t /\ pc[t] = "took" /\ pc' = [pc EXCEPT ![t] = "run"]
      /\ waiting_lock' = [waiting_lock EXCEPT ![t] = NoLock]
      /\ max_pri' = [max_pri EXCEPT ![l] = priority[t]]
      /\ holding_locks' = [holding_locks EXCEPT ![t] = @ \cup {l}]
      /\ holder' = [holder EXCEPT ![l] = t]
      /\ want' = [want EXCEPT ![t] = NoLock]
      /\ UNCHANGED <<cur, ready_list, priority, original_pri, value, waiters>>
  BY <1>1 DEF GetLock, At, Goto
<1>3. Moves(t, "run")
  BY <1>2 DEF Moves, Points, Calling, Donating
<1>4. /\ Alone' /\ Outranks'
      /\ pc'[t] = "run" /\ cur' = t
      /\ \A u \in Threads : pc'[u] = "blocked" => pc[u] = "blocked" /\ u # t
      /\ \A u \in Threads : u # t => pc'[u] = pc[u]
      /\ \A u \in Threads : Runnable(u)' <=> Runnable(u)
  BY <1>2, <1>3, MovePreserves
<1>5. Settled
  <2>1. ~In(Loop)
    BY <1>2 DEF In, Loop
  <2> QED  BY <2>1, SettledOutsideLoop
<1>6. /\ \A m \in Locks : max_pri'[m] = IF m = l THEN priority[t] ELSE max_pri[m]
      /\ \A m \in Locks : holder'[m] = IF m = l THEN t ELSE holder[m]
      /\ \A u \in Threads : holding_locks'[u] = IF u = t THEN holding_locks[t] \cup {l}
                                                ELSE holding_locks[u]
      /\ \A u \in Threads : u # t => want'[u] = want[u] /\ waiting_lock'[u] = waiting_lock[u]
  BY <1>0, <1>2 DEF DonationTypes
<1>7. \A u \in Threads : l \notin holding_locks[u]
  <2>1. holder[l] = NoThread
    BY <1>1, <1>2 DEF PlacesInv, LockInv, WindowHasNoHolder
  <2>2. \A u \in Threads : pc[u] # "remove"
    BY <1>2 DEF Donation, Alone, Calling
  <2> QED  BY <1>0, <2>1, <2>2 DEF PlacesInv, LockInv, HoldingIsHeld, DonationTypes
<1>8. \A u \in Threads : holding_locks[u] \subseteq Locks /\ priority[u] \in Nat
  BY <1>0 DEF DonationTypes
<1>9. Settled'
  <2>1. \A u \in Threads : /\ original_pri[u] <= priority[u]
                           /\ \A m \in holding_locks'[u] : max_pri'[m] <= priority[u]
    BY <1>5, <1>6, <1>7, <1>8 DEF Settled
  <2>2. ASSUME NEW u \in Threads, pc'[u] = "blocked", holder'[want'[u]] # NoThread
        PROVE  priority[u] <= max_pri'[want'[u]]
    <3>1. u # t /\ pc[u] = "blocked" /\ want'[u] = want[u] /\ want[u] \in Locks
      BY <1>4, <1>6, <2>2 DEF PlacesInv, LockInv, CallHasLock, Calling
    <3>2. CASE want[u] = l
      <4>1. priority[u] <= priority[t]
        BY <1>1, <1>2, <3>1, <3>2 DEF Donation, Took, In
      <4> QED  BY <1>6, <3>1, <3>2, <4>1
    <3>3. CASE want[u] # l
      BY <1>5, <1>6, <2>2, <3>1, <3>3 DEF Settled
    <3> QED  BY <3>2, <3>3
  <2>3. \A m \in Locks : value[m] = 1 /\ waiters[m] # <<>> =>
          \E u \in Threads :
              /\ pc'[u] = "blocked" /\ want'[u] = m /\ Runnable(u)'
              /\ \A w \in ToSet(waiters[m]) : priority[w] <= priority[u]
    <3> SUFFICES ASSUME NEW m \in Locks, value[m] = 1, waiters[m] # <<>>
                 PROVE  \E u \in Threads :
                          /\ pc'[u] = "blocked" /\ want'[u] = m /\ Runnable(u)'
                          /\ \A w \in ToSet(waiters[m]) : priority[w] <= priority[u]
      OBVIOUS
    <3>1. PICK u \in Threads :
              /\ pc[u] = "blocked" /\ want[u] = m /\ Runnable(u)
              /\ \A w \in ToSet(waiters[m]) : priority[w] <= priority[u]
      BY <1>5 DEF Settled
    <3>2. u # t
      BY <1>2, <3>1
    <3> QED  BY <1>4, <1>6, <3>1, <3>2
  <2> QED  BY <1>2, <2>1, <2>2, <2>3 DEF Settled
<1>10. Lowered'
  <2> SUFFICES ASSUME NEW u \in Threads
               PROVE  \/ priority[u] = original_pri[u]
                      \/ \E m \in holding_locks'[u] : priority[u] <= max_pri'[m]
    BY <1>2 DEF Lowered
  <2>1. CASE u = t
    <3>1. l \in holding_locks'[u] /\ priority[u] <= max_pri'[l]
      BY <1>6, <1>8, <2>1
    <3> QED  BY <3>1
  <2>2. CASE u # t
    <3>1. \A m \in holding_locks[u] : max_pri'[m] = max_pri[m]
      BY <1>6, <1>7, <1>8
    <3> QED  BY <1>6, <2>2, <3>1 DEF Donation, Lowered
  <2> QED  BY <2>1, <2>2
<1>11. Marked'
  BY <1>4, <1>6 DEF Donation, Marked
<1>12. Chained' /\ Offered' /\ Took'
  BY <1>4 DEF Chained, Offered, Took, In, Loop
<1>13. Raised' /\ Backed' /\ Woken'
  BY <1>9, SettledIsEnough, PTL
<1> QED  BY <1>4, <1>10, <1>11, <1>12, <1>13 DEF Donation

(* lock_release clears the holder; offers stay until the lock is removed. *)
LEMMA ReleaseDonation ==
    ASSUME PlacesInv, Donation, NEW t \in Threads, LockRelease(t)
    PROVE  Donation'
<1> USE DEF threadVars, lockVars, localVars
<1>0. DonationTypes
  BY DonationTypesHold
<1>1. PICK l \in Locks : /\ holder' = [holder EXCEPT ![l] = NoThread]
                         /\ want' = [want EXCEPT ![t] = l]
  BY DEF LockRelease
<1>2. /\ cur = t /\ pc[t] = "run" /\ pc' = [pc EXCEPT ![t] = "remove"]
      /\ UNCHANGED <<cur, ready_list, threadVars, max_pri, value, waiters>>
  BY DEF LockRelease, At, Goto
<1>3. Moves(t, "remove")
  BY <1>2 DEF Moves, Points, Calling, Donating
<1>4. /\ Alone' /\ Outranks'
      /\ pc'[t] = "remove" /\ cur' = t
      /\ \A u \in Threads : pc'[u] = "blocked" => pc[u] = "blocked" /\ u # t
      /\ \A u \in Threads : u # t => pc'[u] = pc[u]
  BY <1>2, <1>3, MovePreserves
<1>5. /\ \A u \in Threads : u # t => want'[u] = want[u]
      /\ \A m \in Locks : holder'[m] # NoThread => holder[m] # NoThread
  BY <1>0, <1>1 DEF DonationTypes
<1>6. Settled'
  <2>1. ~In(Loop)
    BY <1>2 DEF In, Loop
  <2>2. Settled
    BY <2>1, SettledOutsideLoop
  <2>3. \A u \in Threads : pc[u] = "blocked" => want[u] \in Locks
    BY DEF PlacesInv, LockInv, CallHasLock, Calling
  <2>4. \A u \in Threads : pc'[u] = "blocked" =>
               /\ pc[u] = "blocked" /\ want'[u] = want[u]
               /\ holder'[want[u]] # NoThread => holder[want[u]] # NoThread
    BY <1>4, <1>5, <2>3
  <2>5. \A m \in Locks : value'[m] = 1 =>
               /\ value[m] = 1
               /\ \A u \in Threads : pc[u] = "blocked" /\ want[u] = m =>
                     pc'[u] = "blocked" /\ want'[u] = m
    BY <1>2, <1>4, <1>5
  <2> QED  BY <1>0, <1>2, <2>2, <2>4, <2>5, SettledStays
<1>7. Marked' /\ Lowered'
  BY <1>2, <1>4, <1>5 DEF Donation, Marked, Lowered
<1>8. Chained' /\ Offered' /\ Took'
  BY <1>4 DEF Chained, Offered, Took, In, Loop
<1>9. Raised' /\ Backed' /\ Woken'
  BY <1>6, SettledIsEnough, PTL
<1> QED  BY <1>4, <1>7, <1>8, <1>9 DEF Donation

(* thread_remove_lock: the priority becomes what the remaining locks justify. *)
LEMMA RemoveDonation ==
    ASSUME PlacesInv, Donation, NEW t \in Threads, RemoveLock(t)
    PROVE  Donation'
<1> USE DEF threadVars, lockVars, localVars
<1>0. DonationTypes
  BY DonationTypesHold
<1>1. /\ cur = t /\ pc[t] = "remove" /\ pc' = [pc EXCEPT ![t] = "up"]
      /\ holding_locks' = [holding_locks EXCEPT ![t] = @ \ {want[t]}]
      /\ priority' = [priority EXCEPT ![t] = UpdatedPri(t, holding_locks'[t])]
      /\ UNCHANGED <<cur, ready_list, original_pri, waiting_lock, lockVars, localVars>>
  BY DEF RemoveLock, At, Goto
<1>2. PICK held \in SUBSET Locks : held = holding_locks'[t] /\ IsFiniteSet(held)
  <2>1. holding_locks'[t] = holding_locks[t] \ {want[t]}
    BY <1>0, <1>1 DEF DonationTypes
  <2>2. IsFiniteSet(holding_locks[t] \ {want[t]})
    BY FS_RemoveElement DEF PlacesInv, DonationTyped
  <2>3. holding_locks[t] \ {want[t]} \in SUBSET Locks
    BY <1>0 DEF DonationTypes
  <2> QED  BY <2>1, <2>2, <2>3
<1>3. PICK new : new = UpdatedPri(t, held)
  OBVIOUS
<1>4. /\ new \in Nat /\ new >= original_pri[t]
      /\ \A l \in held : new >= max_pri[l]
      /\ new = original_pri[t] \/ \E l \in held : new = max_pri[l]
  BY <1>2, <1>3, UpdatedPriIsMax DEF PlacesInv, LockInv
<1>5. /\ priority'[t] = new
      /\ \A u \in Threads : u # t => /\ priority'[u] = priority[u] /\ pc'[u] = pc[u]
                                     /\ holding_locks'[u] = holding_locks[u]
      /\ pc'[t] = "up" /\ cur' = t
  BY <1>0, <1>1, <1>2, <1>3 DEF DonationTypes
<1>6. Settled
  <2>1. ~In(Loop)
    BY <1>1 DEF In, Loop
  <2> QED  BY <2>1, SettledOutsideLoop
<1>7. original_pri[t] \in Nat /\ \A l \in held : max_pri[l] \in Nat
  BY <1>0 DEF DonationTypes
<1>8. Settled'
  <2>1. ASSUME NEW u \in Threads
        PROVE  /\ original_pri[u] <= priority'[u]
               /\ \A l \in holding_locks'[u] : max_pri[l] <= priority'[u]
    <3>1. CASE u = t
      BY <1>2, <1>4, <1>5, <1>7, <3>1
    <3>2. CASE u # t
      BY <1>5, <1>6, <3>2 DEF Settled
    <3> QED  BY <3>1, <3>2
  <2>2. \A u \in Threads : pc'[u] = "blocked" /\ holder[want[u]] # NoThread =>
           priority'[u] <= max_pri[want[u]]
    BY <1>5, <1>6 DEF Settled
  <2>3. ASSUME NEW l \in Locks, value[l] = 1, waiters[l] # <<>>
        PROVE  \E u \in Threads :
                  /\ pc'[u] = "blocked" /\ want[u] = l /\ Runnable(u)'
                  /\ \A w \in ToSet(waiters[l]) : priority'[w] <= priority'[u]
    <3>1. PICK u \in Threads :
              /\ pc[u] = "blocked" /\ want[u] = l /\ Runnable(u)
              /\ \A w \in ToSet(waiters[l]) : priority[w] <= priority[u]
      BY <1>6, <2>3 DEF Settled
    <3>2. \A w \in ToSet(waiters[l]) : w \in Threads /\ w # t
      BY <1>0, <1>1, Members DEF DonationTypes, PlacesInv, Queues
    <3>3. u # t /\ Runnable(u)'
      BY <1>1, <3>1 DEF Runnable
    <3> QED  BY <1>5, <3>1, <3>2, <3>3
  <2> QED  BY <1>1, <2>1, <2>2, <2>3 DEF Settled
<1>9. Lowered'
  <2> SUFFICES ASSUME NEW u \in Threads
               PROVE  \/ priority'[u] = original_pri[u]
                      \/ \E l \in holding_locks'[u] : priority'[u] <= max_pri[l]
    BY <1>1 DEF Lowered
  <2>1. CASE u = t
    BY <1>2, <1>4, <1>5, <1>7, <2>1
  <2>2. CASE u # t
    BY <1>5, <2>2 DEF Donation, Lowered
  <2> QED  BY <2>1, <2>2
<1>10. Alone' /\ Marked'
  BY <1>1, <1>5 DEF Donation, Alone, Marked
<1>11. Chained' /\ Offered' /\ Took'
  BY <1>5 DEF Chained, Offered, Took, In, Loop
<1>12. Outranks'
  BY <1>5 DEF Outranks, In
<1>13. Raised' /\ Backed' /\ Woken'
  BY <1>8, SettledIsEnough, PTL
<1> QED  BY <1>9, <1>10, <1>11, <1>12, <1>13 DEF Donation

(* sema_up: who becomes ready, who waits on, and who runs next. *)
LEMMA UpWakes ==
    ASSUME PlacesInv, NEW t \in Threads, SemaUp(t)
    PROVE  /\ \A u \in ToSet(ready_list') : cur' \in Threads /\ priority[u] <= priority[cur']
           /\ \A u \in Threads : Runnable(u) => Runnable(u)'
           /\ \A l \in Locks : \A u \in ToSet(waiters[l]) :
                 u \in ToSet(waiters'[l]) \/ Runnable(u)'
           /\ \A l \in Locks : l # want[t] => waiters'[l] = waiters[l]
           /\ waiters'[want[t]] # <<>> =>
                 \E w \in ToSet(waiters[want[t]]) :
                     /\ Runnable(w)'
                     /\ \A u \in ToSet(waiters'[want[t]]) :
                           u \in ToSet(waiters[want[t]]) /\ priority[u] <= priority[w]
<1> USE DEF PlacesInv
<1>0. DonationTypes
  BY DonationTypesHold
<1>1. cur = t /\ want[t] \in Locks
  BY DEF SemaUp, At, LockInv, CallHasLock, Calling
<1>a. PICK l \in Locks : l = want[t]
  BY <1>1
<1>2. CASE Sorted(waiters[l]) = <<>>
  <2>1. Yield(t, ready_list, priority) /\ UNCHANGED waiters
    BY <1>2, <1>a DEF SemaUp
  <2>2. waiters[l] = <<>>
    <3>1. Len(Sorted(waiters[l])) = Len(waiters[l])
      BY <1>0, <1>1, SortedList DEF DonationTypes
    <3> QED  BY <1>0, <1>1, <1>2, <3>1, EmptySeq DEF DonationTypes
  <2>3. \A u \in ToSet(ready_list') : cur' \in Threads /\ priority[u] <= priority[cur']
    BY <1>0, <2>1, YieldLeads DEF DonationTypes
  <2>4. \A u \in Threads : u \in ToSet(ready_list) \cup {t} <=> u = cur' \/ u \in ToSet(ready_list')
    BY <1>0, <1>1, <2>1, Yielded DEF DonationTypes
  <2>5. \A u \in Threads : Runnable(u) => Runnable(u)'
    BY <1>1, <2>4 DEF Runnable
  <2> QED  BY <1>a, <2>1, <2>2, <2>3, <2>5
<1>3. CASE Sorted(waiters[l]) # <<>>
  <2>0. PICK w, rest, list : /\ w = Head(Sorted(waiters[l])) /\ rest = Tail(Sorted(waiters[l]))
                             /\ list = InsertOrdered(ready_list, w, priority)
    OBVIOUS
  <2>1. waiters' = [waiters EXCEPT ![l] = rest] /\ Yield(t, list, priority)
    BY <1>3, <1>a, <2>0 DEF SemaUp
  <2>2. /\ w \in ToSet(waiters[l])
        /\ ToSet(rest) = ToSet(waiters[l]) \ {w}
        /\ \A u \in ToSet(waiters[l]) : priority[w] >= priority[u]
    BY <1>3, <2>0, SortedHead
  <2>3. w \in Threads /\ ~Runnable(w) /\ \A u \in ToSet(waiters[l]) : u \in Threads
    BY <1>0, <1>1, <2>2, Members DEF DonationTypes, Queues
  <2>4. /\ list \in Seq(Threads) /\ Distinct(list)
        /\ ToSet(list) = ToSet(ready_list) \cup {w}
        /\ Descending(list, priority)
    BY <1>0, <2>0, <2>3, Inserted DEF DonationTypes, Runnable
  <2>5. t \notin ToSet(list)
    BY <1>0, <1>1, <2>3, <2>4 DEF DonationTypes, Runnable
  <2>6. \A u \in ToSet(ready_list') : cur' \in Threads /\ priority[u] <= priority[cur']
    BY <1>0, <2>1, <2>4, YieldLeads DEF DonationTypes
  <2>7. \A u \in Threads : u \in ToSet(list) \cup {t} <=> u = cur' \/ u \in ToSet(ready_list')
    BY <1>0, <2>1, <2>4, <2>5, Yielded DEF DonationTypes
  <2>8. \A u \in Threads : Runnable(u)' <=> Runnable(u) \/ u = w
    BY <1>1, <2>4, <2>7 DEF Runnable
  <2>9. waiters'[l] = rest /\ \A m \in Locks : m # l => waiters'[m] = waiters[m]
    BY <1>0, <1>1, <2>1 DEF DonationTypes
  <2>10. \A u \in ToSet(rest) : u \in ToSet(waiters[l]) /\ priority[u] <= priority[w]
    <3>1. \A u \in Threads : priority[u] \in Nat
      BY <1>0 DEF DonationTypes
    <3> QED  BY <2>2, <2>3, <3>1
  <2>11. \A m \in Locks : \A u \in ToSet(waiters[m]) : u \in ToSet(waiters'[m]) \/ Runnable(u)'
    BY <2>2, <2>3, <2>8, <2>9
  <2>12. Runnable(w)'
    BY <2>3, <2>8
  <2> QED  BY <1>a, <2>2, <2>6, <2>8, <2>9, <2>10, <2>11, <2>12
<1> QED  BY <1>2, <1>3

(* sema_up wakes a thread that outranks the others, and yields to a thread *)
(* that outranks the woken one.                                            *)
LEMMA UpDonation ==
    ASSUME PlacesInv, Donation, NEW t \in Threads, SemaUp(t)
    PROVE  Donation'
<1> USE DEF threadVars, lockVars, localVars
<1>0. DonationTypes
  BY DonationTypesHold
<1>1. /\ cur = t /\ pc[t] = "up" /\ pc' = [pc EXCEPT ![t] = "run"]
      /\ want' = [want EXCEPT ![t] = NoLock]
      /\ value' = [value EXCEPT ![want[t]] = value[want[t]] + 1]
      /\ UNCHANGED <<threadVars, holder, max_pri>>
  BY DEF SemaUp, At, Goto
<1>2. PICK l \in Locks : l = want[t]
  BY <1>1 DEF PlacesInv, LockInv, CallHasLock, Calling
<1>3. /\ \A u \in ToSet(ready_list') : cur' \in Threads /\ priority[u] <= priority[cur']
      /\ \A u \in Threads : Runnable(u) => Runnable(u)'
      /\ \A m \in Locks : m # l => waiters'[m] = waiters[m]
      /\ waiters'[l] # <<>> =>
            \E w \in ToSet(waiters[l]) :
                /\ Runnable(w)'
                /\ \A u \in ToSet(waiters'[l]) :
                      u \in ToSet(waiters[l]) /\ priority[u] <= priority[w]
  BY <1>2, UpWakes
<1>4. \A u \in Threads : u # t => pc'[u] = pc[u] /\ want'[u] = want[u]
  BY <1>0, <1>1 DEF DonationTypes
<1>5. pc'[t] = "run"
  BY <1>0, <1>1 DEF DonationTypes
<1>6. Quiet'
  BY <1>1, <1>4, <1>5 DEF Donation, Alone, Quiet, Calling, Donating
<1>7. Settled
  <2>1. ~In(Loop)
    BY <1>1 DEF In, Loop
  <2> QED  BY <2>1, SettledOutsideLoop
<1>8. \A m \in Locks : m # l => value'[m] = value[m]
  BY <1>0, <1>1, <1>2 DEF DonationTypes
<1>9. Settled'
  <2>1. \A u \in Threads : pc'[u] = "blocked" /\ holder[want'[u]] # NoThread =>
           priority[u] <= max_pri[want'[u]]
    BY <1>4, <1>5, <1>7 DEF Settled
  <2>2. ASSUME NEW m \in Locks, value'[m] = 1, waiters'[m] # <<>>
        PROVE  \E u \in Threads :
                  /\ pc'[u] = "blocked" /\ want'[u] = m /\ Runnable(u)'
                  /\ \A w \in ToSet(waiters'[m]) : priority[w] <= priority[u]
    <3>1. CASE m = l
      <4>1. PICK w \in ToSet(waiters[l]) :
                /\ Runnable(w)'
                /\ \A u \in ToSet(waiters'[l]) : priority[u] <= priority[w]
        BY <1>3, <2>2, <3>1
      <4>2. w \in Threads /\ pc[w] = "blocked" /\ want[w] = l /\ w # t
        BY <1>0, <1>1, Members DEF DonationTypes, PlacesInv, Queues
      <4> QED  BY <1>4, <3>1, <4>1, <4>2
    <3>2. CASE m # l
      <4>1. PICK u \in Threads :
                /\ pc[u] = "blocked" /\ want[u] = m /\ Runnable(u)
                /\ \A w \in ToSet(waiters[m]) : priority[w] <= priority[u]
        BY <1>3, <1>7, <1>8, <2>2, <3>2 DEF Settled
      <4>2. u # t
        BY <1>1, <4>1
      <4> QED  BY <1>3, <1>4, <3>2, <4>1, <4>2
    <3> QED  BY <3>1, <3>2
  <2>3. \A u \in Threads : /\ original_pri[u] <= priority[u]
                           /\ \A m \in holding_locks[u] : max_pri[m] <= priority[u]
    BY <1>7 DEF Settled
  <2> QED  BY <1>1, <2>1, <2>2, <2>3 DEF Settled
<1>10. Outranks'
  BY <1>1, <1>3 DEF Outranks
<1>11. Marked' /\ Lowered'
  BY <1>1, <1>4, <1>5 DEF Donation, Marked, Lowered
<1>12. Alone' /\ Chained' /\ Offered' /\ Took'
  BY <1>6, NothingUnderWay, PTL
<1>13. Raised' /\ Backed' /\ Woken'
  BY <1>9, SettledIsEnough, PTL
<1> QED  BY <1>10, <1>11, <1>12, <1>13 DEF Donation

(* Nobody on the processor or the ready list is lost from both, except into *)
(* sleep, exit or a list of waiters.                                        *)
LEMMA PlacedPreserved ==
    ASSUME PlacesInv, Placed, [Next]_vars
    PROVE  Placed'
<1> USE DEF threadVars, lockVars, localVars
<1>0. DonationTypes
  BY DonationTypesHold
<1>t. priority' \in [Threads -> Nat]
  <2>1. DonationTyped'
    BY DonationTypedPreserved DEF PlacesInv
  <2> QED  BY <2>1, PrioritiesAssumption DEF DonationTyped
<1>a. ASSUME UNCHANGED waiters,
             \A u \in Threads : pc'[u] = "blocked" =>
                /\ pc[u] = "blocked" /\ want'[u] = want[u]
                /\ Runnable(u) => Runnable(u)'
      PROVE  Placed'
  BY <1>a DEF Placed
<1>1. CASE UNCHANGED vars
  BY <1>1, <1>a DEF vars, Runnable
<1>2. CASE IdleBlocks
  <2>1. OthersStay(NoThread) /\ Schedule(ready_list) /\ cur = NoThread
        /\ UNCHANGED <<waiters, pc, want>>
    BY <1>2 DEF IdleBlocks, OthersStay
  <2>2. \A u \in Threads : Runnable(u)' <=> (Runnable(u) /\ u # NoThread)
    BY <2>1, CurLeaves
  <2> QED  BY <1>a, <2>1, <2>2, NoThreadAssumption
<1>3. ASSUME NEW t \in Threads, Step(t)
      PROVE  Placed'
  <2>1. CASE \/ LockAcquire(t) \/ MarkWaiting(t) \/ DonateTest(t) \/ DonateStore(t)
             \/ FetchHolder(t) \/ DonateNext(t) \/ DonateAstray(t) \/ SemaDown(t)
             \/ GetLock(t) \/ LockRelease(t) \/ RemoveLock(t)
    <3>1. /\ UNCHANGED <<cur, ready_list, waiters>>
          /\ \/ want' = want
             \/ pc[t] # "blocked" /\ \E l : want' = [want EXCEPT ![t] = l]
          /\ \/ \E point \in Points \ {"blocked"} : pc' = [pc EXCEPT ![t] = point]
             \/ pc' = pc
      BY <2>1 DEF LockAcquire, MarkWaiting, DonateTest, DonateStore, FetchHolder, DonateNext,
                  DonateAstray, SemaDown, GetLock, LockRelease, RemoveLock, At, Goto, Points,
                  Calling, Donating
    <3>2. \A u \in Threads : pc'[u] = "blocked" => pc[u] = "blocked"
      BY <1>0, <3>1 DEF DonationTypes
    <3>3. \A u \in Threads : pc[u] = "blocked" => want'[u] = want[u]
      BY <1>0, <3>1 DEF DonationTypes
    <3> QED  BY <1>a, <3>1, <3>2, <3>3 DEF Runnable
  <2>2. CASE DonatePri(t)
    <3>1. /\ pc[t] = "donate" /\ pc' = [pc EXCEPT ![t] = "follow"]
          /\ UNCHANGED <<cur, waiters, want>>
      BY <2>2 DEF DonatePri, At, Goto
    <3>2. ToSet(ready_list') = ToSet(ready_list)
      BY <1>t, <2>2, DonateKeepsReady
    <3> QED  BY <1>0, <1>a, <3>1, <3>2 DEF Runnable, DonationTypes
  <2>3. CASE SemaBlock(t)
    <3>1. PICK l \in Locks : l = want[t]
      BY <2>3 DEF SemaBlock, PlacesInv, LockInv, CallHasLock, Calling
    <3>2. /\ cur = t /\ pc' = [pc EXCEPT ![t] = "blocked"] /\ Schedule(ready_list)
          /\ waiters' = [waiters EXCEPT ![l] = InsertOrdered(waiters[l], t, priority)]
          /\ UNCHANGED <<priority, want>>
      BY <2>3, <3>1 DEF SemaBlock, Goto
    <3>3. OthersStay(t)
      BY <1>0, <3>2 DEF OthersStay, DonationTypes
    <3>4. \A u \in Threads : Runnable(u)' <=> (Runnable(u) /\ u # t)
      BY <3>2, <3>3, CurLeaves
    <3>5. ToSet(InsertOrdered(waiters[l], t, priority)) = ToSet(waiters[l]) \cup {t}
      BY <1>0, Inserted DEF DonationTypes
    <3>6. \A m \in Locks : ToSet(waiters[m]) \subseteq ToSet(waiters'[m])
      BY <1>0, <3>2, <3>5 DEF DonationTypes
    <3>7. t \in ToSet(waiters'[l])
      BY <1>0, <3>2, <3>5 DEF DonationTypes
    <3>8. \A u \in Threads : pc'[u] = "blocked" /\ u # t =>
             u \in ToSet(waiters'[want[u]]) \/ Runnable(u)'
      <4>1. \A u \in Threads : pc[u] = "blocked" => want[u] \in Locks
        BY DEF PlacesInv, LockInv, CallHasLock, Calling
      <4> QED  BY <1>0, <3>2, <3>4, <3>6, <4>1 DEF Placed, DonationTypes
    <3> QED  BY <3>1, <3>2, <3>7, <3>8 DEF Placed
  <2>4. CASE SemaUp(t)
    <3>1. /\ \A u \in Threads : Runnable(u) => Runnable(u)'
          /\ \A l \in Locks : \A u \in ToSet(waiters[l]) :
                u \in ToSet(waiters'[l]) \/ Runnable(u)'
      BY <2>4, UpWakes
    <3>2. pc[t] = "up" /\ pc' = [pc EXCEPT ![t] = "run"] /\ want' = [want EXCEPT ![t] = NoLock]
      BY <2>4 DEF SemaUp, At, Goto
    <3>3. \A u \in Threads : pc'[u] = "blocked" => /\ pc[u] = "blocked" /\ want'[u] = want[u]
                                                   /\ want[u] \in Locks
      BY <1>0, <3>2 DEF DonationTypes, PlacesInv, LockInv, CallHasLock, Calling
    <3> QED  BY <3>1, <3>3 DEF Placed
  <2>5. CASE ThreadCreate(t)
    <3>1. PICK v \in Threads, p \in Priorities :
            /\ pc[v] = "unborn" /\ pc' = [pc EXCEPT ![v] = "run"]
            /\ priority' = [priority EXCEPT ![v] = p]
            /\ LET list == InsertOrdered(ready_list, v, priority') IN
               IF priority[t] < p THEN Yield(t, list, priority')
               ELSE cur' = cur /\ ready_list' = list
      BY <2>5 DEF ThreadCreate, Goto
    <3>2. cur = t /\ pc[t] = "run" /\ UNCHANGED <<waiters, want>>
      BY <2>5 DEF ThreadCreate, At
    <3> DEFINE list == InsertOrdered(ready_list, v, priority')
    <3>3. ~Runnable(v) /\ OthersStay(v) /\ v # t
      BY <1>0, <3>1, <3>2 DEF DonationTypes, PlacesInv, Queues, OthersStay
    <3>4. /\ list \in Seq(Threads) /\ Distinct(list)
          /\ ToSet(list) = ToSet(ready_list) \cup {v}
          /\ cur \notin ToSet(list)
      BY <1>t, <3>3, BecomesReady
    <3>5. Yield(t, list, priority') \/ (cur' = cur /\ ready_list' = list)
      BY <3>1
    <3> HIDE DEF list
    <3>6. \A u \in Threads : Runnable(u) => Runnable(u)'
      <4>1. CASE Yield(t, list, priority')
        <5>1. \A u \in Threads : u \in ToSet(list) \cup {t}
                                   <=> u = cur' \/ u \in ToSet(ready_list')
          BY <1>t, <3>2, <3>4, <4>1, Yielded
        <5> QED  BY <3>2, <3>4, <5>1 DEF Runnable
      <4>2. CASE cur' = cur /\ ready_list' = list
        BY <3>4, <4>2 DEF Runnable
      <4> QED  BY <3>5, <4>1, <4>2
    <3>7. \A u \in Threads : pc'[u] = "blocked" => pc[u] = "blocked"
      BY <1>0, <3>1 DEF DonationTypes
    <3> QED  BY <1>a, <3>2, <3>6, <3>7
  <2>6. CASE ThreadExit(t) \/ TimerSleep(t)
    <3>1. /\ cur = t /\ UNCHANGED <<want, waiters>> /\ Schedule(ready_list)
          /\ \E point \in {"dead", "sleep"} : pc' = [pc EXCEPT ![t] = point]
          /\ priority' = priority \/ \E p : priority' = [priority EXCEPT ![t] = p]
      BY <2>6 DEF ThreadExit, TimerSleep, At, Goto
    <3>2. OthersStay(t) /\ pc'[t] # "blocked"
      BY <1>0, <3>1 DEF OthersStay, DonationTypes
    <3>3. \A u \in Threads : Runnable(u)' <=> (Runnable(u) /\ u # t)
      BY <3>1, <3>2, CurLeaves
    <3> QED  BY <1>a, <3>1, <3>2, <3>3 DEF OthersStay
  <2>7. CASE SetPriority(t) \/ Preempt(t)
    <3>1. /\ cur = t /\ UNCHANGED <<pc, want, waiters>>
          /\ \/ Yield(t, ready_list, priority')
             \/ UNCHANGED <<cur, ready_list>>
      BY <2>7 DEF SetPriority, Preempt, At
    <3>2. CASE Yield(t, ready_list, priority')
      <4>1. \A u \in Threads : u \in ToSet(ready_list) \cup {t}
                                 <=> u = cur' \/ u \in ToSet(ready_list')
        BY <1>0, <1>t, <3>1, <3>2, Yielded DEF DonationTypes
      <4> QED  BY <1>a, <3>1, <4>1 DEF Runnable
    <3>3. CASE UNCHANGED <<cur, ready_list>>
      BY <1>a, <3>1, <3>3 DEF Runnable
    <3> QED  BY <3>1, <3>2, <3>3
  <2>8. CASE Wake(t)
    <3>1. /\ pc[t] = "sleep" /\ pc' = [pc EXCEPT ![t] = "run"]
          /\ ready_list' = InsertOrdered(ready_list, t, priority)
          /\ UNCHANGED <<cur, want, waiters>>
      BY <2>8 DEF Wake, Goto
    <3>2. ToSet(InsertOrdered(ready_list, t, priority)) = ToSet(ready_list) \cup {t}
      BY <1>0, Inserted DEF DonationTypes
    <3> QED  BY <1>0, <1>a, <3>1, <3>2 DEF Runnable, DonationTypes
  <2> QED  BY <1>3, <2>1, <2>2, <2>3, <2>4, <2>5, <2>6, <2>7, <2>8 DEF Step
<1> QED  BY <1>1, <1>2, <1>3 DEF Next

(* Only a thread in lock_acquire gets a lock, and nobody becomes unborn. *)
LEMMA UnbornPreserved ==
    ASSUME PlacesInv, UnbornHoldNothing, [Next]_vars
    PROVE  UnbornHoldNothing'
<1> USE DEF threadVars, lockVars, localVars
<1>0. DonationTypes
  BY DonationTypesHold
<1> SUFFICES ASSUME NEW u \in Threads, pc'[u] = "unborn" PROVE holding_locks'[u] = {}
  BY DEF UnbornHoldNothing
<1>1. CASE UNCHANGED vars \/ IdleBlocks
  BY <1>1 DEF vars, IdleBlocks, UnbornHoldNothing
<1>2. ASSUME NEW t \in Threads, Step(t)
      PROVE  holding_locks'[u] = {}
  <2>1. CASE GetLock(t)
    BY <1>0, <2>1 DEF GetLock, Goto, UnbornHoldNothing, DonationTypes
  <2>2. CASE RemoveLock(t)
    BY <1>0, <2>2 DEF RemoveLock, Goto, UnbornHoldNothing, DonationTypes
  <2>3. CASE ~GetLock(t) /\ ~RemoveLock(t)
    <3>1. /\ UNCHANGED holding_locks
          /\ pc' = pc \/ \E v \in Threads, point \in Points \ {"unborn"} :
                             pc' = [pc EXCEPT ![v] = point]
      BY <1>2, <2>3 DEF Step, LockAcquire, MarkWaiting, DonateTest, DonateStore, FetchHolder,
           DonatePri, DonateNext, DonateAstray, SemaDown, SemaBlock, LockRelease, SemaUp,
           ThreadCreate, ThreadExit, SetPriority, TimerSleep, Wake, Preempt, Goto, Points,
           Calling, Donating
    <3>2. pc[u] = "unborn"
      BY <1>0, <3>1 DEF DonationTypes
    <3> QED  BY <3>1, <3>2 DEF UnbornHoldNothing
  <2> QED  BY <2>1, <2>2, <2>3
<1> QED  BY <1>1, <1>2 DEF Next

(* Every step of an undisturbed behaviour preserves what donation promises. *)
LEMMA DonationPreserved ==
    ASSUME PlacesInv, DonationInv, [Next]_vars, disturbed' = 0
    PROVE  Donation'
<1> USE DEF threadVars, lockVars, localVars
<1>0. disturbed = 0
  <2>1. disturbed \in Nat
    BY DonationTypesHold DEF DonationTypes
  <2>2. UNCHANGED disturbed \/ Disturb
    <3>1. CASE UNCHANGED vars \/ IdleBlocks
      BY <3>1 DEF vars, IdleBlocks
    <3>2. CASE \E t \in Threads : Step(t)
      BY <3>2 DEF Step, LockAcquire, MarkWaiting, DonateTest, DonateStore, FetchHolder,
           DonatePri, DonateNext, DonateAstray, SemaDown, SemaBlock, GetLock, LockRelease,
           RemoveLock, SemaUp, ThreadCreate, ThreadExit, SetPriority, TimerSleep, Wake, Preempt
    <3> QED  BY <3>1, <3>2 DEF Next
  <2> QED  BY <2>1, <2>2 DEF Disturb
<1>1. Placed /\ UnbornHoldNothing /\ Donation
  BY <1>0 DEF DonationInv
<1>2. Queues'
  BY QueuesPreserved
<1>3. CASE UNCHANGED vars
  BY <1>1, <1>3, MainAssumption, WakePreserves
<1>4. CASE IdleBlocks
  BY <1>1, <1>2, <1>4, MainAssumption, SchedulingPreserves
<1>5. ASSUME NEW t \in Threads, Step(t)
      PROVE  Donation'
  <2>1. CASE LockAcquire(t)
    BY <1>1, <2>1, AcquireDonation
  <2>2. CASE MarkWaiting(t)
    BY <1>1, <2>2, MarkDonation
  <2>3. CASE DonateTest(t)
    BY <1>1, <2>3, TestDonation
  <2>4. CASE DonateStore(t)
    BY <1>1, <2>4, StoreDonation
  <2>5. CASE FetchHolder(t)
    BY <1>1, <2>5, FetchDonation
  <2>6. CASE DonatePri(t)
    BY <1>1, <1>2, <2>6, DonateDonation
  <2>7. CASE DonateNext(t)
    BY <1>1, <2>7, NextDonation
  <2>8. CASE DonateAstray(t) \/ Wake(t)
    BY <1>1, <2>8, WakePreserves
  <2>9. CASE SemaDown(t)
    BY <1>1, <2>9, DownDonation
  <2>10. CASE SemaBlock(t)
    BY <1>1, <2>10, BlockDonation
  <2>11. CASE GetLock(t)
    BY <1>1, <2>11, GetDonation
  <2>12. CASE LockRelease(t)
    BY <1>1, <2>12, ReleaseDonation
  <2>13. CASE RemoveLock(t)
    BY <1>1, <2>13, RemoveDonation
  <2>14. CASE SemaUp(t)
    BY <1>1, <2>14, UpDonation
  <2>15. CASE ThreadCreate(t)
    BY <1>1, <2>15, CreatePreserves
  <2>16. CASE ThreadExit(t)
    BY <1>1, <2>16, ExitPreserves
  <2>17. CASE SetPriority(t)
    BY <1>1, <2>17, SetPreserves
  <2>18. CASE TimerSleep(t) \/ Preempt(t)
    BY <1>1, <1>2, <2>18, SchedulingPreserves
  <2> QED  BY <1>5, <2>1, <2>2, <2>3, <2>4, <2>5, <2>6, <2>7, <2>8, <2>9, <2>10, <2>11,
              <2>12, <2>13, <2>14, <2>15, <2>16, <2>17, <2>18 DEF Step
<1> QED  BY <1>3, <1>4, <1>5 DEF Next

(* The initial state: one thread runs, at its own priority. *)
LEMMA InitDonation == Init => DonationInv
<1> SUFFICES ASSUME Init PROVE DonationInv
  OBVIOUS
<1> USE MainAssumption, NoThreadAssumption
<1>0. Default \in Nat
  BY PrioritiesAssumption
<1>1. Quiet
  BY DEF Init, Quiet, Calling, Donating
<1>2. \A t \in Threads : pc[t] # "blocked"
  BY DEF Init
<1>3. Alone /\ Chained /\ Offered /\ Took
  BY <1>1, NothingUnderWay
<1>4. Marked /\ Backed /\ Placed
  BY <1>2 DEF Marked, Backed, Placed
<1>5. Raised /\ Lowered /\ UnbornHoldNothing
  BY <1>0 DEF Init, Raised, Lowered, UnbornHoldNothing
<1>6. Woken
  BY DEF Init, Woken
<1>7. Outranks
  BY DEF Init, Outranks, ToSet
<1> QED  BY <1>3, <1>4, <1>5, <1>6, <1>7 DEF DonationInv, Donation

(* In every behaviour, what donation promises holds until it is disturbed. *)
THEOREM DonationHolds == Spec => []DonationInv
<1>1. PlacesInv /\ DonationInv /\ [Next]_vars => DonationInv'
  BY PlacedPreserved, UnbornPreserved, DonationPreserved DEF DonationInv
<1> QED  BY InitDonation, PlacesHold, <1>1, PTL DEF Spec

(* No priority inversion: between lock operations of an undisturbed behaviour *)
(* no holder has a lower priority than a thread that waits for its lock,      *)
(* however long the chain of locks and holders.                               *)
THEOREM InversionNever == Spec => []NoInversion
<1>1. PlacesInv /\ DonationInv => NoInversion
  <2> SUFFICES ASSUME PlacesInv, DonationInv, disturbed = 0,
                      \A t \in Threads : pc[t] \notin Calling \ {"blocked"},
                      NEW l \in Locks, NEW t \in ToSet(waiters[l]), holder[l] # NoThread
               PROVE  priority[holder[l]] >= priority[t]
    BY DEF NoInversion
  <2>0. DonationTypes
    BY DonationTypesHold
  <2>1. Donation /\ Quiet
    BY DEF DonationInv, Quiet
  <2>2. Settled
    <3>1. ~In(Loop)
      BY <2>1 DEF Quiet, In, Loop, Calling, Donating
    <3> QED  BY <2>1, <3>1, SettledOutsideLoop
  <2>3. t \in Threads /\ pc[t] = "blocked" /\ want[t] = l
    BY <2>0, Members DEF DonationTypes, PlacesInv, Queues
  <2>4. priority[t] <= max_pri[l]
    BY <2>2, <2>3 DEF Settled
  <2>5. holder[l] \in Threads
    BY <2>0 DEF DonationTypes
  <2>6. l \in holding_locks[holder[l]]
    BY <2>5 DEF PlacesInv, LockInv, HoldingIsHeld
  <2>7. max_pri[l] <= priority[holder[l]]
    BY <2>2, <2>5, <2>6 DEF Settled
  <2>8. priority[t] \in Nat /\ max_pri[l] \in Nat /\ priority[holder[l]] \in Nat
    BY <2>0, <2>3, <2>5 DEF DonationTypes
  <2> QED  BY <2>4, <2>7, <2>8
<1> QED  BY PlacesHold, DonationHolds, <1>1, PTL
==============================================================================
