--------------------------- MODULE BufferCacheProof ---------------------------
(***************************************************************************)
(* Proofs about BufferCache for every number of threads, sectors, contents *)
(* and cache entries.                                                      *)
(***************************************************************************)
EXTENDS BufferCache, TLAPS

(* Exactly the owner of cache_lock is between lock_acquire and lock_release. *)
OwnerInside == \A t \in Threads : pc[t] \in Inside <=> lock = t

(* cache_close and the other two operations never meet inside the lock. *)
OpMatchesPoint ==
    \A t \in Threads :
        /\ pc[t] \in {"find", "sweep", "claim", "fill", "copy"}
              => call[t].op # "close"
        /\ pc[t] = "flush" => call[t].op = "close"

(* From the miss in cache_find until the claim, no entry caches the sector. *)
MissStays ==
    \A t \in Threads : pc[t] \in {"sweep", "claim"} =>
        \A i \in Entries :
            ~(cache[i].valid /\ cache[i].disk_sector = call[t].sector)

(* The entry a thread claims is free; the one it fills and copies is its own. *)
EntryInHand ==
    \A t \in Threads :
        /\ pc[t] = "claim" => ~cache[ce[t]].valid
        /\ pc[t] \in {"fill", "copy"} =>
              /\ cache[ce[t]].valid
              /\ cache[ce[t]].disk_sector = call[t].sector
        /\ pc[t] = "fill" => ~cache[ce[t]].dirty

(* cache_close has cleaned the entries its loop has passed. *)
FlushProgress ==
    \A t \in Threads :
        /\ pc[t] = "flush" =>
              \A i \in Entries : (i < ce[t] /\ cache[i].valid) => ~cache[i].dirty
        /\ (pc[t] = "release" /\ call[t].op = "close") =>
              \A i \in Entries : cache[i].valid => ~cache[i].dirty

Inv ==
    /\ TypeOK
    /\ OwnerInside
    /\ OpMatchesPoint
    /\ MissStays
    /\ EntryInHand
    /\ FlushProgress
    /\ OneEntryPerSector
    /\ CleanMatchesDisk

-----------------------------------------------------------------------------
(* The hand stays within the array: clock ++; clock %= CACHE_SIZE. *)
LEMMA HandInRange ==
    ASSUME NEW c \in Entries PROVE (c + 1) % Size \in Entries
BY SizeAssumption DEF Entries

(* cache_flush keeps the types, changes no other field than the dirty bit   *)
(* and no other sector than the entry's, where the buffer then is on disk.  *)
LEMMA FlushFacts ==
    ASSUME TypeOK, NEW i \in Entries
    PROVE  /\ FlushedEntry(i) \in CacheEntry
           /\ FlushedEntry(i).valid = cache[i].valid
           /\ FlushedEntry(i).disk_sector = cache[i].disk_sector
           /\ FlushedEntry(i).buffer = cache[i].buffer
           /\ ~FlushedEntry(i).dirty
           /\ FlushedDisk(i) \in [Sectors -> Values]
           /\ \A s \in Sectors : s # cache[i].disk_sector => FlushedDisk(i)[s] = disk[s]
           /\ cache[i].dirty => FlushedDisk(i)[cache[i].disk_sector] = cache[i].buffer
           /\ ~cache[i].dirty => FlushedDisk(i) = disk
<1>1. cache[i] \in CacheEntry /\ disk \in [Sectors -> Values]
  BY DEF TypeOK
<1> QED
  BY <1>1 DEF FlushedEntry, FlushedDisk, CacheEntry

(* Initially every operation is outside and the cache is empty. *)
LEMMA InitInv == Init => Inv
BY SizeAssumption, ZerosAssumption, SectorsAssumption, NoThreadAssumption
   DEF Init, Inv, TypeOK, OwnerInside, OpMatchesPoint, MissStays, EntryInHand,
       FlushProgress, OneEntryPerSector, CleanMatchesDisk, Entries, CacheEntry,
       Calls, NoCall, Points, Inside, Filling

(* Every step of cache.c keeps the variables in their types. *)
LEMMA TypeStep == TypeOK /\ [Next]_vars => TypeOK'
<1> SUFFICES ASSUME TypeOK, [Next]_vars PROVE TypeOK'
  OBVIOUS
<1> USE DEF Goto
<1>1. CASE UNCHANGED vars
  BY <1>1 DEF TypeOK, vars
<1>2. ASSUME NEW t \in Threads, Step(t) PROVE TypeOK'
  <2> USE DEF TypeOK
  <2>1. CASE Enter(t)
    BY <2>1, RequestsAssumption DEF Enter, Points
  <2>2. CASE Acquire(t)
    BY <2>2, SizeAssumption DEF Acquire, Points, Inside, Entries
  <2>3. CASE PowerOff(t)
    BY <2>3 DEF PowerOff
  <2>4. CASE FindHit(t)
    BY <2>4 DEF FindHit, Hits, Points, Inside
  <2>5. CASE FindMiss(t)
    BY <2>5 DEF FindMiss, Points, Inside
  <2>6. CASE SweepAdvance(t)
    BY <2>6, HandInRange DEF SweepAdvance, CacheEntry
  <2>7. CASE SweepFree(t)
    BY <2>7 DEF SweepFree, Points, Inside
  <2>8. CASE SweepEvict(t)
    BY <2>8, FlushFacts DEF SweepEvict, CacheEntry, Points, Inside
  <2>9. CASE Claim(t)
    BY <2>9 DEF Claim, CacheEntry, Calls, Points, Inside
  <2>10. CASE Fill(t)
    BY <2>10 DEF Fill, CacheEntry, Calls, Points, Inside
  <2>11. CASE CopyOut(t)
    BY <2>11 DEF CopyOut, CacheEntry, Calls, Points, Inside
  <2>12. CASE CopyIn(t)
    BY <2>12 DEF CopyIn, CacheEntry, Calls, Points, Inside
  <2>13. CASE CloseStep(t)
    <3>1. disk' \in [Sectors -> Values] /\ cache' \in [Entries -> CacheEntry]
      <4>1. CASE cache[ce[t]].valid
        BY <2>13, <4>1, FlushFacts DEF CloseStep
      <4>2. CASE ~cache[ce[t]].valid
        BY <2>13, <4>2 DEF CloseStep
      <4> QED
        BY <4>1, <4>2
    <3>2. ce' \in [Threads -> Entries] /\ pc' \in [Threads -> Points]
      <4>1. CASE ce[t] + 1 < Size
        <5>1. ce[t] + 1 \in Entries
          BY <4>1, SizeAssumption DEF Entries
        <5> QED
          BY <2>13, <4>1, <5>1 DEF CloseStep
      <4>2. CASE ~(ce[t] + 1 < Size)
        BY <2>13, <4>2 DEF CloseStep, Points, Inside
      <4> QED
        BY <4>1, <4>2
    <3> QED
      BY <2>13, <3>1, <3>2 DEF CloseStep
  <2>14. CASE Release(t)
    BY <2>14, SizeAssumption, ZerosAssumption, SectorsAssumption
       DEF Release, NoCall, Calls, Entries, Points
  <2> QED
    BY <1>2, <2>1, <2>2, <2>3, <2>4, <2>5, <2>6, <2>7, <2>8, <2>9, <2>10,
       <2>11, <2>12, <2>13, <2>14 DEF Step, Locked
<1> QED
  BY <1>1, <1>2 DEF Next

(* The type invariant of the buffer cache, for every instance. *)
THEOREM TypeCorrect == Spec => []TypeOK
<1>1. Init => TypeOK
  BY InitInv DEF Inv
<1> QED
  BY <1>1, TypeStep, PTL DEF Spec

-----------------------------------------------------------------------------
(* Every step of cache.c preserves the inductive invariant. *)
LEMMA InvStep == Inv /\ [Next]_vars => Inv'
<1> SUFFICES ASSUME Inv, [Next]_vars PROVE Inv'
  OBVIOUS
<1>t. TypeOK'
  BY TypeStep DEF Inv
<1>1. CASE UNCHANGED vars
  BY <1>1, <1>t
     DEF vars, Inv, TypeOK, OwnerInside, OpMatchesPoint, MissStays,
         EntryInHand, FlushProgress, OneEntryPerSector, CleanMatchesDisk, Filling
<1>2. ASSUME NEW t \in Threads, Step(t) PROVE Inv'
  <2> USE <1>t DEF Inv, TypeOK, Goto
  <2>own. OwnerInside'
    BY <1>2, NoThreadAssumption
       DEF OwnerInside, Inside, Step, Locked, Enter, Acquire, PowerOff, FindHit,
           FindMiss, SweepAdvance, SweepFree, SweepEvict, Claim, Fill, CopyOut,
           CopyIn, CloseStep, Release
  <2>op. OpMatchesPoint'
    BY <1>2
       DEF OpMatchesPoint, Calls, Step, Locked, Enter, Acquire, PowerOff, FindHit,
           FindMiss, SweepAdvance, SweepFree, SweepEvict, Claim, Fill, CopyOut,
           CopyIn, CloseStep, Release
  <2>others. \A u \in Threads : u # t =>
                pc'[u] = pc[u] /\ call'[u] = call[u] /\ ce'[u] = ce[u]
    BY <1>2
       DEF Step, Locked, Enter, Acquire, PowerOff, FindHit, FindMiss, SweepAdvance,
           SweepFree, SweepEvict, Claim, Fill, CopyOut, CopyIn, CloseStep, Release
  <2>alone. Locked(t) => \A u \in Threads : u # t => pc[u] \notin Inside
    BY DEF OwnerInside, Inside, Locked, FindHit, FindMiss, SweepAdvance,
           SweepFree, SweepEvict, Claim, Fill, CopyOut, CopyIn, CloseStep, Release
  <2>miss. MissStays'
    <3> SUFFICES ASSUME (pc[t] \in {"sweep", "claim"})', Locked(t), NEW i \in Entries
                 PROVE  ~(cache[i].valid /\ cache[i].disk_sector = call[t].sector)'
      BY <1>2, <2>others, <2>alone
         DEF MissStays, Inside, Step, Enter, Acquire, PowerOff
    <3>1. CASE FindMiss(t) \/ SweepFree(t)
      BY <3>1 DEF FindMiss, SweepFree, Hits, MissStays
    <3>2. CASE SweepAdvance(t)
      BY <3>2 DEF SweepAdvance, CacheEntry, MissStays
    <3>3. CASE SweepEvict(t)
      BY <3>3, FlushFacts DEF SweepEvict, CacheEntry, MissStays
    <3> QED
      BY <3>1, <3>2, <3>3
         DEF Locked, FindHit, Claim, Fill, CopyOut, CopyIn, CloseStep, Release
  <2>hand. EntryInHand'
    <3> SUFFICES ASSUME Locked(t)
                 PROVE  (/\ pc[t] = "claim" => ~cache[ce[t]].valid
                         /\ pc[t] \in {"fill", "copy"} =>
                               /\ cache[ce[t]].valid
                               /\ cache[ce[t]].disk_sector = call[t].sector
                         /\ pc[t] = "fill" => ~cache[ce[t]].dirty)'
      BY <1>2, <2>others, <2>alone
         DEF EntryInHand, Inside, Step, Enter, Acquire, PowerOff
    <3>1. CASE FindHit(t)
      BY <3>1 DEF FindHit, Hits
    <3>2. CASE SweepFree(t)
      BY <3>2 DEF SweepFree
    <3>3. CASE SweepEvict(t)
      BY <3>3, FlushFacts DEF SweepEvict, CacheEntry
    <3>4. CASE Claim(t)
      BY <3>4 DEF Claim, CacheEntry
    <3>5. CASE Fill(t)
      BY <3>5 DEF Fill, CacheEntry, EntryInHand
    <3>6. CASE CloseStep(t)
      BY <3>6 DEF CloseStep
    <3> QED
      BY <3>1, <3>2, <3>3, <3>4, <3>5, <3>6
         DEF Locked, FindMiss, SweepAdvance, CopyOut, CopyIn, Release
  <2>flush. FlushProgress'
    <3> SUFFICES ASSUME Acquire(t) \/ Locked(t)
                 PROVE  (/\ pc[t] = "flush" =>
                              \A i \in Entries :
                                (i < ce[t] /\ cache[i].valid) => ~cache[i].dirty
                         /\ (pc[t] = "release" /\ call[t].op = "close") =>
                              \A i \in Entries : cache[i].valid => ~cache[i].dirty)'
      BY <1>2, <2>others, <2>alone
         DEF FlushProgress, Inside, Step, Enter, Acquire, PowerOff
    <3>1. CASE Acquire(t)
      BY <3>1, SizeAssumption DEF Acquire, Entries
    <3>2. CASE CloseStep(t)
      <4>1. \A i \in Entries : (i <= ce[t] /\ cache'[i].valid) => ~cache'[i].dirty
        <5> SUFFICES ASSUME NEW i \in Entries, i <= ce[t], cache'[i].valid
                     PROVE  ~cache'[i].dirty
          OBVIOUS
        <5>1. CASE i = ce[t]
          BY <3>2, <5>1, FlushFacts DEF CloseStep
        <5>2. CASE i # ce[t]
          <6>1. i < ce[t]
            BY <5>2 DEF Entries
          <6>2. cache'[i] = cache[i]
            BY <3>2, <5>2 DEF CloseStep
          <6> QED
            BY <3>2, <6>1, <6>2 DEF CloseStep, FlushProgress
        <5> QED
          BY <5>1, <5>2
      <4>2. CASE ce[t] + 1 < Size
        BY <3>2, <4>1, <4>2 DEF CloseStep, Entries
      <4>3. CASE ~(ce[t] + 1 < Size)
        <5>1. \A i \in Entries : i <= ce[t]
          BY <4>3, SizeAssumption DEF Entries
        <5> QED
          BY <3>2, <4>1, <4>3, <5>1 DEF CloseStep
      <4> QED
        BY <4>2, <4>3
    <3> QED
      BY <3>1, <3>2
         DEF Locked, FindHit, FindMiss, SweepAdvance, SweepFree, SweepEvict, Claim,
             Fill, CopyOut, CopyIn, Release, OpMatchesPoint, Calls
  <2>one. OneEntryPerSector'
    <3>1. CASE Claim(t)
      <4> SUFFICES ASSUME NEW i \in Entries, NEW j \in Entries,
                          cache'[i].valid, cache'[j].valid,
                          cache'[i].disk_sector = cache'[j].disk_sector
                   PROVE  i = j
        BY DEF OneEntryPerSector
      <4>1. \A k \in Entries : k # ce[t] => cache'[k] = cache[k]
        BY <3>1 DEF Claim
      <4>2. cache'[ce[t]].disk_sector = call[t].sector
        BY <3>1 DEF Claim, CacheEntry
      <4> QED
        BY <3>1, <4>1, <4>2 DEF Claim, MissStays, OneEntryPerSector
    <3>2. CASE SweepAdvance(t) \/ Fill(t) \/ CopyOut(t) \/ CopyIn(t)
      <4>1. \A i \in Entries : /\ cache'[i].valid = cache[i].valid
                              /\ cache'[i].disk_sector = cache[i].disk_sector
        <5>1. CASE SweepAdvance(t)
          BY <5>1 DEF SweepAdvance, CacheEntry
        <5>2. CASE Fill(t)
          BY <5>2 DEF Fill, CacheEntry
        <5>3. CASE CopyOut(t)
          BY <5>3 DEF CopyOut, CacheEntry
        <5>4. CASE CopyIn(t)
          BY <5>4 DEF CopyIn, CacheEntry
        <5> QED
          BY <3>2, <5>1, <5>2, <5>3, <5>4
      <4> QED
        BY <4>1 DEF OneEntryPerSector
    <3>3. CASE SweepEvict(t)
      BY <3>3, FlushFacts DEF SweepEvict, CacheEntry, OneEntryPerSector
    <3>4. CASE CloseStep(t)
      <4>1. \A i \in Entries : /\ cache'[i].valid = cache[i].valid
                              /\ cache'[i].disk_sector = cache[i].disk_sector
        BY <3>4, FlushFacts DEF CloseStep
      <4> QED
        BY <4>1 DEF OneEntryPerSector
    <3> QED
      BY <1>2, <3>1, <3>2, <3>3, <3>4
         DEF OneEntryPerSector, Step, Locked, Enter, Acquire, PowerOff, FindHit,
             FindMiss, SweepFree, Release
  <2>clean. CleanMatchesDisk'
    <3>1. CASE Enter(t) \/ Acquire(t) \/ PowerOff(t)
      BY <3>1, <2>others
         DEF Enter, Acquire, PowerOff, CleanMatchesDisk, Filling
    <3> SUFFICES ASSUME Locked(t), NEW i \in Entries, cache'[i].valid,
                        ~cache'[i].dirty, ~Filling(i)'
                 PROVE  cache'[i].buffer = disk'[cache'[i].disk_sector]
      BY <1>2, <3>1 DEF Step, CleanMatchesDisk
    <3>2. ~(pc'[t] = "fill" /\ ce'[t] = i)
      BY DEF Filling
    <3>3. pc[t] # "fill" => ~Filling(i)
      BY <2>alone DEF Filling, Inside
    <3>4. CASE FindHit(t) \/ FindMiss(t) \/ SweepFree(t) \/ Release(t)
      BY <3>4, <3>3
         DEF FindHit, FindMiss, SweepFree, Release, CleanMatchesDisk
    <3>5. CASE SweepAdvance(t) \/ CopyOut(t)
      <4>1. /\ cache'[i].valid = cache[i].valid
            /\ cache'[i].dirty = cache[i].dirty
            /\ cache'[i].buffer = cache[i].buffer
            /\ cache'[i].disk_sector = cache[i].disk_sector
        <5>1. CASE SweepAdvance(t)
          BY <5>1 DEF SweepAdvance, CacheEntry
        <5>2. CASE CopyOut(t)
          BY <5>2 DEF CopyOut, CacheEntry
        <5> QED
          BY <3>5, <5>1, <5>2
      <4> QED
        BY <3>5, <3>3, <4>1 DEF SweepAdvance, CopyOut, CleanMatchesDisk
    <3>10. CASE CopyIn(t)
      <4>1. i # ce[t]
        BY <3>10 DEF CopyIn, CacheEntry
      <4> QED
        BY <3>10, <3>3, <4>1 DEF CopyIn, CleanMatchesDisk
    <3>6. CASE SweepEvict(t)
      <4>1. i # clock /\ cache'[i] = cache[i]
        BY <3>6, FlushFacts DEF SweepEvict, CacheEntry
      <4>2. cache[i].disk_sector # cache[clock].disk_sector
        BY <3>6, <4>1 DEF SweepEvict, OneEntryPerSector
      <4>3. cache[i].disk_sector \in Sectors
        BY DEF CacheEntry
      <4> QED
        BY <3>6, <3>3, <4>1, <4>2, <4>3, FlushFacts DEF SweepEvict, CleanMatchesDisk
    <3>7. CASE Claim(t)
      <4>1. i # ce[t]
        BY <3>7, <3>2 DEF Claim
      <4> QED
        BY <3>7, <3>3, <4>1 DEF Claim, CleanMatchesDisk
    <3>8. CASE Fill(t)
      <4>1. CASE i = ce[t]
        BY <3>8, <4>1 DEF Fill, CacheEntry, EntryInHand
      <4>2. CASE i # ce[t]
        <5>1. ~Filling(i)
          BY <3>8, <4>2, <2>alone DEF Fill, Filling, Inside
        <5> QED
          BY <3>8, <4>2, <5>1 DEF Fill, CleanMatchesDisk
      <4> QED
        BY <4>1, <4>2
    <3>9. CASE CloseStep(t)
      <4>1. pc[t] # "fill" /\ ~Filling(i)
        BY <3>9, <3>3 DEF CloseStep
      <4>2. cache[i] \in CacheEntry /\ cache[ce[t]] \in CacheEntry
        OBVIOUS
      <4>3. CASE ~cache[ce[t]].valid
        BY <3>9, <4>1, <4>3 DEF CloseStep, CleanMatchesDisk
      <4>4. CASE cache[ce[t]].valid /\ i = ce[t]
        <5>1. cache'[i] = FlushedEntry(i) /\ disk' = FlushedDisk(i)
          BY <3>9, <4>4 DEF CloseStep
        <5>2. CASE cache[i].dirty
          BY <4>2, <5>1, <5>2, FlushFacts DEF CacheEntry
        <5>3. CASE ~cache[i].dirty
          <6>1. disk' = disk /\ cache'[i].buffer = cache[i].buffer
            BY <5>1, <5>3, FlushFacts
          <6>2. cache'[i].disk_sector = cache[i].disk_sector
            BY <5>1, FlushFacts
          <6> QED
            BY <4>1, <4>4, <5>3, <6>1, <6>2 DEF CleanMatchesDisk
        <5> QED
          BY <5>2, <5>3
      <4>5. CASE cache[ce[t]].valid /\ i # ce[t]
        <5>1. cache'[i] = cache[i] /\ disk' = FlushedDisk(ce[t])
          BY <3>9, <4>5 DEF CloseStep
        <5>2. cache[i].disk_sector # cache[ce[t]].disk_sector
          BY <4>5, <5>1 DEF OneEntryPerSector
        <5> QED
          BY <4>1, <4>2, <5>1, <5>2, FlushFacts DEF CleanMatchesDisk, CacheEntry
      <4> QED
        BY <4>3, <4>4, <4>5
    <3> QED
      BY <3>4, <3>5, <3>6, <3>7, <3>8, <3>9, <3>10 DEF Locked
  <2> QED
    BY <2>own, <2>op, <2>miss, <2>hand, <2>flush, <2>one, <2>clean
<1> QED
  BY <1>1, <1>2 DEF Next

(* No execution of cache.c leaves the inductive invariant. *)
THEOREM InvHolds == Spec => []Inv
  BY InitInv, InvStep, PTL DEF Spec

(* No sector is cached twice, whatever the size of the cache and however *)
(* many threads use it.                                                  *)
THEOREM OneEntry == Spec => []OneEntryPerSector
<1>1. Inv => OneEntryPerSector
  BY DEF Inv
<1> QED
  BY <1>1, InvHolds, PTL

(* An entry that is not dirty can be dropped: it agrees with the disk. *)
THEOREM CleanAgrees == Spec => []CleanMatchesDisk
<1>1. Inv => CleanMatchesDisk
  BY DEF Inv
<1> QED
  BY <1>1, InvHolds, PTL

-----------------------------------------------------------------------------
(* What a reader sees of a sector: the buffer of the one entry that has it *)
(* loaded, and the disk if there is none.                                  *)
ContentsFacts ==
    /\ Contents \in [Sectors -> Values]
    /\ \A s \in Sectors : \A i \in Entries :
          Loaded(i, s) => Contents[s] = cache[i].buffer
    /\ \A s \in Sectors :
          (\A i \in Entries : ~Loaded(i, s)) => Contents[s] = disk[s]

(* Contents is well defined because no sector is cached twice. *)
LEMMA ContentsWellDefined == Inv => ContentsFacts
<1> SUFFICES ASSUME Inv PROVE ContentsFacts
  OBVIOUS
<1>1. ASSUME NEW s \in Sectors, NEW i \in Entries, Loaded(i, s)
      PROVE  Contents[s] = cache[i].buffer
  <2>1. \A j \in Entries : Loaded(j, s) => j = i
    BY <1>1 DEF Inv, OneEntryPerSector, Loaded
  <2>2. (CHOOSE j \in Entries : Loaded(j, s)) = i
    BY <1>1, <2>1
  <2> QED
    BY <1>1, <2>2 DEF Contents
<1>2. ASSUME NEW s \in Sectors, \A i \in Entries : ~Loaded(i, s)
      PROVE  Contents[s] = disk[s]
  BY <1>2 DEF Contents
<1>3. \A s \in Sectors : Contents[s] \in Values
  <2> TAKE s \in Sectors
  <2>1. CASE \E i \in Entries : Loaded(i, s)
    BY <2>1, <1>1 DEF Inv, TypeOK, CacheEntry
  <2>2. CASE ~\E i \in Entries : Loaded(i, s)
    BY <2>2, <1>2 DEF Inv, TypeOK
  <2> QED
    BY <2>1, <2>2
<1>4. Contents = [s \in Sectors |-> Contents[s]]
  BY DEF Contents
<1>5. Contents \in [Sectors -> Values]
  BY <1>3, <1>4
<1> QED
  BY <1>1, <1>2, <1>5 DEF ContentsFacts

(* When cache_close releases the lock, everything written is on the disk. *)
THEOREM CloseFlushes == Spec => []CloseFlushesEverything
<1>1. Inv => CloseFlushesEverything
  <2> SUFFICES ASSUME Inv, NEW t \in Threads, pc[t] = "release", call[t].op = "close"
               PROVE  disk = Contents
    BY DEF CloseFlushesEverything
  <2>1. \A i \in Entries : ~Filling(i)
    BY DEF Inv, OwnerInside, Inside, Filling
  <2>2. \A i \in Entries : cache[i].valid =>
            cache[i].buffer = disk[cache[i].disk_sector]
    BY <2>1 DEF Inv, FlushProgress, CleanMatchesDisk
  <2>3. \A s \in Sectors : Contents[s] = disk[s]
    BY <2>2, ContentsWellDefined DEF ContentsFacts, Loaded
  <2>4. Contents \in [Sectors -> Values] /\ disk \in [Sectors -> Values]
    BY ContentsWellDefined DEF ContentsFacts, Inv, TypeOK
  <2> QED
    BY <2>3, <2>4
<1> QED
  BY <1>1, InvHolds, PTL

-----------------------------------------------------------------------------
(* The facts about Contents hold after a step as well. *)
LEMMA ContentsAfter == Inv' => ContentsFacts'
  BY ContentsWellDefined, PTL

(* A step that leaves the buffers of the loaded entries and the disk alone *)
(* is invisible to readers.                                                *)
LEMMA SameLoaded ==
    ASSUME Inv, Inv', disk' = disk,
           \A i \in Entries : \A s \in Sectors : Loaded(i, s)' <=> Loaded(i, s),
           \A i \in Entries : \A s \in Sectors :
                Loaded(i, s) => cache'[i].buffer = cache[i].buffer
    PROVE  Contents' = Contents
<1>1. ContentsFacts /\ ContentsFacts'
  BY ContentsWellDefined, ContentsAfter
<1>2. \A s \in Sectors : Contents'[s] = Contents[s]
  <2> TAKE s \in Sectors
  <2>1. CASE \E i \in Entries : Loaded(i, s)
    <3> PICK i \in Entries : Loaded(i, s)
      BY <2>1
    <3> QED
      BY <1>1 DEF ContentsFacts
  <2>2. CASE ~\E i \in Entries : Loaded(i, s)
    BY <2>2, <1>1 DEF ContentsFacts
  <2> QED
    BY <2>1, <2>2
<1> QED
  BY <1>1, <1>2 DEF ContentsFacts

(* Dropping a victim after cache_flush is invisible to readers: a clean    *)
(* entry agreed with the disk and a dirty one has just been written there. *)
LEMMA EvictInvisible ==
    ASSUME Inv, Inv', NEW t \in Threads, SweepEvict(t)
    PROVE  Contents' = Contents
<1>1. ContentsFacts /\ ContentsFacts'
  BY ContentsWellDefined, ContentsAfter
<1>2. \A i \in Entries : ~Filling(i) /\ ~Filling(i)'
  BY DEF SweepEvict, Goto, Inv, TypeOK, OwnerInside, Inside, Filling
<1>3. clock \in Entries /\ cache[clock] \in CacheEntry /\ cache[clock].valid
  BY DEF SweepEvict, Inv, TypeOK
<1>4. ~cache'[clock].valid /\ \A i \in Entries : i # clock => cache'[i] = cache[i]
  BY FlushFacts DEF SweepEvict, Inv, TypeOK, CacheEntry
<1>5. disk' = FlushedDisk(clock)
  BY DEF SweepEvict
<1>6. \A s \in Sectors : Contents'[s] = Contents[s]
  <2> TAKE s \in Sectors
  <2>1. CASE s = cache[clock].disk_sector
    <3>1. Contents[s] = cache[clock].buffer
      BY <1>1, <1>2, <1>3, <2>1 DEF ContentsFacts, Loaded
    <3>2. \A i \in Entries : ~Loaded(i, s)'
      BY <1>3, <1>4, <2>1 DEF Loaded, Inv, OneEntryPerSector
    <3>3. disk'[s] = cache[clock].buffer
      BY <1>2, <1>3, <1>5, <2>1, FlushFacts DEF Inv, CleanMatchesDisk
    <3> QED
      BY <1>1, <3>1, <3>2, <3>3 DEF ContentsFacts
  <2>2. CASE s # cache[clock].disk_sector
    <3>1. disk'[s] = disk[s]
      BY <1>3, <1>5, <2>2, FlushFacts DEF Inv
    <3>2. \A i \in Entries : Loaded(i, s)' <=> Loaded(i, s)
      BY <1>2, <1>3, <1>4, <2>2 DEF Loaded
    <3>3. \A i \in Entries : Loaded(i, s) => cache'[i].buffer = cache[i].buffer
      BY <1>4, <2>2 DEF Loaded
    <3>4. CASE \E i \in Entries : Loaded(i, s)
      BY <1>1, <3>2, <3>3, <3>4 DEF ContentsFacts
    <3>5. CASE ~\E i \in Entries : Loaded(i, s)
      BY <1>1, <3>1, <3>2, <3>5 DEF ContentsFacts
    <3> QED
      BY <3>4, <3>5
  <2> QED
    BY <2>1, <2>2
<1> QED
  BY <1>1, <1>6 DEF ContentsFacts

(* block_read brings in what a reader of the sector would have got anyway. *)
LEMMA FillInvisible ==
    ASSUME Inv, Inv', NEW t \in Threads, Fill(t)
    PROVE  Contents' = Contents
<1>1. ContentsFacts /\ ContentsFacts'
  BY ContentsWellDefined, ContentsAfter
<1>2. \A i \in Entries : ~Filling(i)' /\ (Filling(i) <=> i = ce[t])
  BY DEF Fill, Goto, Inv, TypeOK, OwnerInside, Inside, Filling
<1>3. /\ ce[t] \in Entries
      /\ cache[ce[t]].valid
      /\ cache[ce[t]].disk_sector = call[t].sector
  BY DEF Fill, Inv, TypeOK, EntryInHand
<1>4. /\ cache'[ce[t]].buffer = disk[call[t].sector]
      /\ cache'[ce[t]].valid
      /\ cache'[ce[t]].disk_sector = call[t].sector
      /\ \A i \in Entries : i # ce[t] => cache'[i] = cache[i]
      /\ disk' = disk
  BY <1>3 DEF Fill, Inv, TypeOK, CacheEntry
<1>5. \A s \in Sectors : Contents'[s] = Contents[s]
  <2> TAKE s \in Sectors
  <2>1. CASE s = call[t].sector
    <3>1. \A i \in Entries : ~Loaded(i, s)
      BY <1>2, <1>3, <2>1 DEF Loaded, Inv, OneEntryPerSector
    <3>2. Loaded(ce[t], s)'
      BY <1>2, <1>3, <1>4, <2>1 DEF Loaded, Fill
    <3>3. Contents'[s] = cache'[ce[t]].buffer
      BY <1>1, <1>3, <3>2 DEF ContentsFacts, Fill
    <3> QED
      BY <1>1, <1>4, <2>1, <3>1, <3>3 DEF ContentsFacts
  <2>2. CASE s # call[t].sector
    <3>2. \A i \in Entries : Loaded(i, s)' <=> Loaded(i, s)
      BY <1>2, <1>3, <1>4, <2>2 DEF Loaded
    <3>3. \A i \in Entries : Loaded(i, s) => cache'[i].buffer = cache[i].buffer
      BY <1>3, <1>4, <2>2 DEF Loaded
    <3>4. CASE \E i \in Entries : Loaded(i, s)
      BY <1>1, <3>2, <3>3, <3>4 DEF ContentsFacts
    <3>5. CASE ~\E i \in Entries : Loaded(i, s)
      BY <1>1, <1>4, <3>2, <3>5 DEF ContentsFacts
    <3> QED
      BY <3>4, <3>5
  <2> QED
    BY <2>1, <2>2
<1> QED
  BY <1>1, <1>5 DEF ContentsFacts

(* A write-back by cache_close is invisible to readers: the entry stays. *)
LEMMA CloseInvisible ==
    ASSUME Inv, Inv', NEW t \in Threads, CloseStep(t)
    PROVE  Contents' = Contents
<1>1. ContentsFacts /\ ContentsFacts'
  BY ContentsWellDefined, ContentsAfter
<1>2. \A i \in Entries : ~Filling(i) /\ ~Filling(i)'
  BY DEF CloseStep, Goto, Inv, TypeOK, OwnerInside, Inside, Filling
<1>3. ce[t] \in Entries
  BY DEF Inv, TypeOK
<1>4. \A i \in Entries : /\ cache'[i].valid = cache[i].valid
                        /\ cache'[i].disk_sector = cache[i].disk_sector
                        /\ cache'[i].buffer = cache[i].buffer
  <2> TAKE i \in Entries
  <2>1. CASE cache[ce[t]].valid /\ i = ce[t]
    <3>1. cache'[i] = FlushedEntry(i)
      BY <1>3, <2>1 DEF CloseStep, Inv, TypeOK
    <3> QED
      BY <3>1, FlushFacts DEF Inv
  <2>2. CASE ~cache[ce[t]].valid \/ i # ce[t]
    BY <1>3, <2>2 DEF CloseStep, Inv, TypeOK
  <2> QED
    BY <2>1, <2>2
<1>5. \A i \in Entries : \A s \in Sectors : Loaded(i, s)' <=> Loaded(i, s)
  BY <1>2, <1>4 DEF Loaded
<1>6. \A s \in Sectors : Contents'[s] = Contents[s]
  <2> TAKE s \in Sectors
  <2>1. CASE \E i \in Entries : Loaded(i, s)
    BY <1>1, <1>4, <1>5, <2>1 DEF ContentsFacts
  <2>2. CASE ~\E i \in Entries : Loaded(i, s)
    <3>1. disk'[s] = disk[s]
      <4>1. CASE cache[ce[t]].valid
        <5>1. s # cache[ce[t]].disk_sector
          BY <1>2, <1>3, <2>2, <4>1 DEF Loaded
        <5> QED
          BY <1>3, <4>1, <5>1, FlushFacts DEF CloseStep, Inv
      <4>2. CASE ~cache[ce[t]].valid
        BY <4>2 DEF CloseStep
      <4> QED
        BY <4>1, <4>2
    <3> QED
      BY <1>1, <1>5, <2>2, <3>1 DEF ContentsFacts
  <2> QED
    BY <2>1, <2>2
<1> QED
  BY <1>1, <1>6 DEF ContentsFacts

(* The memcpy of cache_write is the instant at which the write happens. *)
LEMMA CopyInWrites ==
    ASSUME Inv, Inv', NEW t \in Threads, CopyIn(t)
    PROVE  Contents' = [Contents EXCEPT ![call[t].sector] = call[t].data]
<1>1. ContentsFacts /\ ContentsFacts'
  BY ContentsWellDefined, ContentsAfter
<1>2. \A i \in Entries : ~Filling(i) /\ ~Filling(i)'
  BY DEF CopyIn, Goto, Inv, TypeOK, OwnerInside, Inside, Filling
<1>3. /\ ce[t] \in Entries
      /\ call[t].sector \in Sectors
      /\ cache[ce[t]].valid
      /\ cache[ce[t]].disk_sector = call[t].sector
  BY DEF CopyIn, Inv, TypeOK, EntryInHand, Calls
<1>4. /\ cache'[ce[t]].buffer = call[t].data
      /\ cache'[ce[t]].valid
      /\ cache'[ce[t]].disk_sector = call[t].sector
      /\ \A i \in Entries : i # ce[t] => cache'[i] = cache[i]
      /\ disk' = disk
  BY <1>3 DEF CopyIn, Inv, TypeOK, CacheEntry
<1>5. Contents'[call[t].sector] = call[t].data
  <2>1. Loaded(ce[t], call[t].sector)'
    BY <1>2, <1>3, <1>4 DEF Loaded, CopyIn
  <2> QED
    BY <1>1, <1>3, <1>4, <2>1 DEF ContentsFacts, CopyIn
<1>6. ASSUME NEW s \in Sectors, s # call[t].sector
      PROVE  Contents'[s] = Contents[s]
  <2>1. \A i \in Entries : Loaded(i, s)' <=> Loaded(i, s)
    BY <1>2, <1>3, <1>4, <1>6 DEF Loaded
  <2>2. \A i \in Entries : Loaded(i, s) => cache'[i].buffer = cache[i].buffer
    BY <1>3, <1>4, <1>6 DEF Loaded
  <2>3. CASE \E i \in Entries : Loaded(i, s)
    BY <1>1, <2>1, <2>2, <2>3 DEF ContentsFacts
  <2>4. CASE ~\E i \in Entries : Loaded(i, s)
    BY <1>1, <1>4, <2>1, <2>4 DEF ContentsFacts
  <2> QED
    BY <2>3, <2>4
<1> QED
  BY <1>1, <1>3, <1>5, <1>6 DEF ContentsFacts

(* The memcpy of cache_read takes what the sector holds at that instant. *)
LEMMA CopyOutReads ==
    ASSUME Inv, NEW t \in Threads, CopyOut(t)
    PROVE  cache[ce[t]].buffer = Contents[call[t].sector]
<1>1. ContentsFacts
  BY ContentsWellDefined
<1>2. Loaded(ce[t], call[t].sector) /\ ce[t] \in Entries /\ call[t].sector \in Sectors
  BY DEF CopyOut, Inv, TypeOK, OwnerInside, Inside, EntryInHand, Loaded, Filling, Calls
<1> QED
  BY <1>1, <1>2 DEF ContentsFacts

(* The steps that change neither the disk nor a loaded buffer. *)
LEMMA OthersInvisible ==
    ASSUME Inv, Inv', NEW t \in Threads,
           \/ Enter(t) \/ Acquire(t) \/ PowerOff(t) \/ Release(t)
           \/ FindHit(t) \/ FindMiss(t) \/ SweepAdvance(t) \/ SweepFree(t)
           \/ Claim(t) \/ CopyOut(t)
    PROVE  Contents' = Contents
<1>1. CASE \/ Enter(t) \/ Acquire(t) \/ PowerOff(t) \/ Release(t)
           \/ FindHit(t) \/ FindMiss(t) \/ SweepFree(t)
  <2>1. cache' = cache /\ disk' = disk
    BY <1>1 DEF Enter, Acquire, PowerOff, Release, FindHit, FindMiss, SweepFree
  <2>2. \A i \in Entries : Filling(i)' <=> Filling(i)
    BY <1>1 DEF Enter, Acquire, PowerOff, Release, FindHit, FindMiss, SweepFree,
                Goto, Inv, TypeOK, Filling
  <2> QED
    BY <2>1, <2>2, SameLoaded DEF Loaded
<1>2. CASE SweepAdvance(t) \/ CopyOut(t)
  <2>1. \A i \in Entries : /\ cache'[i].valid = cache[i].valid
                          /\ cache'[i].disk_sector = cache[i].disk_sector
                          /\ cache'[i].buffer = cache[i].buffer
    <3>1. CASE SweepAdvance(t)
      BY <3>1 DEF SweepAdvance, Inv, TypeOK, CacheEntry
    <3>2. CASE CopyOut(t)
      BY <3>2 DEF CopyOut, Inv, TypeOK, CacheEntry
    <3> QED
      BY <1>2, <3>1, <3>2
  <2>2. disk' = disk /\ \A i \in Entries : Filling(i)' <=> Filling(i)
    BY <1>2 DEF SweepAdvance, CopyOut, Goto, Inv, TypeOK, Filling
  <2> QED
    BY <2>1, <2>2, SameLoaded DEF Loaded
<1>3. CASE Claim(t)
  <2>1. \A i \in Entries : ~Filling(i) /\ (Filling(i)' <=> i = ce[t])
    BY <1>3 DEF Claim, Goto, Inv, TypeOK, OwnerInside, Inside, Filling
  <2>2. ce[t] \in Entries /\ ~cache[ce[t]].valid
    BY <1>3 DEF Claim, Inv, TypeOK, EntryInHand
  <2>3. disk' = disk /\ \A i \in Entries : i # ce[t] => cache'[i] = cache[i]
    BY <1>3 DEF Claim, Inv, TypeOK
  <2>4. \A i \in Entries : \A s \in Sectors : Loaded(i, s)' <=> Loaded(i, s)
    BY <2>1, <2>2, <2>3 DEF Loaded
  <2>5. \A i \in Entries : \A s \in Sectors :
            Loaded(i, s) => cache'[i].buffer = cache[i].buffer
    BY <2>2, <2>3 DEF Loaded
  <2> QED
    BY <2>3, <2>4, <2>5, SameLoaded
<1> QED
  BY <1>1, <1>2, <1>3

-----------------------------------------------------------------------------
(* Every step of the cache is a step of the sector store or invisible. *)
LEMMA StoreStep == Inv /\ Inv' /\ [Next]_vars => [Store!Next]_(Store!vars)
<1> SUFFICES ASSUME Inv, Inv', [Next]_vars PROVE [Store!Next]_(Store!vars)
  OBVIOUS
<1> USE DEF Store!vars
<1>1. CASE UNCHANGED vars
  BY <1>1 DEF vars, Contents, Loaded, Filling, Phase
<1>2. ASSUME NEW t \in Threads, Step(t) PROVE [Store!Next]_(Store!vars)
  <2>t. /\ pc \in [Threads -> Points]
        /\ call \in [Threads -> Calls]
        /\ call' \in [Threads -> Calls]
    BY DEF Inv, TypeOK
  <2>p. ASSUME NEW a, NEW b, pc' = [pc EXCEPT ![t] = a],
               b = (CASE a \in {"idle", "shutdown"} -> "idle"
                      [] a = "release"              -> "done"
                      [] OTHER                      -> "called")
        PROVE  Phase' = [Phase EXCEPT ![t] = b]
    BY <2>t, <2>p DEF Phase
  <2>1. CASE Enter(t)
    <3>1. Store!Call(t)
      <4>1. Phase[t] = "idle"
        BY <2>1 DEF Enter, Phase
      <4>2. Phase' = [Phase EXCEPT ![t] = "called"]
        BY <2>1, <2>p DEF Enter, Goto
      <4>3. \E c \in Store!Calls : call' = [call EXCEPT ![t] = c]
        BY <2>1, RequestsAssumption DEF Enter, Calls, Store!Calls
      <4>4. Contents' = Contents
        BY <2>1, OthersInvisible
      <4> QED
        BY <4>1, <4>2, <4>3, <4>4 DEF Store!Call
    <3> QED
      BY <3>1 DEF Store!Next
  <2>2. CASE Release(t)
    <3>1. Store!Return(t)
      <4>1. Phase[t] = "done"
        BY <2>2 DEF Release, Phase
      <4>2. Phase' = [Phase EXCEPT ![t] = "idle"]
        BY <2>2, <2>p DEF Release, Goto
      <4>3. \E c \in Store!Calls : call' = [call EXCEPT ![t] = c]
        BY <2>2, ZerosAssumption, SectorsAssumption
           DEF Release, NoCall, Store!Calls
      <4>4. Contents' = Contents
        BY <2>2, OthersInvisible
      <4> QED
        BY <4>1, <4>2, <4>3, <4>4 DEF Store!Return
    <3> QED
      BY <3>1 DEF Store!Next
  <2>3. CASE CopyOut(t)
    <3>1. Store!Read(t)
      <4>1. Phase[t] = "called"
        BY <2>3 DEF CopyOut, Phase
      <4>2. Phase' = [Phase EXCEPT ![t] = "done"]
        BY <2>3, <2>p DEF CopyOut, Goto
      <4>3. call' = [call EXCEPT ![t].data = Contents[call[t].sector]]
        BY <2>3, CopyOutReads DEF CopyOut
      <4>4. Contents' = Contents
        BY <2>3, OthersInvisible
      <4> QED
        BY <2>3, <4>1, <4>2, <4>3, <4>4 DEF CopyOut, Store!Read
    <3> QED
      BY <3>1 DEF Store!Next
  <2>4. CASE CopyIn(t)
    <3>1. Store!Write(t)
      <4>1. Phase[t] = "called"
        BY <2>4 DEF CopyIn, Phase
      <4>2. Phase' = [Phase EXCEPT ![t] = "done"]
        BY <2>4, <2>p DEF CopyIn, Goto
      <4>3. Contents' = [Contents EXCEPT ![call[t].sector] = call[t].data]
        BY <2>4, CopyInWrites
      <4> QED
        BY <2>4, <4>1, <4>2, <4>3 DEF CopyIn, Store!Write
    <3> QED
      BY <3>1 DEF Store!Next
  <2>5. CASE CloseStep(t)
    <3>1. Contents' = Contents /\ call' = call
      BY <2>5, CloseInvisible DEF CloseStep
    <3>2. CASE ce[t] + 1 < Size
      BY <2>5, <3>1, <3>2 DEF CloseStep, Phase
    <3>3. CASE ~(ce[t] + 1 < Size)
      <4>1. Phase[t] = "called"
        BY <2>5 DEF CloseStep, Phase
      <4>2. Phase' = [Phase EXCEPT ![t] = "done"]
        BY <2>5, <3>3, <2>p DEF CloseStep, Goto
      <4>3. call[t].op = "close"
        BY <2>5 DEF CloseStep, Inv, OpMatchesPoint
      <4> QED
        BY <3>1, <4>1, <4>2, <4>3 DEF Store!Close, Store!Next
    <3> QED
      BY <3>2, <3>3
  <2>6. CASE \/ Acquire(t) \/ PowerOff(t) \/ FindHit(t) \/ FindMiss(t)
             \/ SweepAdvance(t) \/ SweepFree(t) \/ SweepEvict(t)
             \/ Claim(t) \/ Fill(t)
    <3>1. Contents' = Contents
      BY <2>6, OthersInvisible, EvictInvisible, FillInvisible
    <3>2. call' = call
      BY <2>6 DEF Acquire, PowerOff, FindHit, FindMiss, SweepAdvance, SweepFree,
                  SweepEvict, Claim, Fill
    <3>3. Phase' = Phase
      BY <2>6, <2>t
         DEF Acquire, PowerOff, FindHit, FindMiss, SweepAdvance, SweepFree,
             SweepEvict, Claim, Fill, Goto, Phase
    <3> QED
      BY <3>1, <3>2, <3>3
  <2> QED
    BY <1>2, <2>1, <2>2, <2>3, <2>4, <2>5, <2>6 DEF Step, Locked
<1> QED
  BY <1>1, <1>2 DEF Next

(* The buffer cache implements an array of sectors with atomic reads and *)
(* writes, for every cache size and every number of threads and sectors. *)
THEOREM CacheImplementsStore == Spec => StoreSpec
<1>1. Init => Store!Init
  <2> SUFFICES ASSUME Init PROVE Store!Init
    OBVIOUS
  <2>1. Contents \in [Sectors -> Values]
    BY InitInv, ContentsWellDefined DEF ContentsFacts
  <2>2. call \in [Threads -> Store!Calls]
    BY ZerosAssumption, SectorsAssumption DEF Init, NoCall, Store!Calls
  <2>3. Phase = [t \in Threads |-> "idle"]
    BY DEF Init, Phase
  <2> QED
    BY <2>1, <2>2, <2>3 DEF Store!Init
<1> QED
  BY <1>1, InvHolds, StoreStep, PTL DEF Spec, StoreSpec, Store!Spec
==============================================================================
