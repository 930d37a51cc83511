---------------------------- MODULE ExercisesProof ----------------------------
(***************************************************************************)
(* Proofs about two exercises: the readers and writers of lab 6 exclude    *)
(* each other, for every finite number of them, and the memory allocator   *)
(* of lab 8 keeps its two lists a tiling of the memory, for every memory   *)
(* and process size, with at most one pair of free neighbours.             *)
(***************************************************************************)
EXTENDS ReadersWriters, ContiguousAllocator, SequenceTheorems, FiniteSetTheorems,
        WellFoundedInduction, TLAPS

-----------------------------------------------------------------------------
(* Readers and writers.                                                    *)

(* Readers between sem_wait (&rc) and sem_post (&rc), those that readcount *)
(* counts, and those for whom db is held.                                  *)
Section == {r \in Readers : pc[r] \in {"first", "counted", "last", "left"}}
Counted == {r \in Readers : pc[r] \in {"first", "counted", "reading"}}
Holding == {r \in Readers : pc[r] \in {"counted", "reading", "last"}}

RWType ==
    /\ rc \in {0, 1} /\ db \in {0, 1}
    /\ DOMAIN pc = Threads
    /\ \A w \in Writers : pc[w] \in {"none", "start", "writing", "done"}

(* rc is a mutex. *)
RcIsMutex ==
    \/ rc = 1 /\ Section = {}
    \/ rc = 0 /\ \E r \in Readers : Section = {r}

(* readcount is what it says; the first reader is alone and the last one  *)
(* has left nobody behind.                                                *)
CountIsRight ==
    /\ readcount = Cardinality(Counted)
    /\ \A r \in Readers : pc[r] = "first" => Counted = {r}
    /\ \A r \in Readers : pc[r] = "last" => Counted = {}

(* db is held once: by a writer, or for the readers together. *)
DbIsHeldOnce ==
    \/ db = 1 /\ In(Writers, "writing") = {} /\ Holding = {}
    \/ db = 0 /\ In(Writers, "writing") = {} /\ Holding # {}
    \/ db = 0 /\ Holding = {} /\ \E w \in Writers : In(Writers, "writing") = {w}

RWInv == RWType /\ RcIsMutex /\ CountIsRight /\ DbIsHeldOnce

-----------------------------------------------------------------------------
(* The readers that readcount counts are finitely many. *)
LEMMA CountedFinite == IsFiniteSet(Counted) /\ Cardinality(Counted) \in Nat
<1>1. Counted \in SUBSET Readers
  BY DEF Counted
<1>2. IsFiniteSet(Counted)
  BY <1>1, FS_Subset, ThreadsAssumption
<1> QED
  BY <1>2, FS_CardinalityType

(* readcount is 0 exactly if nobody is counted. *)
LEMMA ZeroMeansNobody == CountIsRight => (readcount = 0 <=> Counted = {})
  BY CountedFinite, FS_EmptySet DEF CountIsRight

(* The state main starts with satisfies the invariant. *)
LEMMA RWInitInv == RWInit => RWInv
<1> SUFFICES ASSUME RWInit PROVE RWInv
  OBVIOUS
<1>1. Section = {} /\ Counted = {} /\ Holding = {} /\ In(Writers, "writing") = {}
  BY DEF RWInit, Section, Counted, Holding, In, Threads
<1>2. CountIsRight
  BY <1>1, FS_EmptySet DEF CountIsRight, RWInit, Threads
<1> QED
  BY <1>1, <1>2 DEF RWInv, RWType, RcIsMutex, DbIsHeldOnce, RWInit, Threads

-----------------------------------------------------------------------------
(* Steps of readers. *)

(* A reader that arrives counts itself; unless it is the first, db is held *)
(* for the readers already.                                                *)
LEMMA ArriveInv == ASSUME RWInv, NEW r \in Readers, Arrive(r) PROVE RWInv'
<1> USE ThreadsAssumption DEF RWInv, RWType, Threads, In
<1>1. rc = 1 /\ rc' = 0 /\ Section = {} /\ r \notin Counted
  BY DEF Arrive, RcIsMutex, Counted
<1>2. Section' = {r} /\ Counted' = Counted \cup {r}
  BY <1>1 DEF Arrive, Goto, Section, Counted
<1>3. readcount' = Cardinality(Counted')
  BY <1>1, <1>2, CountedFinite, FS_AddElement DEF Arrive, CountIsRight
<1>4. CASE readcount = 0
  <2>1. Counted = {} /\ pc'[r] = "first"
    BY <1>4, ZeroMeansNobody DEF Arrive, Goto
  <2>2. Holding' = Holding /\ In(Writers, "writing")' = In(Writers, "writing")
    BY <1>1, <2>1 DEF Arrive, Goto, Holding, Section
  <2>3. DbIsHeldOnce'
    BY <2>2 DEF Arrive, DbIsHeldOnce
  <2>4. CountIsRight'
    BY <1>1, <1>2, <1>3, <2>1 DEF CountIsRight, Arrive, Goto, Section
  <2> QED
    BY <1>1, <1>2, <2>3, <2>4 DEF RcIsMutex, Arrive, Goto
<1>5. CASE readcount # 0
  <2>1. pc'[r] = "counted" /\ \A q \in Readers : q # r => pc'[q] = pc[q]
    BY <1>5 DEF Arrive, Goto
  <2>2. \E q \in Readers : pc[q] = "reading"
    BY <1>1, <1>5, ZeroMeansNobody DEF Counted, Section
  <2>3. Holding # {} /\ Holding' # {} /\ In(Writers, "writing")' = In(Writers, "writing")
    BY <2>1, <2>2 DEF Arrive, Goto, Holding
  <2>4. DbIsHeldOnce'
    BY <2>3 DEF Arrive, DbIsHeldOnce
  <2>5. CountIsRight'
    BY <1>1, <1>2, <1>3, <2>1 DEF CountIsRight, Section
  <2> QED
    BY <1>1, <1>2, <2>4, <2>5 DEF RcIsMutex, Arrive, Goto
<1> QED
  BY <1>4, <1>5

(* The first reader takes db for all of them. *)
LEMMA TakeDbInv == ASSUME RWInv, NEW r \in Readers, TakeDb(r) PROVE RWInv'
<1> USE ThreadsAssumption DEF RWInv, RWType, Threads, In
<1>1. db = 1 /\ db' = 0 /\ In(Writers, "writing")' = {}
  BY DEF TakeDb, Goto, DbIsHeldOnce
<1>2. Section' = Section /\ Counted' = Counted /\ r \in Holding'
  BY DEF TakeDb, Goto, Section, Counted, Holding
<1>3. CountIsRight'
  BY <1>2 DEF CountIsRight, TakeDb, Goto
<1> QED
  BY <1>1, <1>2, <1>3 DEF RcIsMutex, DbIsHeldOnce, TakeDb, Goto

(* A counted reader goes inside and opens rc. *)
LEMMA EnterInv == ASSUME RWInv, NEW r \in Readers, Enter(r) PROVE RWInv'
<1> USE ThreadsAssumption DEF RWInv, RWType, Threads, In
<1>1. rc = 0 /\ Section = {r}
  BY DEF Enter, RcIsMutex, Section
<1>2. Section' = {} /\ Counted' = Counted /\ Holding' = Holding
      /\ In(Writers, "writing")' = In(Writers, "writing")
  BY <1>1 DEF Enter, Goto, Section, Counted, Holding
<1>3. CountIsRight'
  BY <1>2 DEF CountIsRight, Enter, Goto
<1> QED
  BY <1>1, <1>2, <1>3 DEF RcIsMutex, DbIsHeldOnce, Enter, Goto

(* A reader that leaves counts itself out; unless it was the last, another *)
(* one is still inside.                                                    *)
LEMMA LeaveInv == ASSUME RWInv, NEW r \in Readers, Leave(r) PROVE RWInv'
<1> USE ThreadsAssumption DEF RWInv, RWType, Threads, In
<1>1. rc = 1 /\ rc' = 0 /\ Section = {} /\ r \in Counted /\ r \in Holding
  BY DEF Leave, RcIsMutex, Counted, Holding
<1>2. Section' = {r} /\ Counted' = Counted \ {r}
  BY <1>1 DEF Leave, Goto, Section, Counted
<1>3. readcount' = Cardinality(Counted')
  BY <1>1, <1>2, CountedFinite, FS_RemoveElement DEF Leave, CountIsRight
<1>4. readcount' = 0 <=> Counted' = {}
  BY <1>2, <1>3, CountedFinite, FS_RemoveElement, FS_EmptySet
<1>5. readcount \in Nat /\ readcount' = readcount - 1
  BY CountedFinite DEF CountIsRight, Leave
<1>6. \A q \in Readers : q # r => pc'[q] = pc[q]
  BY DEF Leave, Goto
<1>7. \A q \in Readers : q # r => pc[q] \notin {"first", "counted", "last", "left"}
  BY <1>1 DEF Section
<1>8. In(Writers, "writing")' = In(Writers, "writing")
  BY DEF Leave, Goto
<1>9. CASE readcount = 1
  <2>1. pc'[r] = "last" /\ Counted' = {} /\ r \in Holding'
    BY <1>4, <1>5, <1>9 DEF Leave, Goto, Holding
  <2>2. CountIsRight'
    BY <1>3, <1>6, <1>7, <2>1 DEF CountIsRight
  <2>3. DbIsHeldOnce'
    BY <1>1, <1>8, <2>1 DEF DbIsHeldOnce, Leave
  <2> QED
    BY <1>1, <1>2, <2>2, <2>3 DEF RcIsMutex, Leave, Goto
<1>10. CASE readcount # 1
  <2>1. pc'[r] = "left" /\ Counted' # {}
    BY <1>4, <1>5, <1>10 DEF Leave, Goto
  <2>2. Holding' # {}
    BY <1>6, <1>7, <2>1 DEF Counted, Holding
  <2>3. CountIsRight'
    BY <1>3, <1>6, <1>7, <2>1 DEF CountIsRight
  <2>4. DbIsHeldOnce'
    BY <1>1, <1>8, <2>2 DEF DbIsHeldOnce, Leave
  <2> QED
    BY <1>1, <1>2, <2>3, <2>4 DEF RcIsMutex, Leave, Goto
<1> QED
  BY <1>9, <1>10

(* The last reader gives db back: it is held for nobody else. *)
LEMMA GiveDbInv == ASSUME RWInv, NEW r \in Readers, GiveDb(r) PROVE RWInv'
<1> USE ThreadsAssumption DEF RWInv, RWType, Threads, In
<1>1. rc = 0 /\ Section = {r} /\ Counted = {} /\ r \in Holding
  BY DEF GiveDb, RcIsMutex, Section, Holding, CountIsRight
<1>2. db = 0 /\ db' = 1 /\ In(Writers, "writing")' = {}
  BY <1>1 DEF DbIsHeldOnce, GiveDb, Goto
<1>3. Holding' = {}
  BY <1>1 DEF GiveDb, Goto, Holding, Section, Counted
<1>4. Section' = Section /\ Counted' = Counted
  BY DEF GiveDb, Goto, Section, Counted
<1>5. CountIsRight'
  BY <1>4 DEF CountIsRight, GiveDb, Goto
<1> QED
  BY <1>1, <1>2, <1>3, <1>4, <1>5 DEF RcIsMutex, DbIsHeldOnce, GiveDb, Goto

(* A reader that has left opens rc. *)
LEMMA GoneInv == ASSUME RWInv, NEW r \in Readers, Gone(r) PROVE RWInv'
<1> USE ThreadsAssumption DEF RWInv, RWType, Threads, In
<1>1. rc = 0 /\ Section = {r}
  BY DEF Gone, RcIsMutex, Section
<1>2. Section' = {} /\ Counted' = Counted /\ Holding' = Holding
      /\ In(Writers, "writing")' = In(Writers, "writing")
  BY <1>1 DEF Gone, Goto, Section, Counted, Holding
<1>3. CountIsRight'
  BY <1>2 DEF CountIsRight, Gone, Goto
<1> QED
  BY <1>1, <1>2, <1>3 DEF RcIsMutex, DbIsHeldOnce, Gone, Goto

-----------------------------------------------------------------------------
(* Steps of writers and of main. *)

(* A writer that gets db finds nobody inside, and gives it back. *)
LEMMA WriterInv ==
    ASSUME RWInv, NEW w \in Writers, BeginWrite(w) \/ EndWrite(w) \/ CreateWriter(w)
    PROVE  RWInv'
<1> USE ThreadsAssumption DEF RWInv, RWType, Threads, In
<1>1. Section' = Section /\ Counted' = Counted /\ Holding' = Holding
  BY DEF BeginWrite, EndWrite, CreateWriter, Goto, Section, Counted, Holding
<1>2. CountIsRight' /\ RcIsMutex'
  BY <1>1 DEF CountIsRight, RcIsMutex, BeginWrite, EndWrite, CreateWriter, Goto
<1>3. CASE BeginWrite(w)
  <2>1. db = 1 /\ db' = 0 /\ Holding = {} /\ In(Writers, "writing")' = {w}
    BY <1>3 DEF BeginWrite, Goto, DbIsHeldOnce
  <2> QED
    BY <1>1, <1>2, <1>3, <2>1 DEF DbIsHeldOnce, BeginWrite, Goto
<1>4. CASE EndWrite(w)
  <2>1. db = 0 /\ db' = 1 /\ Holding = {} /\ In(Writers, "writing")' = {}
    BY <1>4 DEF EndWrite, Goto, DbIsHeldOnce
  <2> QED
    BY <1>1, <1>2, <1>4, <2>1 DEF DbIsHeldOnce, EndWrite, Goto
<1>5. CASE CreateWriter(w)
  <2>1. In(Writers, "writing")' = In(Writers, "writing")
    BY <1>5 DEF CreateWriter, Goto
  <2> QED
    BY <1>1, <1>2, <1>5, <2>1 DEF DbIsHeldOnce, CreateWriter, Goto
<1> QED
  BY <1>3, <1>4, <1>5

(* Creating readers and joining threads touches no semaphore. *)
LEMMA MainInv ==
    ASSUME RWInv,
           \/ \E r \in Readers : CreateReader(r)
           \/ JoinWriters \/ JoinReader \/ JoinNobody \/ Return
           \/ UNCHANGED rwVars
    PROVE  RWInv'
<1> USE ThreadsAssumption DEF RWInv, RWType, Threads, In
<1>1. CASE \E r \in Readers : CreateReader(r)
  <2>1. Section' = Section /\ Counted' = Counted /\ Holding' = Holding
        /\ In(Writers, "writing")' = In(Writers, "writing")
    BY <1>1 DEF CreateReader, Goto, Section, Counted, Holding
  <2>2. CountIsRight'
    BY <1>1, <2>1 DEF CountIsRight, CreateReader, Goto
  <2> QED
    BY <1>1, <2>1, <2>2 DEF RcIsMutex, DbIsHeldOnce, CreateReader, Goto
<1>2. CASE JoinWriters \/ JoinReader \/ JoinNobody \/ Return \/ UNCHANGED rwVars
  <2>1. pc' = pc /\ rc' = rc /\ db' = db /\ readcount' = readcount
    BY <1>2 DEF JoinWriters, JoinReader, JoinNobody, Return, rwVars
  <2>2. /\ Section' = Section /\ Counted' = Counted /\ Holding' = Holding
        /\ In(Writers, "writing")' = In(Writers, "writing")
    BY <2>1 DEF Section, Counted, Holding, In
  <2>3. CountIsRight'
    BY <2>1, <2>2 DEF CountIsRight
  <2> QED
    BY <2>1, <2>2, <2>3 DEF RcIsMutex, DbIsHeldOnce
<1> QED
  BY <1>1, <1>2

-----------------------------------------------------------------------------
(* No execution of main, the readers and the writers leaves the invariant. *)
THEOREM RWInvHolds == RWSpec => []RWInv
<1>1. RWInv /\ [RWNext]_rwVars => RWInv'
  BY ArriveInv, TakeDbInv, EnterInv, LeaveInv, GiveDbInv, GoneInv, WriterInv, MainInv
  DEF RWNext
<1> QED
  BY <1>1, RWInitInv, PTL DEF RWSpec

(* Readers and writers exclude each other, however many there are. *)
THEOREM ReadersWritersExclude == RWSpec => []WritersAlone
<1>1. RWInv => WritersAlone
  BY DEF RWInv, DbIsHeldOnce, Holding, In, WritersAlone
<1> QED
  BY <1>1, RWInvHolds, PTL

-----------------------------------------------------------------------------
(* Lists.                                                                  *)

(* A list: of what it holds. *)
IsList(s) == s \in Seq(Range(s))

(* Its length and its places. *)
LEMMA ListShape ==
    ASSUME NEW s, IsList(s)
    PROVE  Len(s) \in Nat /\ DOMAIN s = 1 .. Len(s)
BY LenProperties DEF IsList

(* A list of elements of any set is a list. *)
LEMMA ListOf ==
    ASSUME NEW S, NEW s \in Seq(S)
    PROVE  IsList(s)
<1>1. Len(s) \in Nat /\ DOMAIN s = 1 .. Len(s) /\ s \in [1 .. Len(s) -> S]
  BY LenProperties
<1>2. \A i \in 1 .. Len(s) : s[i] \in Range(s)
  BY <1>1 DEF Range
<1>3. s \in [1 .. Len(s) -> Range(s)]
  BY <1>1, <1>2
<1> QED  BY <1>1, <1>3, SeqDef DEF IsList

(* Adding at the end. *)
LEMMA Appended ==
    ASSUME NEW s, IsList(s), NEW e
    PROVE  /\ IsList(Append(s, e))
           /\ Len(Append(s, e)) = Len(s) + 1
           /\ \A i \in 1 .. Len(s) : Append(s, e)[i] = s[i]
           /\ Append(s, e)[Len(s) + 1] = e
<1> DEFINE S == Range(s) \cup {e}
<1>1. Len(s) \in Nat /\ s \in [1 .. Len(s) -> Range(s)]
  BY LenProperties DEF IsList
<1>2. s \in [1 .. Len(s) -> S]
  BY <1>1
<1>3. s \in Seq(S) /\ e \in S
  BY <1>1, <1>2, SeqDef
<1> HIDE DEF S
<1>4. Append(s, e) \in Seq(S)
  BY <1>3, AppendProperties
<1>5. Len(Append(s, e)) = Len(s) + 1
  BY <1>3, AppendProperties
<1>6. \A i \in 1 .. Len(s) : Append(s, e)[i] = s[i]
  BY <1>3, AppendProperties
<1>7. Append(s, e)[Len(s) + 1] = e
  BY <1>3, AppendProperties
<1> QED  BY <1>4, <1>5, <1>6, <1>7, ListOf

(* Taking out the element at place k. *)
LEMMA TakenOut ==
    ASSUME NEW s, IsList(s), NEW k \in 1 .. Len(s), NEW r, r = RemoveAt(s, k)
    PROVE  /\ IsList(r)
           /\ Len(r) = Len(s) - 1
           /\ \A i \in 1 .. Len(s) - 1 : r[i] = IF i < k THEN s[i] ELSE s[i + 1]
<1> DEFINE S == Range(s)
           n == Len(s)
           a == SubSeq(s, 1, k - 1)
           b == SubSeq(s, k + 1, Len(s))
<1>0. n \in Nat /\ s \in Seq(S) /\ \A i \in 1 .. n : s[i] \in S
  BY LenProperties, ElementOfSeq DEF IsList
<1>k. k \in Nat /\ 1 <= k /\ k <= n /\ k - 1 \in Int /\ k + 1 \in Int /\ 1 \in Int /\ n \in Int
  BY <1>0
<1> HIDE DEF S
<1>1. /\ a \in Seq(S) /\ Len(a) = k - 1
      /\ \A i \in 1 .. k - 1 : a[i] = s[i]
  <2>1. \A i \in 1 .. k - 1 : s[i] \in S
    BY <1>0, <1>k
  <2>2. /\ a \in Seq(S) /\ Len(a) = IF 1 <= k - 1 THEN (k - 1) - 1 + 1 ELSE 0
        /\ \A i \in 1 .. (k - 1) - 1 + 1 : a[i] = s[1 + i - 1]
    BY <1>0, <1>k, <2>1, SubSeqProperties
  <2> QED  BY <1>k, <2>2
<1>2. /\ b \in Seq(S) /\ Len(b) = n - k
      /\ \A i \in 1 .. n - k : b[i] = s[k + i]
  <2>1. \A i \in k + 1 .. n : s[i] \in S
    BY <1>0, <1>k
  <2>2. /\ b \in Seq(S)
        /\ Len(b) = IF k + 1 <= n THEN n - (k + 1) + 1 ELSE 0
        /\ \A i \in 1 .. n - (k + 1) + 1 : b[i] = s[(k + 1) + i - 1]
    BY <1>0, <1>k, <2>1, SubSeqProperties
  <2> QED  BY <1>k, <2>2
<1>3. r = a \o b
  BY DEF RemoveAt
<1> HIDE DEF a, b, n
<1>4. a \o b \in Seq(S)
  BY <1>1, <1>2, ConcatProperties
<1>5. Len(a \o b) = Len(a) + Len(b)
  BY <1>1, <1>2, ConcatProperties
<1>6. \A i \in 1 .. Len(a) + Len(b) : (a \o b)[i] = IF i <= Len(a) THEN a[i] ELSE b[i - Len(a)]
  BY <1>1, <1>2, ConcatProperties
<1>7. Len(a) + Len(b) = n - 1
  BY <1>k, <1>1, <1>2
<1>8. ASSUME NEW i \in 1 .. n - 1
      PROVE  (a \o b)[i] = IF i < k THEN s[i] ELSE s[i + 1]
  <2>0. (a \o b)[i] = IF i <= k - 1 THEN a[i] ELSE b[i - (k - 1)]
    BY <1>1, <1>6, <1>7
  <2>1. CASE i < k
    BY <1>k, <1>1, <2>0, <2>1
  <2>2. CASE i >= k
    <3>1. i - (k - 1) \in 1 .. n - k /\ k + (i - (k - 1)) = i + 1 /\ ~(i <= k - 1) /\ ~(i < k)
      BY <1>k, <2>2
    <3>2. b[i - (k - 1)] = s[k + (i - (k - 1))]
      BY <1>2, <3>1
    <3> QED  BY <2>0, <3>1, <3>2
  <2>3. i < k \/ i >= k
    BY <1>k
  <2> QED  BY <2>1, <2>2, <2>3
<1> QED  BY <1>3, <1>4, <1>5, <1>7, <1>8, ListOf DEF n

(* Putting an element in at place k. *)
LEMMA PutIn ==
    ASSUME NEW s, IsList(s), NEW k \in 1 .. Len(s) + 1, NEW e, NEW r, r = InsertAt(s, k, e)
    PROVE  /\ IsList(r)
           /\ Len(r) = Len(s) + 1
           /\ \A i \in 1 .. Len(s) + 1 :
                 r[i] = IF i < k THEN s[i] ELSE IF i = k THEN e ELSE s[i - 1]
<1> DEFINE S == Range(s) \cup {e}
           n == Len(s)
           a == SubSeq(s, 1, k - 1)
           b == SubSeq(s, k, Len(s))
<1>0. n \in Nat /\ s \in Seq(Range(s)) /\ \A i \in 1 .. n : s[i] \in S
  BY LenProperties, ElementOfSeq DEF IsList
<1>s. s \in Seq(S)
  BY <1>0, SeqMonotonic
<1>k. k \in Nat /\ 1 <= k /\ k <= n + 1 /\ k - 1 \in Int /\ 1 \in Int /\ n \in Int
  BY <1>0
<1>e. e \in S
  OBVIOUS
<1> HIDE DEF S
<1>1. /\ a \in Seq(S) /\ Len(a) = k - 1
      /\ \A i \in 1 .. k - 1 : a[i] = s[i]
  <2>1. \A i \in 1 .. k - 1 : s[i] \in S
    BY <1>0, <1>k
  <2>2. /\ a \in Seq(S) /\ Len(a) = IF 1 <= k - 1 THEN (k - 1) - 1 + 1 ELSE 0
        /\ \A i \in 1 .. (k - 1) - 1 + 1 : a[i] = s[1 + i - 1]
    BY <1>s, <1>k, <2>1, SubSeqProperties
  <2> QED  BY <1>k, <2>2
<1>2. /\ b \in Seq(S) /\ Len(b) = n - k + 1
      /\ \A i \in 1 .. n - k + 1 : b[i] = s[k + i - 1]
  <2>1. \A i \in k .. n : s[i] \in S
    BY <1>0, <1>k
  <2>2. /\ b \in Seq(S) /\ Len(b) = IF k <= n THEN n - k + 1 ELSE 0
        /\ \A i \in 1 .. n - k + 1 : b[i] = s[k + i - 1]
    BY <1>s, <1>k, <2>1, SubSeqProperties
  <2> QED  BY <1>k, <2>2
<1>3. /\ <<e>> \in Seq(S) /\ Len(<<e>>) = 1 /\ <<e>>[1] = e
  BY <1>e
<1>4. PICK c : c = a \o <<e>>
  OBVIOUS
<1>5. /\ c \in Seq(S) /\ Len(c) = k
      /\ \A i \in 1 .. k : c[i] = IF i <= k - 1 THEN a[i] ELSE <<e>>[i - (k - 1)]
  <2>1. c \in Seq(S) /\ Len(c) = Len(a) + Len(<<e>>)
    BY <1>1, <1>3, <1>4, ConcatProperties
  <2>2. \A i \in 1 .. Len(a) + Len(<<e>>) :
           c[i] = IF i <= Len(a) THEN a[i] ELSE <<e>>[i - Len(a)]
    BY <1>1, <1>3, <1>4, ConcatProperties
  <2>3. Len(a) + Len(<<e>>) = k /\ Len(a) = k - 1
    BY <1>k, <1>1, <1>3
  <2> QED  BY <2>1, <2>2, <2>3
<1>6. r = c \o b
  BY <1>4 DEF InsertAt
<1> HIDE DEF a, b
<1>7. r \in Seq(S) /\ Len(r) = Len(c) + Len(b)
  <2>1. c \in Seq(S) /\ b \in Seq(S)
    BY <1>2, <1>5
  <2>2. c \o b \in Seq(S)
    BY <2>1, ConcatProperties
  <2>3. Len(c \o b) = Len(c) + Len(b)
    BY <2>1, ConcatProperties
  <2> QED  BY <1>6, <2>2, <2>3
<1>8. \A i \in 1 .. Len(c) + Len(b) : r[i] = IF i <= Len(c) THEN c[i] ELSE b[i - Len(c)]
  BY <1>2, <1>5, <1>6, ConcatProperties
<1>9. Len(c) + Len(b) = n + 1
  BY <1>k, <1>2, <1>5
<1>10. ASSUME NEW i \in 1 .. n + 1
       PROVE  r[i] = IF i < k THEN s[i] ELSE IF i = k THEN e ELSE s[i - 1]
  <2>0. r[i] = IF i <= k THEN c[i] ELSE b[i - k]
    BY <1>5, <1>8, <1>9
  <2>1. CASE i < k
    <3>1. i \in 1 .. k - 1 /\ i \in 1 .. k /\ i <= k /\ i <= k - 1
      BY <1>k, <2>1
    <3>2. r[i] = c[i] /\ c[i] = a[i] /\ a[i] = s[i]
      BY <1>1, <1>5, <2>0, <3>1
    <3> QED  BY <2>1, <3>2
  <2>2. CASE i = k
    <3>1. k \in 1 .. k /\ ~(k <= k - 1) /\ k - (k - 1) = 1
      BY <1>k
    <3>2. c[k] = e
      BY <1>3, <1>5, <3>1
    <3> QED  BY <1>k, <2>0, <2>2, <3>2
  <2>3. CASE i > k
    <3>1. i - k \in 1 .. n - k + 1 /\ k + (i - k) - 1 = i - 1 /\ ~(i <= k) /\ ~(i < k) /\ i # k
      BY <1>k, <2>3
    <3>2. b[i - k] = s[k + (i - k) - 1]
      BY <1>2, <3>1
    <3> QED  BY <2>0, <3>1, <3>2
  <2>4. i < k \/ i = k \/ i > k
    BY <1>k
  <2> QED  BY <2>1, <2>2, <2>3, <2>4
<1> QED  BY <1>7, <1>9, <1>10, ListOf DEF n

(* A list is given by its length and its elements. *)
LEMMA ListFrom ==
    ASSUME NEW n \in Nat, NEW m, DOMAIN m = 1 .. n, m = [i \in 1 .. n |-> m[i]]
    PROVE  IsList(m) /\ Len(m) = n
<1>1. PICK S : S = Range(m)
  OBVIOUS
<1>2. \A i \in 1 .. n : m[i] \in S
  BY <1>1 DEF Range
<1>3. m \in [1 .. n -> S]
  BY <1>2
<1>4. m \in UNION {[1 .. j -> S] : j \in Nat}
  BY <1>3
<1>5. m \in Seq(S)
  BY <1>4, SeqDef
<1>6. IsList(m)
  BY <1>5, ListOf
<1>7. Len(m) \in Nat /\ DOMAIN m = 1 .. Len(m)
  BY <1>6, ListShape
<1>8. Len(m) = n
  BY <1>7
<1> QED  BY <1>6, <1>8

-----------------------------------------------------------------------------
(* Loops.                                                                  *)

(* Induction over the naturals, for a set. *)
LEMMA SetInduction ==
    ASSUME NEW S, 0 \in S, \A n \in Nat : n \in S => n + 1 \in S
    PROVE  Nat \subseteq S
<1> DEFINE T == Nat \ S
<1> SUFFICES ASSUME T # {} PROVE FALSE
  OBVIOUS
<1>1. PICK x \in T : \A y \in T : ~(<<y, x>> \in OpToRel(<, Nat))
  <2>1. \E x \in T : \A y \in T : ~(<<y, x>> \in OpToRel(<, Nat))
    BY WFMin, NatLessThanWellFounded
  <2> QED  BY <2>1
<1>2. x \in Nat /\ x # 0
  OBVIOUS
<1>3. x - 1 \in Nat /\ x - 1 < x /\ (x - 1) + 1 = x
  BY <1>2
<1>4. x - 1 \in T
  BY <1>2, <1>3
<1>5. <<x - 1, x>> \in OpToRel(<, Nat)
  BY <1>2, <1>3 DEF OpToRel
<1> QED  BY <1>1, <1>4, <1>5

(* A set of numbers has its minimum. *)
LEMMA Least ==
    ASSUME NEW S, S \subseteq Nat, S # {}
    PROVE  Min(S) \in S /\ \A y \in S : Min(S) <= y
<1>1. PICK x \in S : \A y \in S : ~(<<y, x>> \in OpToRel(<, Nat))
  <2>1. \E x \in S : \A y \in S : ~(<<y, x>> \in OpToRel(<, Nat))
    BY WFMin, NatLessThanWellFounded
  <2> QED  BY <2>1
<1>2. ASSUME NEW y \in S PROVE x <= y
  <2>1. y \in Nat /\ x \in Nat
    OBVIOUS
  <2>2. ~(y < x)
    BY <1>1, <2>1 DEF OpToRel
  <2> QED  BY <2>1, <2>2
<1> QED  BY <1>2 DEF Min

(* The turns of the inner loop of the sorting. *)
ExchangeTurns(f, m, l, p) ==
    f = [k \in 0 .. m |-> IF k = 0 THEN l
                          ELSE Exchanged(f[k - 1], p, p + k)]

(* The loop has a result. *)
LEMMA ExchangeTurnsRun ==
    ASSUME NEW l, NEW p, NEW k \in Nat
    PROVE  \E f : ExchangeTurns(f, k, l, p)
<1> DEFINE start == l
           Turn(acc, i) == Exchanged(acc, p, p + i)
           S == { m \in Nat : \E f : ExchangeTurns(f, m, l, p) }
<1>0. \A f, m : ExchangeTurns(f, m, l, p) <=>
                    f = [i \in 0 .. m |-> IF i = 0 THEN start ELSE Turn(f[i - 1], i)]
  BY DEF ExchangeTurns
<1> HIDE DEF start, Turn
<1>1. 0 \in S
  <2> DEFINE g == [i \in 0 .. 0 |-> start]
  <2>1. g = [i \in 0 .. 0 |-> IF i = 0 THEN start ELSE Turn(g[i - 1], i)]
    OBVIOUS
  <2>2. ExchangeTurns(g, 0, l, p)
    BY <1>0, <2>1
  <2> QED  BY <2>2
<1>2. ASSUME NEW m \in Nat, m \in S PROVE m + 1 \in S
  <2>1. PICK f : ExchangeTurns(f, m, l, p)
    BY <1>2
  <2> DEFINE g == [i \in 0 .. m + 1 |-> IF i <= m THEN f[i] ELSE Turn(f[m], m + 1)]
  <2>2. ASSUME NEW i \in 0 .. m + 1
        PROVE  g[i] = IF i = 0 THEN start ELSE Turn(g[i - 1], i)
    <3>1. CASE i = 0
      BY <1>0, <2>1, <3>1
    <3>2. CASE i # 0 /\ i <= m
      <4>1. f[i] = Turn(f[i - 1], i)
        BY <1>0, <2>1, <3>2
      <4>2. g[i] = f[i] /\ g[i - 1] = f[i - 1]
        BY <3>2
      <4> QED  BY <3>2, <4>1, <4>2
    <3>3. CASE i = m + 1
      <4>1. g[i] = Turn(f[m], m + 1) /\ g[m] = f[m] /\ i - 1 = m /\ i # 0
        BY <3>3
      <4> QED  BY <3>3, <4>1
    <3>4. i = 0 \/ (i # 0 /\ i <= m) \/ i = m + 1
      OBVIOUS
    <3> QED  BY <3>1, <3>2, <3>3, <3>4
  <2>3. ExchangeTurns(g, m + 1, l, p)
    BY <1>0, <2>2
  <2> QED  BY <2>3
<1>3. Nat \subseteq S
  BY <1>1, <1>2, SetInduction
<1> QED  BY <1>3

(* n turns that begin with l. *)
ExchangeRun(f, n, l, p) ==
    f[0] = l /\ \A k \in 1 .. n : f[k] = Exchanged(f[k - 1], p, p + k)

(* Exchanges is what the last turn leaves. *)
LEMMA ExchangeLoop ==
    ASSUME NEW l, NEW p, NEW n \in Nat, n = Len(l) - p
    PROVE  \E f : ExchangeRun(f, n, l, p) /\ Exchanges(l, p) = f[n]
<1> DEFINE last == CHOOSE f : ExchangeTurns(f, Len(l) - p, l, p)
<1>1. ExchangeTurns(last, n, l, p)
  BY ExchangeTurnsRun
<1>2. Exchanges(l, p) = last[Len(l) - p]
  BY DEF Exchanges, ExchangeTurns
<1>e. Exchanges(l, p) = last[n]
  BY <1>2
<1> HIDE DEF last
<1>3. /\ last[0] = l
      /\ \A k \in 1 .. n : last[k] = Exchanged(last[k - 1], p, p + k)
  <2>0. 0 \in 0 .. n /\ \A i \in 1 .. n : i \in 0 .. n /\ i # 0
    OBVIOUS
  <2>1. last = [k \in 0 .. n |-> IF k = 0 THEN l
                          ELSE Exchanged(last[k - 1], p, p + k)]
    BY <1>1 DEF ExchangeTurns
  <2> QED  BY <2>0, <2>1, Zenon
<1>4. ExchangeRun(last, n, l, p)
  BY <1>3 DEF ExchangeRun
<1> QED  BY <1>e, <1>4

(* The turns of the outer loop. *)
SortTurns(f, m, l) ==
    f = [i \in 0 .. m |-> IF i = 0 THEN l
                          ELSE Exchanges(f[i - 1], i)]

(* The loop has a result. *)
LEMMA SortTurnsRun ==
    ASSUME NEW l, NEW k \in Nat
    PROVE  \E f : SortTurns(f, k, l)
<1> DEFINE start == l
           Turn(acc, i) == Exchanges(acc, i)
           S == { m \in Nat : \E f : SortTurns(f, m, l) }
<1>0. \A f, m : SortTurns(f, m, l) <=>
                    f = [i \in 0 .. m |-> IF i = 0 THEN start ELSE Turn(f[i - 1], i)]
  BY DEF SortTurns
<1> HIDE DEF start, Turn
<1>1. 0 \in S
  <2> DEFINE g == [i \in 0 .. 0 |-> start]
  <2>1. g = [i \in 0 .. 0 |-> IF i = 0 THEN start ELSE Turn(g[i - 1], i)]
    OBVIOUS
  <2>2. SortTurns(g, 0, l)
    BY <1>0, <2>1
  <2> QED  BY <2>2
<1>2. ASSUME NEW m \in Nat, m \in S PROVE m + 1 \in S
  <2>1. PICK f : SortTurns(f, m, l)
    BY <1>2
  <2> DEFINE g == [i \in 0 .. m + 1 |-> IF i <= m THEN f[i] ELSE Turn(f[m], m + 1)]
  <2>2. ASSUME NEW i \in 0 .. m + 1
        PROVE  g[i] = IF i = 0 THEN start ELSE Turn(g[i - 1], i)
    <3>1. CASE i = 0
      BY <1>0, <2>1, <3>1
    <3>2. CASE i # 0 /\ i <= m
      <4>1. f[i] = Turn(f[i - 1], i)
        BY <1>0, <2>1, <3>2
      <4>2. g[i] = f[i] /\ g[i - 1] = f[i - 1]
        BY <3>2
      <4> QED  BY <3>2, <4>1, <4>2
    <3>3. CASE i = m + 1
      <4>1. g[i] = Turn(f[m], m + 1) /\ g[m] = f[m] /\ i - 1 = m /\ i # 0
        BY <3>3
      <4> QED  BY <3>3, <4>1
    <3>4. i = 0 \/ (i # 0 /\ i <= m) \/ i = m + 1
      OBVIOUS
    <3> QED  BY <3>1, <3>2, <3>3, <3>4
  <2>3. SortTurns(g, m + 1, l)
    BY <1>0, <2>2
  <2> QED  BY <2>3
<1>3. Nat \subseteq S
  BY <1>1, <1>2, SetInduction
<1> QED  BY <1>3

(* SortByAddress is what the last turn leaves. *)
LEMMA SortLoop ==
    ASSUME NEW l, NEW n \in Nat, n = Len(l)
    PROVE  \E f : /\ f[0] = l
                  /\ \A i \in 1 .. n : f[i] = Exchanges(f[i - 1], i)
                  /\ SortByAddress(l) = f[n]
<1> DEFINE last == CHOOSE f : SortTurns(f, Len(l), l)
<1>1. SortTurns(last, n, l)
  BY SortTurnsRun
<1>2. SortByAddress(l) = last[Len(l)]
  BY DEF SortByAddress, SortTurns
<1> HIDE DEF last
<1>3. /\ last[0] = l
      /\ \A i \in 1 .. n : last[i] = Exchanges(last[i - 1], i)
  <2>0. 0 \in 0 .. n /\ \A i \in 1 .. n : i \in 0 .. n /\ i # 0
    OBVIOUS
  <2>1. last = [i \in 0 .. n |-> IF i = 0 THEN l
                          ELSE Exchanges(last[i - 1], i)]
    BY <1>1 DEF SortTurns
  <2> QED  BY <2>0, <2>1, Zenon
<1> QED  BY <1>2, <1>3

(* The turns of the loop that merges. *)
MergeTurns(f, m, l) ==
    f = [i \in 0 .. m |-> IF i = 0 THEN [out |-> <<>>, skip |-> FALSE]
                          ELSE MergeTurn(f[i - 1].out, f[i - 1].skip, l[i])]

(* The loop has a result. *)
LEMMA MergeTurnsRun ==
    ASSUME NEW l, NEW k \in Nat
    PROVE  \E f : MergeTurns(f, k, l)
<1> DEFINE start == [out |-> <<>>, skip |-> FALSE]
           Turn(acc, i) == MergeTurn(acc.out, acc.skip, l[i])
           S == { m \in Nat : \E f : MergeTurns(f, m, l) }
<1>0. \A f, m : MergeTurns(f, m, l) <=>
                    f = [i \in 0 .. m |-> IF i = 0 THEN start ELSE Turn(f[i - 1], i)]
  BY DEF MergeTurns
<1> HIDE DEF start, Turn
<1>1. 0 \in S
  <2> DEFINE g == [i \in 0 .. 0 |-> start]
  <2>1. g = [i \in 0 .. 0 |-> IF i = 0 THEN start ELSE Turn(g[i - 1], i)]
    OBVIOUS
  <2>2. MergeTurns(g, 0, l)
    BY <1>0, <2>1
  <2> QED  BY <2>2
<1>2. ASSUME NEW m \in Nat, m \in S PROVE m + 1 \in S
  <2>1. PICK f : MergeTurns(f, m, l)
    BY <1>2
  <2> DEFINE g == [i \in 0 .. m + 1 |-> IF i <= m THEN f[i] ELSE Turn(f[m], m + 1)]
  <2>2. ASSUME NEW i \in 0 .. m + 1
        PROVE  g[i] = IF i = 0 THEN start ELSE Turn(g[i - 1], i)
    <3>1. CASE i = 0
      BY <1>0, <2>1, <3>1
    <3>2. CASE i # 0 /\ i <= m
      <4>1. f[i] = Turn(f[i - 1], i)
        BY <1>0, <2>1, <3>2
      <4>2. g[i] = f[i] /\ g[i - 1] = f[i - 1]
        BY <3>2
      <4> QED  BY <3>2, <4>1, <4>2
    <3>3. CASE i = m + 1
      <4>1. g[i] = Turn(f[m], m + 1) /\ g[m] = f[m] /\ i - 1 = m /\ i # 0
        BY <3>3
      <4> QED  BY <3>3, <4>1
    <3>4. i = 0 \/ (i # 0 /\ i <= m) \/ i = m + 1
      OBVIOUS
    <3> QED  BY <3>1, <3>2, <3>3, <3>4
  <2>3. MergeTurns(g, m + 1, l)
    BY <1>0, <2>2
  <2> QED  BY <2>3
<1>3. Nat \subseteq S
  BY <1>1, <1>2, SetInduction
<1> QED  BY <1>3

(* MergePass is what the last turn leaves. *)
LEMMA MergeLoop ==
    ASSUME NEW l, NEW n \in Nat, n = Len(l)
    PROVE  \E f : /\ f[0] = [out |-> <<>>, skip |-> FALSE]
                  /\ \A i \in 1 .. n : f[i] = MergeTurn(f[i - 1].out, f[i - 1].skip, l[i])
                  /\ MergePass(l) = f[n].out
<1> DEFINE last == CHOOSE f : MergeTurns(f, Len(l), l)
<1>1. MergeTurns(last, n, l)
  BY MergeTurnsRun
<1>2. MergePass(l) = last[Len(l)].out
  BY DEF MergePass, MergeTurns
<1> HIDE DEF last
<1>3. /\ last[0] = [out |-> <<>>, skip |-> FALSE]
      /\ \A i \in 1 .. n : last[i] = MergeTurn(last[i - 1].out, last[i - 1].skip, l[i])
  <2>0. 0 \in 0 .. n /\ \A i \in 1 .. n : i \in 0 .. n /\ i # 0
    OBVIOUS
  <2>1. last = [i \in 0 .. n |-> IF i = 0 THEN [out |-> <<>>, skip |-> FALSE]
                          ELSE MergeTurn(last[i - 1].out, last[i - 1].skip, l[i])]
    BY <1>1 DEF MergeTurns
  <2> QED  BY <2>0, <2>1, Zenon
<1> QED  BY <1>2, <1>3

-----------------------------------------------------------------------------
(* Sorting.                                                                *)

(* The starts are numbers, and all different. *)
Starts(l) ==
    /\ IsList(l)
    /\ \A i \in 1 .. Len(l) : l[i].start \in Nat
    /\ \A i, k \in 1 .. Len(l) : i # k => l[i].start # l[k].start

(* m has the blocks of l in another order. *)
Reordered(l, m) == Starts(m) /\ Len(m) = Len(l) /\ Range(m) = Range(l)

(* What is in a list. *)
LEMMA InRange ==
    ASSUME NEW l, IsList(l)
    PROVE  \A b : b \in Range(l) <=> \E i \in 1 .. Len(l) : b = l[i]
BY ListShape DEF Range

(* A turn of the inner loop, which keeps what is before place p and puts the *)
(* lower of two blocks at place p.                                           *)
LEMMA ExchangeStep ==
    ASSUME NEW l, Starts(l), NEW p \in 1 .. Len(l), NEW k \in 1 .. Len(l), p < k,
           NEW m, m = Exchanged(l, p, k)
    PROVE  /\ Reordered(l, m)
           /\ \A i \in 1 .. Len(l) : i # p /\ i # k => m[i] = l[i]
           /\ m[p].start <= l[p].start /\ m[p].start < m[k].start
<1>1. Len(l) \in Nat /\ DOMAIN l = 1 .. Len(l) /\ IsList(l)
  BY ListShape DEF Starts
<1>2. CASE l[k].start < l[p].start
  <2>1. m = [l EXCEPT ![p] = l[k], ![k] = l[p]]
    BY <1>2 DEF Exchanged
  <2>2. /\ DOMAIN m = 1 .. Len(l) /\ m[p] = l[k] /\ m[k] = l[p]
        /\ \A i \in 1 .. Len(l) : i # p /\ i # k => m[i] = l[i]
    BY <1>1, <2>1
  <2>3. m = [i \in 1 .. Len(l) |-> m[i]]
    BY <1>1, <2>1
  <2>4. IsList(m) /\ Len(m) = Len(l)
    BY <1>1, <2>2, <2>3, ListFrom
  <2>5. Range(m) = Range(l)
    <3>1. \A b : b \in Range(m) <=> \E i \in 1 .. Len(l) : b = m[i]
      BY <2>4, InRange
    <3>2. \A b : b \in Range(l) <=> \E i \in 1 .. Len(l) : b = l[i]
      BY <1>1, InRange
    <3>3. ASSUME NEW b, b \in Range(m) PROVE b \in Range(l)
      BY <2>2, <3>1, <3>2, <3>3
    <3>4. ASSUME NEW b, b \in Range(l) PROVE b \in Range(m)
      <4>1. PICK i \in 1 .. Len(l) : b = l[i]
        BY <3>2, <3>4
      <4>2. CASE i = p
        BY <2>2, <3>1, <4>1, <4>2
      <4>3. CASE i = k
        BY <2>2, <3>1, <4>1, <4>3
      <4>4. CASE i # p /\ i # k
        BY <2>2, <3>1, <4>1, <4>4
      <4> QED  BY <4>2, <4>3, <4>4
    <3> QED  BY <3>3, <3>4
  <2>6. \A i \in 1 .. Len(l) : m[i].start \in Nat
    BY <2>2 DEF Starts
  <2>7. ASSUME NEW i \in 1 .. Len(l), NEW j \in 1 .. Len(l), i # j
        PROVE  m[i].start # m[j].start
    BY <2>2, <2>7 DEF Starts
  <2>8. Starts(m)
    BY <2>4, <2>6, <2>7 DEF Starts
  <2>9. l[p].start \in Nat /\ l[k].start \in Nat
    BY DEF Starts
  <2> QED  BY <1>2, <2>2, <2>4, <2>5, <2>8, <2>9 DEF Reordered
<1>3. CASE ~(l[k].start < l[p].start)
  <2>1. m = l
    BY <1>3 DEF Exchanged
  <2>2. l[p].start \in Nat /\ l[k].start \in Nat /\ l[p].start # l[k].start
    BY <1>1 DEF Starts
  <2>3. l[p].start < l[k].start
    BY <1>3, <2>2
  <2> QED  BY <2>1, <2>2, <2>3 DEF Reordered
<1> QED  BY <1>2, <1>3

(* Orders of orders. *)
LEMMA ReorderedOn ==
    ASSUME NEW l, NEW m, NEW r, Reordered(l, m), Reordered(m, r)
    PROVE  Reordered(l, r)
BY DEF Reordered

(* The inner loop: a lowest block of those from place p on is at place p, and *)
(* what is before it stays.                                                   *)
LEMMA InnerSorts ==
    ASSUME NEW l, Starts(l), NEW p \in 1 .. Len(l), NEW m, m = Exchanges(l, p)
    PROVE  /\ Reordered(l, m)
           /\ \A i \in 1 .. Len(l) : i < p => m[i] = l[i]
           /\ \A i \in 1 .. Len(l) : p < i => m[p].start < m[i].start
<1>0. Len(l) \in Nat
  BY ListShape DEF Starts
<1>n. PICK n \in Nat : n = Len(l) - p
  BY <1>0
<1>1. PICK f : /\ f[0] = l /\ m = f[n]
               /\ \A k \in 1 .. n : f[k] = Exchanged(f[k - 1], p, p + k)
  <2>1. PICK f : ExchangeRun(f, n, l, p) /\ Exchanges(l, p) = f[n]
    BY <1>n, ExchangeLoop
  <2>2. f[0] = l /\ \A k \in 1 .. n : f[k] = Exchanged(f[k - 1], p, p + k)
    BY <2>1 DEF ExchangeRun
  <2>3. m = f[n]
    BY <2>1
  <2> QED  BY <2>2, <2>3
<1> DEFINE Good(k) == /\ Reordered(l, f[k])
                      /\ \A i \in 1 .. Len(l) : i < p => f[k][i] = l[i]
                      /\ \A i \in 1 .. Len(l) : p < i /\ i <= p + k => f[k][p].start < f[k][i].start
           S == {k \in Nat : k <= n => Good(k)}
<1>2. 0 \in S
  BY <1>0, <1>1 DEF Reordered
<1>3. ASSUME NEW k \in Nat, k \in S PROVE k + 1 \in S
  <2> SUFFICES ASSUME k + 1 <= n PROVE Good(k + 1)
    OBVIOUS
  <2>1. Good(k) /\ k + 1 \in 1 .. n /\ (k + 1) - 1 = k
    BY <1>3, <1>n
  <2>2. PICK a, b : a = f[k] /\ b = f[k + 1]
    OBVIOUS
  <2>3. b = Exchanged(a, p, p + (k + 1))
    BY <1>1, <2>1, <2>2
  <2>4. /\ Reordered(l, a) /\ Starts(a) /\ Len(a) = Len(l)
        /\ \A i \in 1 .. Len(l) : i < p => a[i] = l[i]
        /\ \A i \in 1 .. Len(l) : p < i /\ i <= p + k => a[p].start < a[i].start
    <3>1. /\ Reordered(l, a)
          /\ \A i \in 1 .. Len(l) : i < p => a[i] = l[i]
          /\ \A i \in 1 .. Len(l) : p < i /\ i <= p + k => a[p].start < a[i].start
      BY <2>1, <2>2
    <3> QED  BY <3>1 DEF Reordered
  <2>5. PICK q \in 1 .. Len(l) : q = p + (k + 1) /\ p < q
    <3>1. p + (k + 1) \in 1 .. Len(l) /\ p < p + (k + 1)
      BY <1>0, <1>n
    <3> QED  BY <3>1
  <2>6. /\ Reordered(a, b)
        /\ \A i \in 1 .. Len(l) : i # p /\ i # q => b[i] = a[i]
        /\ b[p].start <= a[p].start /\ b[p].start < b[q].start
    BY <2>3, <2>4, <2>5, ExchangeStep
  <2>7. Reordered(l, b)
    BY <2>4, <2>6, ReorderedOn
  <2>8. \A i \in 1 .. Len(l) : i < p => b[i] = l[i]
    BY <2>4, <2>5, <2>6
  <2>9. ASSUME NEW i \in 1 .. Len(l), p < i, i <= p + (k + 1)
        PROVE  b[p].start < b[i].start
    <3>1. CASE i = q
      BY <2>6, <3>1
    <3>2. CASE i # q
      <4>1. i # p /\ i <= p + k
        BY <2>5, <2>9, <3>2
      <4>2. b[i] = a[i] /\ a[p].start < a[i].start
        BY <2>4, <2>6, <2>9, <3>2, <4>1
      <4>3. a[p].start \in Nat /\ a[i].start \in Nat /\ b[p].start \in Nat
        BY <2>4, <2>6 DEF Starts, Reordered
      <4> QED  BY <2>6, <4>2, <4>3
    <3> QED  BY <3>1, <3>2
  <2> QED  BY <2>2, <2>7, <2>8, <2>9
<1>4. Nat \subseteq S
  BY <1>2, <1>3, SetInduction
<1>5. Good(n)
  BY <1>4
<1>6. \A i \in 1 .. Len(l) : i <= p + n
  BY <1>0, <1>n
<1> QED  BY <1>1, <1>5, <1>6

(* Both loops. *)
LEMMA Sorts ==
    ASSUME NEW l, Starts(l), NEW m, m = SortByAddress(l)
    PROVE  /\ Reordered(l, m)
           /\ \A i, k \in 1 .. Len(l) : i < k => m[i].start < m[k].start
<1>n. PICK n \in Nat : n = Len(l)
  BY ListShape DEF Starts
<1>1. PICK f : /\ f[0] = l /\ m = f[n]
               /\ \A i \in 1 .. n : f[i] = Exchanges(f[i - 1], i)
  BY <1>n, SortLoop
<1> DEFINE Good(j) == /\ Reordered(l, f[j])
                      /\ \A i, k \in 1 .. n : i <= j /\ i < k => f[j][i].start < f[j][k].start
           S == {j \in Nat : j <= n => Good(j)}
<1>2. 0 \in S
  BY <1>n, <1>1 DEF Reordered
<1>3. ASSUME NEW j \in Nat, j \in S PROVE j + 1 \in S
  <2> SUFFICES ASSUME j + 1 <= n PROVE Good(j + 1)
    OBVIOUS
  <2>1. Good(j) /\ j + 1 \in 1 .. n /\ (j + 1) - 1 = j
    BY <1>3, <1>n
  <2>2. PICK a, b, p : a = f[j] /\ b = f[j + 1] /\ p = j + 1
    OBVIOUS
  <2>3. b = Exchanges(a, p) /\ p \in 1 .. n
    BY <1>1, <2>1, <2>2
  <2>4. /\ Reordered(l, a) /\ Starts(a) /\ Len(a) = n
        /\ \A i, k \in 1 .. n : i < p /\ i < k => a[i].start < a[k].start
    BY <1>n, <2>1, <2>2 DEF Reordered
  <2>5. /\ Reordered(a, b)
        /\ \A i \in 1 .. n : i < p => b[i] = a[i]
        /\ \A i \in 1 .. n : p < i => b[p].start < b[i].start
    BY <2>3, <2>4, InnerSorts
  <2>6. Reordered(l, b)
    BY <2>4, <2>5, ReorderedOn
  <2>7. ASSUME NEW i \in 1 .. n, NEW k \in 1 .. n, i <= p, i < k
        PROVE  b[i].start < b[k].start
    <3>1. CASE i = p
      BY <2>5, <2>7, <3>1
    <3>2. CASE i < p /\ k < p
      BY <2>4, <2>5, <2>7, <3>2
    <3>3. CASE i < p /\ ~(k < p)
      <4>1. IsList(a) /\ IsList(b) /\ Len(a) = n /\ Len(b) = n /\ Range(b) = Range(a)
        BY <2>4, <2>5 DEF Reordered, Starts
      <4>2. \A c : c \in Range(a) <=> \E q \in 1 .. n : c = a[q]
        BY <4>1, InRange
      <4>3. \A c : c \in Range(b) <=> \E q \in 1 .. n : c = b[q]
        BY <4>1, InRange
      <4>4. PICK q \in 1 .. n : b[k] = a[q]
        BY <4>1, <4>2, <4>3
      <4>5. ~(q < p)
        <5>1. SUFFICES ASSUME q < p PROVE FALSE
          OBVIOUS
        <5>2. b[q] = a[q] /\ q # k
          BY <2>5, <3>3, <5>1
        <5>3. b[q].start # b[k].start
          BY <2>5, <4>1, <5>2 DEF Reordered, Starts
        <5> QED  BY <4>4, <5>2, <5>3
      <4>6. i < q
        BY <2>3, <3>3, <4>5
      <4>7. a[i].start < a[q].start /\ b[i] = a[i]
        BY <2>4, <2>5, <3>3, <4>6
      <4> QED  BY <4>4, <4>7
    <3> QED  BY <2>3, <2>7, <3>1, <3>2, <3>3
  <2> QED  BY <2>2, <2>6, <2>7
<1>4. Nat \subseteq S
  BY <1>2, <1>3, SetInduction
<1>5. Good(n)
  BY <1>4
<1> QED  BY <1>n, <1>1, <1>5

-----------------------------------------------------------------------------
(* Blocks.                                                                 *)

End(b) == b.start + b.size
IsBlock(b) == b.start \in Nat /\ b.size \in Nat \ {0}

(* Blocks by address that do not overlap. *)
InOrder(l) ==
    /\ IsList(l)
    /\ \A i \in 1 .. Len(l) : IsBlock(l[i])
    /\ \A i, k \in 1 .. Len(l) : i < k => End(l[i]) <= l[k].start

(* An address of some block, and one where two blocks meet. *)
Holds(l, x) == \E i \in 1 .. Len(l) : Covers(l[i], x)
SeamAt(l, x) == \E i, k \in 1 .. Len(l) : End(l[i]) = x /\ l[k].start = x
OneSeam(l) == \A x, y : SeamAt(l, x) /\ SeamAt(l, y) => x = y

(* Numbers. *)
LEMMA BlockEnds ==
    ASSUME NEW b, IsBlock(b)
    PROVE  b.start \in Nat /\ b.size \in Nat /\ b.size > 0 /\ End(b) \in Nat /\ b.start < End(b)
BY DEF IsBlock, End

(* Ends are in order as well. *)
LEMMA EndsInOrder ==
    ASSUME NEW l, InOrder(l)
    PROVE  /\ Len(l) \in Nat
           /\ \A i \in 1 .. Len(l) : l[i].start \in Nat /\ End(l[i]) \in Nat /\ l[i].start < End(l[i])
           /\ \A i, k \in 1 .. Len(l) : i < k => End(l[i]) < End(l[k]) /\ l[i].start < l[k].start
<1>1. Len(l) \in Nat
  BY ListShape DEF InOrder
<1>2. \A i \in 1 .. Len(l) : l[i].start \in Nat /\ End(l[i]) \in Nat /\ l[i].start < End(l[i])
  BY BlockEnds DEF InOrder
<1>3. \A i, k \in 1 .. Len(l) : i < k => End(l[i]) <= l[k].start
  BY DEF InOrder
<1>4. ASSUME NEW i \in 1 .. Len(l), NEW k \in 1 .. Len(l), i < k
      PROVE  End(l[i]) < End(l[k]) /\ l[i].start < l[k].start
  BY <1>2, <1>3, <1>4
<1> QED  BY <1>1, <1>2, <1>4

(* An address of a block is a number between its ends. *)
LEMMA CoversIs ==
    ASSUME NEW b, NEW x
    PROVE  Covers(b, x) <=> b.start <= x /\ x < End(b)
BY DEF Covers, End

(* The last block and b in one. *)
Grown(o, n, b) == [o EXCEPT ![n] = Block(o[n].start, o[n].size + b.size)]

(* A turn that merges b into the last block. *)
LEMMA MergeInto ==
    ASSUME NEW o, InOrder(o), NEW n, n = Len(o), n > 0, NEW b, IsBlock(b), End(o[n]) = b.start,
           NEW m, m = Grown(o, n, b)
    PROVE  /\ InOrder(m) /\ Len(m) = n /\ End(m[n]) = End(b)
           /\ \A x \in Nat : Holds(m, x) <=> Holds(o, x) \/ Covers(b, x)
           /\ \A x : SeamAt(m, x) => SeamAt(o, x)
<1>1. /\ n \in Nat /\ DOMAIN o = 1 .. n /\ n \in 1 .. n
      /\ \A i \in 1 .. n : IsBlock(o[i])
      /\ \A i, k \in 1 .. n : i < k => End(o[i]) <= o[k].start
      /\ \A i \in 1 .. n : o[i].start \in Nat /\ End(o[i]) \in Nat /\ o[i].start < End(o[i])
  <2>1. n \in Nat /\ DOMAIN o = 1 .. n
    BY ListShape DEF InOrder
  <2>2. \A i \in 1 .. n : o[i].start \in Nat /\ End(o[i]) \in Nat /\ o[i].start < End(o[i])
    BY EndsInOrder
  <2> QED  BY <2>1, <2>2 DEF InOrder
<1>2. PICK c : c = Block(o[n].start, o[n].size + b.size)
  OBVIOUS
<1>3. IsBlock(c) /\ c.start = o[n].start /\ End(c) = End(b)
  <2>1. c.start = o[n].start /\ c.size = o[n].size + b.size
    BY <1>2 DEF Block
  <2>2. IsBlock(o[n])
    BY <1>1
  <2> QED  BY <2>1, <2>2 DEF IsBlock, End
<1>4. m = [o EXCEPT ![n] = c]
  BY <1>2 DEF Grown
<1>5. DOMAIN m = 1 .. n /\ m[n] = c /\ \A i \in 1 .. n : i # n => m[i] = o[i]
  BY <1>1, <1>4
<1>6. m = [i \in 1 .. n |-> m[i]]
  BY <1>1, <1>4
<1>7. IsList(m) /\ Len(m) = n
  BY <1>1, <1>5, <1>6, ListFrom
<1>8. \A i \in 1 .. n : IsBlock(m[i]) /\ m[i].start = o[i].start
  BY <1>1, <1>3, <1>5
<1>9. ASSUME NEW i \in 1 .. n, NEW k \in 1 .. n, i < k
      PROVE  End(m[i]) <= m[k].start
  <2>1. m[i] = o[i]
    BY <1>5, <1>9
  <2> QED  BY <1>1, <1>8, <1>9, <2>1
<1>10. InOrder(m)
  BY <1>7, <1>8, <1>9 DEF InOrder
<1>11. b.start \in Nat /\ End(b) \in Nat /\ b.start < End(b)
  BY BlockEnds
<1>12. ASSUME NEW x \in Nat
       PROVE  Holds(m, x) <=> Holds(o, x) \/ Covers(b, x)
  <2>1. Covers(c, x) <=> Covers(o[n], x) \/ Covers(b, x)
    <3>1. /\ Covers(c, x) <=> o[n].start <= x /\ x < End(b)
          /\ Covers(o[n], x) <=> o[n].start <= x /\ x < b.start
          /\ Covers(b, x) <=> b.start <= x /\ x < End(b)
      BY <1>3, CoversIs
    <3>2. o[n].start \in Nat /\ o[n].start < b.start
      BY <1>1
    <3> QED  BY <1>11, <3>1, <3>2
  <2>2. ASSUME Holds(m, x) PROVE Holds(o, x) \/ Covers(b, x)
    <3>1. PICK i \in 1 .. n : Covers(m[i], x)
      BY <1>7, <2>2 DEF Holds
    <3> QED  BY <1>1, <1>5, <2>1, <3>1 DEF Holds
  <2>3. ASSUME Holds(o, x) PROVE Holds(m, x)
    <3>1. PICK i \in 1 .. n : Covers(o[i], x)
      BY <2>3 DEF Holds
    <3> QED  BY <1>1, <1>5, <1>7, <2>1, <3>1 DEF Holds
  <2>4. ASSUME Covers(b, x) PROVE Holds(m, x)
    BY <1>1, <1>5, <1>7, <2>1, <2>4 DEF Holds
  <2> QED  BY <2>2, <2>3, <2>4
<1>13. ASSUME NEW x, SeamAt(m, x)
       PROVE  SeamAt(o, x)
  <2>1. PICK i \in 1 .. n, k \in 1 .. n : End(m[i]) = x /\ m[k].start = x
    BY <1>7, <1>13 DEF SeamAt
  <2>2. m[k].start = o[k].start
    BY <1>8
  <2>3. i # n
    <3>1. SUFFICES ASSUME i = n PROVE FALSE
      OBVIOUS
    <3>2. o[k].start = End(b)
      BY <1>3, <1>5, <2>1, <2>2, <3>1
    <3>3. o[k].start <= o[n].start
      BY <1>1
    <3> QED  BY <1>1, <1>11, <3>2, <3>3
  <2> QED  BY <1>5, <2>1, <2>2, <2>3 DEF SeamAt
<1> QED  BY <1>3, <1>5, <1>7, <1>10, <1>12, <1>13

(* b is not before the end of the list. *)
Follows(o, n, b) == n > 0 => End(o[n]) <= b.start

(* The list ends where b begins. *)
SeamBefore(o, n, b, x) == n > 0 /\ End(o[n]) = x /\ b.start = x

(* A turn that leaves b for itself. *)
LEMMA MergeNot ==
    ASSUME NEW o, InOrder(o), NEW n, n = Len(o), NEW b, IsBlock(b), Follows(o, n, b),
           NEW m, m = Append(o, b)
    PROVE  /\ InOrder(m) /\ Len(m) = n + 1 /\ m[n + 1] = b
           /\ \A x \in Nat : Holds(m, x) <=> Holds(o, x) \/ Covers(b, x)
           /\ \A x : SeamAt(m, x) => SeamAt(o, x) \/ SeamBefore(o, n, b, x)
<1>1. /\ n \in Nat
      /\ \A i \in 1 .. n : IsBlock(o[i])
      /\ \A i, k \in 1 .. n : i < k => End(o[i]) <= o[k].start /\ End(o[i]) < End(o[k])
      /\ \A i \in 1 .. n : o[i].start \in Nat /\ End(o[i]) \in Nat /\ o[i].start < End(o[i])
  BY EndsInOrder DEF InOrder
<1>2. /\ IsList(m) /\ Len(m) = n + 1 /\ m[n + 1] = b
      /\ \A i \in 1 .. n : m[i] = o[i]
  BY Appended DEF InOrder
<1>3. b.start \in Nat /\ End(b) \in Nat /\ b.start < End(b)
  BY BlockEnds
<1>4. \A i \in 1 .. n + 1 : i \in 1 .. n \/ i = n + 1
  BY <1>1
<1>5. \A i \in 1 .. n : End(o[i]) <= b.start /\ (i # n => End(o[i]) < b.start)
  <2> TAKE i \in 1 .. n
  <2>1. n > 0 /\ n \in 1 .. n /\ End(o[n]) <= b.start /\ End(o[n]) \in Nat /\ End(o[i]) \in Nat
    BY <1>1 DEF Follows
  <2>2. i # n => End(o[i]) < End(o[n])
    BY <1>1, <2>1
  <2> QED  BY <1>3, <2>1, <2>2
<1>6. \A i \in 1 .. n + 1 : IsBlock(m[i])
  BY <1>1, <1>2, <1>4
<1>7. ASSUME NEW i \in 1 .. n + 1, NEW k \in 1 .. n + 1, i < k
      PROVE  End(m[i]) <= m[k].start
  <2>1. i \in 1 .. n /\ m[i] = o[i]
    BY <1>1, <1>2, <1>7
  <2>2. CASE k \in 1 .. n
    BY <1>1, <1>2, <1>7, <2>1, <2>2
  <2>3. CASE k = n + 1
    BY <1>2, <1>5, <2>1, <2>3
  <2> QED  BY <1>4, <2>2, <2>3
<1>8. InOrder(m)
  BY <1>2, <1>6, <1>7 DEF InOrder
<1>9. ASSUME NEW x \in Nat
      PROVE  Holds(m, x) <=> Holds(o, x) \/ Covers(b, x)
  <2>1. ASSUME Holds(m, x) PROVE Holds(o, x) \/ Covers(b, x)
    <3>1. PICK i \in 1 .. n + 1 : Covers(m[i], x)
      BY <1>2, <2>1 DEF Holds
    <3> QED  BY <1>2, <1>4, <3>1 DEF Holds
  <2>2. ASSUME Holds(o, x) PROVE Holds(m, x)
    <3>1. PICK i \in 1 .. n : Covers(o[i], x)
      BY <2>2 DEF Holds
    <3>2. i \in 1 .. n + 1 /\ m[i] = o[i]
      BY <1>1, <1>2
    <3> QED  BY <1>2, <3>1, <3>2 DEF Holds
  <2>3. ASSUME Covers(b, x) PROVE Holds(m, x)
    <3>1. n + 1 \in 1 .. n + 1
      BY <1>1
    <3> QED  BY <1>2, <2>3, <3>1 DEF Holds
  <2> QED  BY <2>1, <2>2, <2>3
<1>10. ASSUME NEW x, SeamAt(m, x)
       PROVE  SeamAt(o, x) \/ SeamBefore(o, n, b, x)
  <2>1. PICK i \in 1 .. n + 1, k \in 1 .. n + 1 : End(m[i]) = x /\ m[k].start = x
    BY <1>2, <1>10 DEF SeamAt
  <2>2. i # n + 1
    <3>1. SUFFICES ASSUME i = n + 1 PROVE FALSE
      OBVIOUS
    <3>2. m[k].start = End(b)
      BY <1>2, <2>1, <3>1
    <3>3. CASE k = n + 1
      BY <1>2, <1>3, <3>2, <3>3
    <3>4. CASE k \in 1 .. n
      BY <1>1, <1>2, <1>3, <1>5, <3>2, <3>4
    <3> QED  BY <1>4, <3>3, <3>4
  <2>3. i \in 1 .. n /\ m[i] = o[i]
    BY <1>2, <1>4, <2>2
  <2>4. CASE k \in 1 .. n
    BY <1>2, <2>1, <2>3, <2>4 DEF SeamAt
  <2>5. CASE k = n + 1
    <3>1. End(o[i]) = x /\ b.start = x
      BY <1>2, <2>1, <2>3, <2>5
    <3>2. i = n
      BY <1>1, <1>3, <1>5, <2>3, <3>1
    <3> QED  BY <1>1, <2>3, <3>1, <3>2 DEF SeamBefore
  <2> QED  BY <1>4, <2>4, <2>5
<1> QED  BY <1>2, <1>8, <1>9, <1>10

(* Two blocks of l meet at x, and the loop did not merge them: the first of *)
(* them had just been merged with the one before.                           *)
Missed(l, f, i, x) ==
    \E j \in 2 .. i : /\ End(l[j - 1]) = x /\ l[j].start = x
                      /\ f[j - 1].skip = TRUE /\ f[j].skip = FALSE

(* What the loop that merges has done after i turns. *)
MergedTo(l, f, i) ==
    /\ f[i] = [out |-> f[i].out, skip |-> f[i].skip]
    /\ f[i].skip \in {TRUE, FALSE}
    /\ InOrder(f[i].out)
    /\ i = 0 => Len(f[i].out) = 0 /\ f[i].skip = FALSE
    /\ i > 0 => Len(f[i].out) > 0 /\ End(f[i].out[Len(f[i].out)]) = End(l[i])
    /\ f[i].skip = TRUE => i > 1 /\ End(l[i - 1]) = l[i].start /\ f[i - 1].skip = FALSE
    /\ \A x \in Nat : Holds(f[i].out, x) <=> \E j \in 1 .. i : Covers(l[j], x)
    /\ \A x : SeamAt(f[i].out, x) => Missed(l, f, i, x)

(* A turn. *)
LEMMA MergeStep ==
    ASSUME NEW l, InOrder(l), NEW f, NEW i \in Nat, i + 1 <= Len(l), MergedTo(l, f, i),
           f[i + 1] = MergeTurn(f[i].out, f[i].skip, l[i + 1])
    PROVE  MergedTo(l, f, i + 1)
<1>1. PICK o, n, b, m : o = f[i].out /\ n = Len(o) /\ b = l[i + 1] /\ m = f[i + 1].out
  OBVIOUS
<1>2. /\ i + 1 \in 1 .. Len(l) /\ IsBlock(b) /\ Len(l) \in Nat
      /\ b.start \in Nat /\ End(b) \in Nat
      /\ i > 0 => i \in 1 .. Len(l) /\ End(l[i]) <= b.start /\ End(l[i]) \in Nat
  <2>1. Len(l) \in Nat /\ \A k \in 1 .. Len(l) : l[k].start \in Nat /\ End(l[k]) \in Nat
    BY EndsInOrder
  <2>2. i + 1 \in 1 .. Len(l) /\ (i > 0 => i \in 1 .. Len(l))
    BY <2>1
  <2>3. i > 0 => End(l[i]) <= b.start
    BY <1>1, <2>2 DEF InOrder
  <2> QED  BY <1>1, <2>1, <2>2, <2>3 DEF InOrder
<1>3. /\ InOrder(o) /\ f[i].skip \in {TRUE, FALSE}
      /\ i = 0 => n = 0 /\ f[i].skip = FALSE
      /\ i > 0 => n > 0 /\ End(o[n]) = End(l[i])
      /\ \A x \in Nat : Holds(o, x) <=> \E j \in 1 .. i : Covers(l[j], x)
      /\ \A x : SeamAt(o, x) => Missed(l, f, i, x)
  BY <1>1 DEF MergedTo
<1>n. n \in Nat
  BY <1>1, <1>3, EndsInOrder
<1>4. \A x : Missed(l, f, i, x) => Missed(l, f, i + 1, x)
  BY DEF Missed
<1>5. \A x : (\E j \in 1 .. i + 1 : Covers(l[j], x)) <=> (\E j \in 1 .. i : Covers(l[j], x)) \/ Covers(b, x)
  <2>1. \A j \in 1 .. i + 1 : j \in 1 .. i \/ j = i + 1
    OBVIOUS
  <2>2. i + 1 \in 1 .. i + 1 /\ \A j \in 1 .. i : j \in 1 .. i + 1
    OBVIOUS
  <2> QED  BY <1>1, <2>1, <2>2
<1>6. CASE n > 0 /\ f[i].skip = FALSE /\ End(o[n]) = b.start
  <2>1. f[i + 1] = [out |-> [o EXCEPT ![n] = Block(o[n].start, o[n].size + b.size)], skip |-> TRUE]
    BY <1>1, <1>6 DEF MergeTurn, End
  <2>2. /\ m = [o EXCEPT ![n] = Block(o[n].start, o[n].size + b.size)]
        /\ f[i + 1].skip = TRUE /\ f[i + 1] = [out |-> m, skip |-> TRUE]
    BY <1>1, <2>1
  <2>3. /\ InOrder(m) /\ Len(m) = n /\ End(m[n]) = End(b)
        /\ \A x \in Nat : Holds(m, x) <=> Holds(o, x) \/ Covers(b, x)
        /\ \A x : SeamAt(m, x) => SeamAt(o, x)
    <3>1. InOrder(o) /\ n = Len(o) /\ n > 0 /\ IsBlock(b) /\ End(o[n]) = b.start
      BY <1>1, <1>2, <1>3, <1>6
    <3>2. m = Grown(o, n, b)
      BY <2>2 DEF Grown
    <3> QED  BY <3>1, <3>2, MergeInto
  <2>4. i > 0
    BY <1>3, <1>6
  <2>5. i + 1 > 1 /\ (i + 1) - 1 = i /\ i + 1 > 0 /\ i + 1 # 0
    BY <2>4
  <2>6. End(l[(i + 1) - 1]) = l[i + 1].start /\ f[(i + 1) - 1].skip = FALSE
    BY <1>1, <1>3, <1>6, <2>4, <2>5
  <2>7. \A x \in Nat : Holds(m, x) <=> \E j \in 1 .. i + 1 : Covers(l[j], x)
    BY <1>3, <1>5, <2>3
  <2>8. \A x : SeamAt(m, x) => Missed(l, f, i + 1, x)
    BY <1>3, <1>4, <2>3
  <2>9. Len(m) > 0 /\ End(m[Len(m)]) = End(l[i + 1])
    BY <1>1, <1>6, <2>3
  <2> QED  BY <1>1, <2>2, <2>3, <2>5, <2>6, <2>7, <2>8, <2>9 DEF MergedTo
<1>7. CASE ~(n > 0 /\ f[i].skip = FALSE /\ End(o[n]) = b.start)
  <2>1. f[i + 1] = [out |-> Append(o, b), skip |-> FALSE]
    BY <1>1, <1>3, <1>7 DEF MergeTurn, End
  <2>2. m = Append(o, b) /\ f[i + 1].skip = FALSE /\ f[i + 1] = [out |-> m, skip |-> FALSE]
    BY <1>1, <2>1
  <2>3. n > 0 => i > 0 /\ End(o[n]) = End(l[i]) /\ End(o[n]) <= b.start
    BY <1>2, <1>3
  <2>4. /\ InOrder(m) /\ Len(m) = n + 1 /\ m[n + 1] = b
        /\ \A x \in Nat : Holds(m, x) <=> Holds(o, x) \/ Covers(b, x)
        /\ \A x : SeamAt(m, x) => SeamAt(o, x) \/ SeamBefore(o, n, b, x)
    <3>1. /\ InOrder(o) /\ n = Len(o) /\ IsBlock(b) /\ m = Append(o, b)
          /\ Follows(o, n, b)
      BY <1>1, <1>2, <1>3, <2>2, <2>3 DEF Follows
    <3>2. InOrder(m) /\ Len(m) = n + 1
      BY <3>1, <1>n, MergeNot
    <3>3. m[n + 1] = b
      BY <3>1, <1>n, MergeNot
    <3>4. \A x \in Nat : Holds(m, x) <=> Holds(o, x) \/ Covers(b, x)
      BY <3>1, <1>n, MergeNot
    <3>5. \A x : SeamAt(m, x) => SeamAt(o, x) \/ SeamBefore(o, n, b, x)
      BY <3>1, <1>n, MergeNot
    <3> QED  BY <3>2, <3>3, <3>4, <3>5
  <2>5. (i + 1) - 1 = i /\ i + 1 > 0 /\ i + 1 # 0 /\ n + 1 > 0
    BY <1>n
  <2>6. ASSUME NEW x, SeamBefore(o, n, b, x)
        PROVE  Missed(l, f, i + 1, x)
    <3>0. n > 0 /\ End(o[n]) = x /\ b.start = x
      BY <2>6 DEF SeamBefore
    <3>1. f[i].skip = TRUE
      BY <1>3, <1>7, <3>0
    <3>2. i > 0 /\ i + 1 \in 2 .. i + 1
      BY <2>3, <3>0
    <3>3. End(l[(i + 1) - 1]) = x /\ l[i + 1].start = x
      BY <1>1, <2>3, <2>5, <3>0
    <3> QED  BY <2>2, <2>5, <3>1, <3>2, <3>3 DEF Missed
  <2>7. \A x \in Nat : Holds(m, x) <=> \E j \in 1 .. i + 1 : Covers(l[j], x)
    BY <1>3, <1>5, <2>4
  <2>8. \A x : SeamAt(m, x) => Missed(l, f, i + 1, x)
    BY <1>3, <1>4, <2>4, <2>6
  <2>9. Len(m) > 0 /\ End(m[Len(m)]) = End(l[i + 1])
    BY <1>1, <2>4, <2>5
  <2> QED  BY <1>1, <2>2, <2>4, <2>5, <2>7, <2>8, <2>9 DEF MergedTo
<1> QED  BY <1>6, <1>7

(* If blocks meet at three addresses at most, at most one of those is missed: *)
(* before each that is missed there is one that is not.                       *)
LEMMA MissesOne ==
    ASSUME NEW l, InOrder(l), NEW f, \A i \in 0 .. Len(l) : MergedTo(l, f, i),
           NEW u, NEW v, NEW w, \A x : SeamAt(l, x) => x \in {u, v, w}
    PROVE  \A x, y : Missed(l, f, Len(l), x) /\ Missed(l, f, Len(l), y) => x = y
<1>0. /\ Len(l) \in Nat
      /\ \A i \in 1 .. Len(l) : End(l[i]) \in Nat
      /\ \A i, k \in 1 .. Len(l) : i < k => End(l[i]) < End(l[k])
  BY EndsInOrder
<1>1. ASSUME NEW j \in 2 .. Len(l), f[j - 1].skip = TRUE, l[j].start = End(l[j - 1])
      PROVE  /\ j > 2 /\ f[j - 2].skip = FALSE
             /\ End(l[j - 2]) \in {u, v, w} /\ End(l[j - 1]) \in {u, v, w}
  <2>1. j - 1 \in 0 .. Len(l) /\ j - 1 \in 1 .. Len(l) /\ j \in 1 .. Len(l) /\ (j - 1) - 1 = j - 2
    BY <1>0
  <2>2. j - 1 > 1 /\ End(l[j - 2]) = l[j - 1].start /\ f[j - 2].skip = FALSE
    BY <1>1, <2>1 DEF MergedTo
  <2>3. j - 2 \in 1 .. Len(l) /\ j > 2
    BY <1>0, <2>1, <2>2
  <2>4. SeamAt(l, End(l[j - 2])) /\ SeamAt(l, End(l[j - 1]))
    BY <1>1, <2>1, <2>2, <2>3 DEF SeamAt
  <2> QED  BY <2>2, <2>3, <2>4
<1>2. ASSUME NEW j \in 2 .. Len(l), NEW k \in 2 .. Len(l), j < k,
             f[j - 1].skip = TRUE, f[j].skip = FALSE, l[j].start = End(l[j - 1]),
             f[k - 1].skip = TRUE, l[k].start = End(l[k - 1])
      PROVE  FALSE
  <2>1. /\ j > 2 /\ End(l[j - 2]) \in {u, v, w} /\ End(l[j - 1]) \in {u, v, w}
        /\ k > 2 /\ End(l[k - 2]) \in {u, v, w} /\ End(l[k - 1]) \in {u, v, w}
    BY <1>1, <1>2
  <2>2. k - 1 # j
    BY <1>2
  <2>3. /\ j - 2 \in 1 .. Len(l) /\ j - 1 \in 1 .. Len(l) /\ k - 2 \in 1 .. Len(l) /\ k - 1 \in 1 .. Len(l)
        /\ j - 2 < j - 1 /\ j - 1 < k - 2 /\ k - 2 < k - 1
    <3>1. PICK N \in Nat : N = Len(l)
      BY <1>0
    <3>2. j \in 2 .. N /\ k \in 2 .. N /\ j < k
      BY <1>2, <3>1
    <3>3. j > 2 /\ k > 2 /\ k - 1 # j
      BY <2>1, <2>2
    <3>4. /\ j - 2 \in 1 .. N /\ j - 1 \in 1 .. N /\ k - 2 \in 1 .. N /\ k - 1 \in 1 .. N
          /\ j - 2 < j - 1 /\ j - 1 < k - 2 /\ k - 2 < k - 1
      BY <3>2, <3>3
    <3> QED  BY <3>1, <3>4
  <2>4. PICK a, b, c, d : a = End(l[j - 2]) /\ b = End(l[j - 1]) /\ c = End(l[k - 2]) /\ d = End(l[k - 1])
    OBVIOUS
  <2>5. a < b /\ b < c /\ c < d /\ a \in Nat /\ b \in Nat /\ c \in Nat /\ d \in Nat
    BY <1>0, <2>3, <2>4
  <2>6. a \in {u, v, w} /\ b \in {u, v, w} /\ c \in {u, v, w} /\ d \in {u, v, w}
    BY <2>1, <2>4
  <2>7. a # b /\ a # c /\ a # d /\ b # c /\ b # d /\ c # d
    BY <2>5
  <2> QED  BY <2>6, <2>7
<1>3. ASSUME NEW x, NEW y, Missed(l, f, Len(l), x), Missed(l, f, Len(l), y)
      PROVE  x = y
  <2>1. PICK j \in 2 .. Len(l) : /\ End(l[j - 1]) = x /\ l[j].start = x
                                 /\ f[j - 1].skip = TRUE /\ f[j].skip = FALSE
    BY <1>3 DEF Missed
  <2>2. PICK k \in 2 .. Len(l) : /\ End(l[k - 1]) = y /\ l[k].start = y
                                 /\ f[k - 1].skip = TRUE /\ f[k].skip = FALSE
    BY <1>3 DEF Missed
  <2>3. ~(j < k)
    BY <1>2, <2>1, <2>2
  <2>4. ~(k < j)
    BY <1>2, <2>1, <2>2
  <2>5. j = k
    BY <1>0, <2>3, <2>4
  <2> QED  BY <2>1, <2>2, <2>5
<1> QED  BY <1>3

(* The loop that merges. *)
LEMMA Merges ==
    ASSUME NEW l, InOrder(l), NEW u, NEW v, NEW w, \A x : SeamAt(l, x) => x \in {u, v, w},
           NEW m, m = MergePass(l)
    PROVE  InOrder(m) /\ OneSeam(m) /\ \A x \in Nat : Holds(m, x) <=> Holds(l, x)
<1>n. PICK n \in Nat : n = Len(l)
  BY EndsInOrder
<1>1. PICK f : /\ f[0] = [out |-> <<>>, skip |-> FALSE] /\ m = f[n].out
               /\ \A i \in 1 .. n : f[i] = MergeTurn(f[i - 1].out, f[i - 1].skip, l[i])
  BY <1>n, MergeLoop
<1> DEFINE S == {i \in Nat : i <= n => MergedTo(l, f, i)}
<1>2. 0 \in S
  <2>1. PICK o : o = f[0].out
    OBVIOUS
  <2>2. o = <<>> /\ f[0].skip = FALSE /\ f[0] = [out |-> o, skip |-> FALSE]
    BY <1>1, <2>1
  <2>3. IsList(o) /\ Len(o) = 0
    <3>1. o \in Seq({})
      BY <2>2
    <3> QED  BY <2>2, <3>1, ListOf
  <2>4. InOrder(o) /\ (\A x : ~Holds(o, x)) /\ (\A x : ~SeamAt(o, x))
    BY <2>3 DEF InOrder, Holds, SeamAt
  <2>5. MergedTo(l, f, 0)
    BY <2>1, <2>2, <2>3, <2>4 DEF MergedTo
  <2> QED  BY <2>5
<1>3. ASSUME NEW i \in Nat, i \in S PROVE i + 1 \in S
  <2> SUFFICES ASSUME i + 1 <= n PROVE MergedTo(l, f, i + 1)
    OBVIOUS
  <2>1. MergedTo(l, f, i) /\ i + 1 \in 1 .. n /\ (i + 1) - 1 = i
    BY <1>n, <1>3
  <2>2. f[i + 1] = MergeTurn(f[i].out, f[i].skip, l[i + 1])
    BY <1>1, <2>1
  <2> QED  BY <1>n, <2>1, <2>2, MergeStep
<1>4. Nat \subseteq S
  BY <1>2, <1>3, SetInduction
<1>5. \A i \in 0 .. n : MergedTo(l, f, i)
  BY <1>4
<1>6. /\ InOrder(m)
      /\ \A x \in Nat : Holds(m, x) <=> \E j \in 1 .. n : Covers(l[j], x)
      /\ \A x : SeamAt(m, x) => Missed(l, f, n, x)
  <2>1. MergedTo(l, f, n)
    BY <1>n, <1>5
  <2>2. /\ InOrder(f[n].out)
        /\ \A x \in Nat : Holds(f[n].out, x) <=> \E j \in 1 .. n : Covers(l[j], x)
        /\ \A x : SeamAt(f[n].out, x) => Missed(l, f, n, x)
    BY <2>1, Zenon DEF MergedTo
  <2> QED  BY <1>1, <2>2, Zenon
<1>7. OneSeam(m)
  <2>1. \A x, y : Missed(l, f, n, x) /\ Missed(l, f, n, y) => x = y
    BY <1>n, <1>5, MissesOne
  <2> QED  BY <1>6, <2>1 DEF OneSeam
<1> QED  BY <1>n, <1>6, <1>7 DEF Holds

-----------------------------------------------------------------------------
(* free_mem.                                                               *)

(* No address in common. *)
Disjoint(a, b) == \A x \in Nat : ~(Covers(a, x) /\ Covers(b, x))

(* Blocks with no common address are apart. *)
LEMMA Apart ==
    ASSUME NEW a, NEW b, IsBlock(a), IsBlock(b), Disjoint(a, b)
    PROVE  a.start # b.start /\ (a.start < b.start => End(a) <= b.start)
<1>1. /\ a.start \in Nat /\ End(a) \in Nat /\ a.start < End(a)
      /\ b.start \in Nat /\ End(b) \in Nat /\ b.start < End(b)
  BY BlockEnds
<1>2. ~(Covers(a, b.start) /\ Covers(b, b.start))
  BY <1>1 DEF Disjoint
<1>3. ~(a.start <= b.start /\ b.start < End(a) /\ b.start <= b.start /\ b.start < End(b))
  BY <1>2, CoversIs
<1> QED  BY <1>1, <1>3

(* Different blocks of a list in order have no common address. *)
LEMMA InOrderDisjoint ==
    ASSUME NEW l, InOrder(l), NEW i \in 1 .. Len(l), NEW k \in 1 .. Len(l), i # k
    PROVE  Disjoint(l[i], l[k])
<1>1. Len(l) \in Nat /\ l[i].start \in Nat /\ End(l[i]) \in Nat /\ l[k].start \in Nat /\ End(l[k]) \in Nat
  BY EndsInOrder
<1>2. i < k => End(l[i]) <= l[k].start
  BY DEF InOrder
<1>3. k < i => End(l[k]) <= l[i].start
  BY DEF InOrder
<1>4. ASSUME NEW x \in Nat, Covers(l[i], x), Covers(l[k], x) PROVE FALSE
  <2>1. l[i].start <= x /\ x < End(l[i]) /\ l[k].start <= x /\ x < End(l[k])
    BY <1>4, CoversIs
  <2>2. i < k \/ k < i
    BY <1>1
  <2> QED  BY <1>1, <1>2, <1>3, <2>1, <2>2
<1> QED  BY <1>4 DEF Disjoint

(* Blocks of which no two have an address in common. *)
Scattered(l) ==
    /\ IsList(l)
    /\ \A i \in 1 .. Len(l) : IsBlock(l[i])
    /\ \A i, k \in 1 .. Len(l) : i # k => Disjoint(l[i], l[k])

(* b is in the list. *)
Has(l, b) == \E i \in 1 .. Len(l) : b = l[i]

(* Such blocks sort. *)
LEMMA SortsScattered ==
    ASSUME NEW l, Scattered(l), NEW m, m = SortByAddress(l)
    PROVE  /\ InOrder(m)
           /\ \A b : Has(m, b) <=> Has(l, b)
<1>1. Starts(l)
  <2>1. \A i \in 1 .. Len(l) : l[i].start \in Nat
    BY BlockEnds DEF Scattered
  <2>2. ASSUME NEW i \in 1 .. Len(l), NEW k \in 1 .. Len(l), i # k
        PROVE  l[i].start # l[k].start
    <3>1. IsBlock(l[i]) /\ IsBlock(l[k]) /\ Disjoint(l[i], l[k])
      BY <2>2 DEF Scattered
    <3> QED  BY <3>1, Apart
  <2> QED  BY <2>1, <2>2 DEF Starts, Scattered
<1>2. PICK n : n = Len(l)
  OBVIOUS
<1>3. /\ Starts(m) /\ Len(m) = n /\ Range(m) = Range(l)
      /\ \A i, k \in 1 .. n : i < k => m[i].start < m[k].start
  BY <1>1, <1>2, Sorts DEF Reordered
<1>4. /\ \A b : b \in Range(l) <=> \E i \in 1 .. n : b = l[i]
      /\ \A b : b \in Range(m) <=> \E i \in 1 .. n : b = m[i]
  BY <1>2, <1>3, InRange DEF Starts, Scattered
<1>5. \A i \in 1 .. n : \E p \in 1 .. n : m[i] = l[p]
  BY <1>3, <1>4
<1>6. ASSUME NEW i \in 1 .. n, NEW k \in 1 .. n, i < k
      PROVE  End(m[i]) <= m[k].start
  <2>1. PICK p \in 1 .. n : m[i] = l[p]
    BY <1>5
  <2>2. PICK q \in 1 .. n : m[k] = l[q]
    BY <1>5
  <2>3. m[i].start < m[k].start
    BY <1>3, <1>6
  <2>4. m[i].start \in Nat /\ m[k].start \in Nat
    BY <1>3 DEF Starts
  <2>5. p # q
    BY <2>1, <2>2, <2>3, <2>4
  <2>6. IsBlock(m[i]) /\ IsBlock(m[k]) /\ Disjoint(m[i], m[k])
    BY <1>2, <2>1, <2>2, <2>5 DEF Scattered
  <2> QED  BY <2>3, <2>6, Apart
<1>7. \A i \in 1 .. n : IsBlock(m[i])
  BY <1>2, <1>5 DEF Scattered
<1>8. IsList(m)
  BY <1>3 DEF Starts
<1>9. InOrder(m)
  BY <1>3, <1>6, <1>7, <1>8 DEF InOrder
<1> QED  BY <1>2, <1>3, <1>4, <1>9 DEF Has

(* A block goes back behind the first of the list, and rearrange follows. *)
LEMMA Rearranged ==
    ASSUME NEW l, InOrder(l), OneSeam(l), Len(l) > 0, NEW b, IsBlock(b),
           \A x \in Nat : ~(Holds(l, x) /\ Covers(b, x)),
           NEW r, r = rearrange(InsertAt(l, 2, b))
    PROVE  InOrder(r) /\ OneSeam(r) /\ \A x \in Nat : Holds(r, x) <=> Holds(l, x) \/ Covers(b, x)
<1>n. PICK n \in Nat : n = Len(l) /\ n > 0
  BY EndsInOrder
<1>1. PICK j : j = InsertAt(l, 2, b)
  OBVIOUS
<1>2. /\ IsList(j) /\ Len(j) = n + 1
      /\ \A i \in 1 .. n + 1 : j[i] = IF i < 2 THEN l[i] ELSE IF i = 2 THEN b ELSE l[i - 1]
  <2>1. IsList(l) /\ 2 \in 1 .. Len(l) + 1
    BY <1>n DEF InOrder
  <2> QED  BY <1>n, <1>1, <2>1, PutIn
<1>3. /\ 2 \in 1 .. n + 1 /\ j[2] = b
      /\ \A i \in 1 .. n + 1 : i # 2 => \E p \in 1 .. n : j[i] = l[p] /\ p = IF i < 2 THEN i ELSE i - 1
  <2>1. 2 \in 1 .. n + 1 /\ j[2] = b
    BY <1>n, <1>2
  <2>2. ASSUME NEW i \in 1 .. n + 1, i # 2
        PROVE  \E p \in 1 .. n : j[i] = l[p] /\ p = IF i < 2 THEN i ELSE i - 1
    <3>1. CASE i < 2
      BY <1>n, <1>2, <3>1
    <3>2. CASE ~(i < 2)
      <4>1. i - 1 \in 1 .. n /\ j[i] = l[i - 1]
        BY <1>n, <1>2, <2>2, <3>2
      <4> QED  BY <3>2, <4>1
    <3> QED  BY <3>1, <3>2
  <2> QED  BY <2>1, <2>2
<1>4. \A p \in 1 .. n : \E i \in 1 .. n + 1 : j[i] = l[p]
  <2> TAKE p \in 1 .. n
  <2>1. CASE p = 1
    BY <1>n, <1>2, <2>1
  <2>2. CASE p > 1
    <3>1. p + 1 \in 1 .. n + 1 /\ (p + 1) - 1 = p /\ ~(p + 1 < 2) /\ p + 1 # 2
      BY <1>n, <2>2
    <3>2. j[p + 1] = l[p]
      BY <1>2, <3>1
    <3> QED  BY <3>1, <3>2
  <2> QED  BY <2>1, <2>2
<1>5. \A p \in 1 .. n : IsBlock(l[p]) /\ Disjoint(l[p], b) /\ Disjoint(b, l[p])
  <2> TAKE p \in 1 .. n
  <2>1. IsBlock(l[p])
    BY <1>n DEF InOrder
  <2>2. \A x \in Nat : Covers(l[p], x) => Holds(l, x)
    BY <1>n DEF Holds
  <2> QED  BY <2>1, <2>2 DEF Disjoint
<1>6. Scattered(j)
  <2>1. \A i \in 1 .. n + 1 : IsBlock(j[i])
    <3> TAKE i \in 1 .. n + 1
    <3>1. CASE i = 2
      BY <1>3, <3>1
    <3>2. CASE i # 2
      BY <1>3, <1>5, <3>2
    <3> QED  BY <3>1, <3>2
  <2>2. ASSUME NEW i \in 1 .. n + 1, NEW k \in 1 .. n + 1, i # k
        PROVE  Disjoint(j[i], j[k])
    <3>1. CASE i = 2
      <4>1. PICK q \in 1 .. n : j[k] = l[q]
        BY <1>3, <2>2, <3>1
      <4> QED  BY <1>3, <1>5, <3>1, <4>1
    <3>2. CASE k = 2
      <4>1. PICK p \in 1 .. n : j[i] = l[p]
        BY <1>3, <2>2, <3>2
      <4> QED  BY <1>3, <1>5, <3>2, <4>1
    <3>3. CASE i # 2 /\ k # 2
      <4>1. PICK p \in 1 .. n : j[i] = l[p] /\ p = IF i < 2 THEN i ELSE i - 1
        BY <1>3, <3>3
      <4>2. PICK q \in 1 .. n : j[k] = l[q] /\ q = IF k < 2 THEN k ELSE k - 1
        BY <1>3, <3>3
      <4>3. p # q
        BY <2>2, <3>3, <4>1, <4>2
      <4>4. Disjoint(l[p], l[q])
        BY <1>n, <4>3, InOrderDisjoint
      <4> QED  BY <4>1, <4>2, <4>4
    <3> QED  BY <3>1, <3>2, <3>3
  <2> QED  BY <1>2, <2>1, <2>2 DEF Scattered
<1>7. PICK m : m = SortByAddress(j)
  OBVIOUS
<1>8. /\ InOrder(m)
      /\ \A c : (\E i \in 1 .. Len(m) : c = m[i]) <=> (\E i \in 1 .. n + 1 : c = j[i])
  <2>1. InOrder(m)
    BY <1>6, <1>7, SortsScattered
  <2>2. \A c : Has(m, c) <=> Has(j, c)
    BY <1>6, <1>7, SortsScattered
  <2> QED  BY <1>2, <2>1, <2>2 DEF Has
<1>9. \A c : (\E i \in 1 .. Len(m) : c = m[i]) <=> (c = b \/ \E p \in 1 .. n : c = l[p])
  <2>1. ASSUME NEW c, NEW i \in 1 .. n + 1, c = j[i] PROVE c = b \/ \E p \in 1 .. n : c = l[p]
    BY <1>3, <2>1
  <2>2. ASSUME NEW c, c = b PROVE \E i \in 1 .. n + 1 : c = j[i]
    BY <1>3, <2>2
  <2>3. ASSUME NEW c, NEW p \in 1 .. n, c = l[p] PROVE \E i \in 1 .. n + 1 : c = j[i]
    BY <1>4, <2>3
  <2>4. \A c : (\E i \in 1 .. n + 1 : c = j[i]) <=> (c = b \/ \E p \in 1 .. n : c = l[p])
    BY <2>1, <2>2, <2>3
  <2> QED  BY <1>8, <2>4
<1>10. \A x : Holds(m, x) <=> Holds(l, x) \/ Covers(b, x)
  <2>1. ASSUME NEW x, Holds(m, x) PROVE Holds(l, x) \/ Covers(b, x)
    <3>1. PICK i \in 1 .. Len(m) : Covers(m[i], x)
      BY <2>1 DEF Holds
    <3>2. m[i] = b \/ \E p \in 1 .. n : m[i] = l[p]
      BY <1>9
    <3> QED  BY <1>n, <3>1, <3>2 DEF Holds
  <2>2. ASSUME NEW x, Holds(l, x) PROVE Holds(m, x)
    <3>1. PICK p \in 1 .. n : Covers(l[p], x)
      BY <1>n, <2>2 DEF Holds
    <3>2. \E i \in 1 .. Len(m) : l[p] = m[i]
      BY <1>9
    <3> QED  BY <3>1, <3>2 DEF Holds
  <2>3. ASSUME NEW x, Covers(b, x) PROVE Holds(m, x)
    <3>1. \E i \in 1 .. Len(m) : b = m[i]
      BY <1>9
    <3> QED  BY <2>3, <3>1 DEF Holds
  <2> QED  BY <2>1, <2>2, <2>3
<1>11. PICK u : \A x : SeamAt(l, x) => x = u
  BY DEF OneSeam
<1>12. ASSUME NEW x, SeamAt(m, x) PROVE x \in {u, b.start, End(b)}
  <2>1. PICK i \in 1 .. Len(m), k \in 1 .. Len(m) : End(m[i]) = x /\ m[k].start = x
    BY <1>12 DEF SeamAt
  <2>2. m[i] = b \/ \E p \in 1 .. n : m[i] = l[p]
    BY <1>9
  <2>3. m[k] = b \/ \E q \in 1 .. n : m[k] = l[q]
    BY <1>9
  <2>4. CASE m[i] = b
    BY <2>1, <2>4
  <2>5. CASE m[k] = b
    BY <2>1, <2>5
  <2>6. CASE m[i] # b /\ m[k] # b
    <3>1. PICK p \in 1 .. n : m[i] = l[p]
      BY <2>2, <2>6
    <3>2. PICK q \in 1 .. n : m[k] = l[q]
      BY <2>3, <2>6
    <3>3. End(l[p]) = x /\ l[q].start = x
      BY <2>1, <3>1, <3>2
    <3>4. SeamAt(l, x)
      BY <1>n, <3>3 DEF SeamAt
    <3> QED  BY <1>11, <3>4
  <2> QED  BY <2>4, <2>5, <2>6
<1>13. r = MergePass(m)
  BY <1>1, <1>7 DEF rearrange
<1>14. InOrder(r) /\ OneSeam(r) /\ \A x \in Nat : Holds(r, x) <=> Holds(m, x)
  <2>1. PICK v, w : v = b.start /\ w = End(b)
    OBVIOUS
  <2>2. \A x : SeamAt(m, x) => x \in {u, v, w}
    BY <1>12, <2>1
  <2>3. InOrder(m)
    BY <1>8
  <2> QED  BY <1>13, <2>2, <2>3, Merges
<1> QED  BY <1>10, <1>14

-----------------------------------------------------------------------------
(* Choosing a block.                                                       *)

(* Of the places in S, the first of those with the lowest value. *)
LEMMA LowestFirst ==
    ASSUME NEW S, S \subseteq Nat, S # {}, NEW v, \A i \in S : v[i] \in Nat
    PROVE  \E i \in S : \A k \in S : v[i] < v[k] \/ (v[i] = v[k] /\ i <= k)
<1> DEFINE V == {v[i] : i \in S}
           T == {i \in S : v[i] = Min(V)}
<1>1. V \subseteq Nat /\ V # {}
  OBVIOUS
<1>2. Min(V) \in V /\ \A y \in V : Min(V) <= y
  BY <1>1, Least
<1>3. PICK low : low = Min(V)
  OBVIOUS
<1>4. low \in V /\ \A i \in S : low <= v[i]
  BY <1>2, <1>3
<1>5. T = {i \in S : v[i] = low}
  BY <1>3
<1>6. T \subseteq Nat /\ T # {}
  BY <1>4, <1>5
<1> HIDE DEF T
<1>7. Min(T) \in T /\ \A y \in T : Min(T) <= y
  BY <1>6, Least
<1>8. PICK i : i = Min(T)
  OBVIOUS
<1>9. i \in S /\ v[i] = low /\ \A y \in S : v[y] = low => i <= y
  BY <1>5, <1>7, <1>8
<1>10. \A k \in S : v[i] < v[k] \/ (v[i] = v[k] /\ i <= k)
  <2> TAKE k \in S
  <2>1. low \in Nat /\ v[k] \in Nat /\ low <= v[k]
    BY <1>1, <1>4
  <2> QED  BY <1>9, <2>1
<1> QED  BY <1>9, <1>10

(* Each algorithm finds a block that is large enough, if there is one. *)
LEMMA ChosenFits ==
    ASSUME IsList(free), NEW M \in Nat,
           \A i \in 1 .. Len(free) : free[i].size \in Nat /\ free[i].size <= M,
           NEW size, Fits(size) # {}, func \in {"first_fit", "best_fit", "worst_fit"}
    PROVE  Chosen(size) \in Fits(size)
<1>1. PICK S : S = Fits(size)
  OBVIOUS
<1>2. DOMAIN free = 1 .. Len(free) /\ Len(free) \in Nat
  BY ListShape
<1>3. S \subseteq 1 .. Len(free) /\ S \subseteq Nat /\ S # {}
  BY <1>1, <1>2 DEF Fits
<1>4. CASE func = "first_fit"
  <2>1. Min(S) \in S
    BY <1>3, Least
  <2> QED  BY <1>1, <1>4, <2>1 DEF Chosen, first_fit
<1>5. CASE func = "best_fit"
  <2>1. PICK v : v = [i \in S |-> free[i].size]
    OBVIOUS
  <2>2. \A i \in S : v[i] \in Nat /\ v[i] = free[i].size
    BY <1>3, <2>1
  <2>3. \E i \in S : \A k \in S : v[i] < v[k] \/ (v[i] = v[k] /\ i <= k)
    BY <1>3, <2>2, LowestFirst
  <2>4. \E i \in S : \A k \in S : free[i].size < free[k].size \/ (free[i].size = free[k].size /\ i <= k)
    BY <2>2, <2>3
  <2>5. best_fit(size) \in S
    BY <1>1, <2>4 DEF best_fit
  <2>6. Chosen(size) = best_fit(size)
    BY <1>5 DEF Chosen
  <2> QED  BY <1>1, <2>5, <2>6
<1>6. CASE func = "worst_fit"
  <2>1. PICK v : v = [i \in S |-> M - free[i].size]
    OBVIOUS
  <2>2. \A i \in S : v[i] \in Nat /\ v[i] = M - free[i].size /\ free[i].size \in Nat
    BY <1>3, <2>1
  <2>3. PICK i \in S : \A k \in S : v[i] < v[k] \/ (v[i] = v[k] /\ i <= k)
    BY <1>3, <2>2, LowestFirst
  <2>4. \A k \in S : free[i].size > free[k].size \/ (free[i].size = free[k].size /\ i <= k)
    <3> TAKE k \in S
    <3>1. v[i] < v[k] \/ (v[i] = v[k] /\ i <= k)
      BY <2>3
    <3>2. PICK a, b : a = free[i].size /\ b = free[k].size
      OBVIOUS
    <3>3. a \in Nat /\ b \in Nat /\ v[i] = M - a /\ v[k] = M - b
      BY <2>2, <3>2
    <3>4. (v[i] < v[k] => a > b) /\ (v[i] = v[k] => a = b)
      BY <3>3
    <3> QED  BY <3>1, <3>2, <3>4
  <2>5. worst_fit(size) \in S
    BY <1>1, <2>4 DEF worst_fit
  <2>6. Chosen(size) = worst_fit(size)
    BY <1>6 DEF Chosen
  <2> QED  BY <1>1, <2>5, <2>6
<1> QED  BY <1>4, <1>5, <1>6

-----------------------------------------------------------------------------
(* Taking blocks from a list and adding them.                              *)

(* A list without its block k. *)
LEMMA Without ==
    ASSUME NEW l, InOrder(l), NEW k \in 1 .. Len(l), NEW r, r = RemoveAt(l, k)
    PROVE  /\ InOrder(r)
           /\ \A x \in Nat : Holds(r, x) <=> Holds(l, x) /\ ~Covers(l[k], x)
           /\ \A x : SeamAt(r, x) => SeamAt(l, x)
<1>n. PICK n \in Nat : n = Len(l)
  BY EndsInOrder
<1>1. /\ IsList(r) /\ Len(r) = n - 1 /\ k \in 1 .. n
      /\ \A i \in 1 .. n - 1 : r[i] = IF i < k THEN l[i] ELSE l[i + 1]
  <2>1. IsList(l)
    BY DEF InOrder
  <2> QED  BY <1>n, <2>1, TakenOut
<1>2. PICK p : p = [i \in 1 .. n - 1 |-> IF i < k THEN i ELSE i + 1]
  OBVIOUS
<1>3. /\ \A i \in 1 .. n - 1 : p[i] \in 1 .. n /\ p[i] # k /\ r[i] = l[p[i]]
      /\ \A i, j \in 1 .. n - 1 : i < j => p[i] < p[j]
      /\ \A j \in 1 .. n : j # k => \E i \in 1 .. n - 1 : p[i] = j
  <2>1. ASSUME NEW i \in 1 .. n - 1 PROVE p[i] \in 1 .. n /\ p[i] # k /\ r[i] = l[p[i]]
    <3>1. CASE i < k
      BY <1>n, <1>1, <1>2, <3>1
    <3>2. CASE ~(i < k)
      <4>1. p[i] = i + 1 /\ r[i] = l[i + 1]
        BY <1>1, <1>2, <3>2
      <4>2. i + 1 \in 1 .. n /\ i + 1 # k
        BY <1>n, <1>1, <3>2
      <4> QED  BY <4>1, <4>2
    <3> QED  BY <3>1, <3>2
  <2>2. ASSUME NEW i \in 1 .. n - 1, NEW j \in 1 .. n - 1, i < j PROVE p[i] < p[j]
    BY <1>n, <1>1, <1>2, <2>2
  <2>3. ASSUME NEW j \in 1 .. n, j # k PROVE \E i \in 1 .. n - 1 : p[i] = j
    <3>1. CASE j < k
      <4>1. j \in 1 .. n - 1
        BY <1>n, <1>1, <3>1
      <4> QED  BY <1>2, <3>1, <4>1
    <3>2. CASE j > k
      <4>1. j - 1 \in 1 .. n - 1 /\ ~(j - 1 < k) /\ (j - 1) + 1 = j
        BY <1>n, <1>1, <3>2
      <4> QED  BY <1>2, <4>1
    <3> QED  BY <1>1, <2>3, <3>1, <3>2
  <2> QED  BY <2>1, <2>2, <2>3
<1>4. InOrder(r)
  <2>1. \A i \in 1 .. n - 1 : IsBlock(r[i])
    BY <1>n, <1>3 DEF InOrder
  <2>2. ASSUME NEW i \in 1 .. n - 1, NEW j \in 1 .. n - 1, i < j PROVE End(r[i]) <= r[j].start
    <3>1. p[i] \in 1 .. n /\ p[j] \in 1 .. n /\ p[i] < p[j] /\ r[i] = l[p[i]] /\ r[j] = l[p[j]]
      BY <1>3, <2>2
    <3>2. \A a, b \in 1 .. n : a < b => End(l[a]) <= l[b].start
      BY <1>n DEF InOrder
    <3> QED  BY <3>1, <3>2
  <2> QED  BY <1>1, <2>1, <2>2 DEF InOrder
<1>5. ASSUME NEW x \in Nat PROVE Holds(r, x) <=> Holds(l, x) /\ ~Covers(l[k], x)
  <2>1. ASSUME Holds(r, x) PROVE Holds(l, x) /\ ~Covers(l[k], x)
    <3>1. PICK i \in 1 .. n - 1 : Covers(r[i], x)
      BY <1>1, <2>1 DEF Holds
    <3>2. p[i] \in 1 .. n /\ p[i] # k /\ Covers(l[p[i]], x)
      BY <1>3, <3>1
    <3>3. Disjoint(l[p[i]], l[k])
      BY <1>n, <3>2, InOrderDisjoint
    <3> QED  BY <1>n, <3>2, <3>3 DEF Holds, Disjoint
  <2>2. ASSUME Holds(l, x), ~Covers(l[k], x) PROVE Holds(r, x)
    <3>1. PICK j \in 1 .. n : Covers(l[j], x)
      BY <1>n, <2>2 DEF Holds
    <3>2. PICK i \in 1 .. n - 1 : p[i] = j
      BY <1>3, <2>2, <3>1
    <3> QED  BY <1>1, <1>3, <3>1, <3>2 DEF Holds
  <2> QED  BY <2>1, <2>2
<1>6. ASSUME NEW x, SeamAt(r, x) PROVE SeamAt(l, x)
  <2>1. PICK i \in 1 .. n - 1, j \in 1 .. n - 1 : End(r[i]) = x /\ r[j].start = x
    BY <1>1, <1>6 DEF SeamAt
  <2>2. p[i] \in 1 .. n /\ p[j] \in 1 .. n /\ End(l[p[i]]) = x /\ l[p[j]].start = x
    BY <1>3, <2>1
  <2> QED  BY <1>n, <2>2 DEF SeamAt
<1> QED  BY <1>4, <1>5, <1>6

(* A list of which block k has become shorter, at its front. *)
LEMMA Shortened ==
    ASSUME NEW l, InOrder(l), NEW k \in 1 .. Len(l), NEW size \in Nat \ {0}, size < l[k].size,
           NEW t, IsBlock(t), t.start = l[k].start, t.size = size,
           NEW r, r = [i \in DOMAIN l |->
                         IF i = k THEN Block(l[k].start + size, l[k].size - size) ELSE l[i]]
    PROVE  /\ InOrder(r)
           /\ \A x \in Nat : Holds(r, x) <=> Holds(l, x) /\ ~Covers(t, x)
           /\ \A x : SeamAt(r, x) => SeamAt(l, x)
<1>n. PICK n \in Nat : n = Len(l)
  BY EndsInOrder
<1>d. DOMAIN l = 1 .. n /\ k \in 1 .. n /\ IsList(l)
  BY <1>n, ListShape DEF InOrder
<1>l. /\ \A i \in 1 .. n : IsBlock(l[i])
      /\ \A i \in 1 .. n : l[i].start \in Nat /\ End(l[i]) \in Nat /\ l[i].start < End(l[i])
      /\ \A i, j \in 1 .. n : i < j => End(l[i]) <= l[j].start
  BY <1>n, EndsInOrder DEF InOrder
<1>1. PICK c : c = Block(l[k].start + size, l[k].size - size)
  OBVIOUS
<1>2. /\ IsBlock(c) /\ c.start = l[k].start + size /\ End(c) = End(l[k])
      /\ End(t) = c.start /\ t.start = l[k].start
  <2>1. c.start = l[k].start + size /\ c.size = l[k].size - size
    BY <1>1 DEF Block
  <2>2. PICK a \in Nat, z \in Nat : a = l[k].start /\ z = l[k].size
    BY <1>d, <1>l DEF IsBlock
  <2>3. c.start = a + size /\ c.size = z - size /\ size < z
    BY <2>1, <2>2
  <2>4. IsBlock(c)
    BY <2>3 DEF IsBlock
  <2>5. End(c) = (a + size) + (z - size) /\ End(l[k]) = a + z /\ End(t) = a + size
    BY <2>2, <2>3 DEF End
  <2>6. (a + size) + (z - size) = a + z
    BY <2>3
  <2> QED  BY <2>1, <2>2, <2>3, <2>4, <2>5, <2>6
<1>3. r = [i \in 1 .. n |-> IF i = k THEN c ELSE l[i]]
  BY <1>d, <1>1
<1>4. DOMAIN r = 1 .. n /\ r[k] = c /\ \A i \in 1 .. n : i # k => r[i] = l[i]
  BY <1>d, <1>3
<1>5. IsList(r) /\ Len(r) = n
  <2>1. r = [i \in 1 .. n |-> r[i]]
    BY <1>3
  <2> QED  BY <1>4, <2>1, ListFrom
<1>6. \A i \in 1 .. n : IsBlock(r[i]) /\ End(r[i]) = End(l[i])
  BY <1>l, <1>2, <1>4
<1>7. \A i \in 1 .. n : l[i].start <= r[i].start /\ r[i].start \in Nat
  <2> TAKE i \in 1 .. n
  <2>1. l[i].start \in Nat
    BY <1>l
  <2>2. CASE i = k
    BY <1>2, <1>4, <2>1, <2>2
  <2>3. CASE i # k
    BY <1>4, <2>1, <2>3
  <2> QED  BY <2>2, <2>3
<1>8. ASSUME NEW i \in 1 .. n, NEW j \in 1 .. n, i < j PROVE End(r[i]) <= r[j].start
  <2>1. End(l[i]) <= l[j].start /\ End(r[i]) = End(l[i]) /\ l[j].start <= r[j].start
    BY <1>l, <1>6, <1>7, <1>8
  <2>2. End(l[i]) \in Nat /\ l[j].start \in Nat /\ r[j].start \in Nat
    BY <1>l, <1>7
  <2> QED  BY <2>1, <2>2
<1>9. InOrder(r)
  BY <1>5, <1>6, <1>8 DEF InOrder
<1>10. \A x \in Nat : Covers(c, x) <=> Covers(l[k], x) /\ ~Covers(t, x)
  <2> TAKE x \in Nat
  <2>1. /\ Covers(c, x) <=> l[k].start + size <= x /\ x < End(l[k])
        /\ Covers(l[k], x) <=> l[k].start <= x /\ x < End(l[k])
        /\ Covers(t, x) <=> l[k].start <= x /\ x < l[k].start + size
    BY <1>2, CoversIs
  <2>2. l[k].start \in Nat /\ End(l[k]) \in Nat
    BY <1>d, <1>l
  <2> QED  BY <2>1, <2>2
<1>11. \A x \in Nat : Covers(t, x) => Covers(l[k], x)
  <2> TAKE x \in Nat
  <2>1. /\ Covers(l[k], x) <=> l[k].start <= x /\ x < End(l[k])
        /\ Covers(t, x) <=> l[k].start <= x /\ x < c.start
    BY <1>2, CoversIs
  <2>2. c.start \in Nat /\ End(l[k]) \in Nat /\ c.start < End(l[k])
    BY <1>2, BlockEnds
  <2> QED  BY <2>1, <2>2
<1>12. ASSUME NEW x \in Nat PROVE Holds(r, x) <=> Holds(l, x) /\ ~Covers(t, x)
  <2>1. ASSUME Holds(r, x) PROVE Holds(l, x) /\ ~Covers(t, x)
    <3>1. PICK i \in 1 .. n : Covers(r[i], x)
      BY <1>5, <2>1 DEF Holds
    <3>2. CASE i = k
      BY <1>n, <1>4, <1>10, <3>1, <3>2 DEF Holds
    <3>3. CASE i # k
      <4>1. Covers(l[i], x)
        BY <1>4, <3>1, <3>3
      <4>2. Disjoint(l[i], l[k])
        BY <1>n, <3>3, InOrderDisjoint
      <4>3. ~Covers(t, x)
        BY <1>11, <4>1, <4>2 DEF Disjoint
      <4> QED  BY <1>n, <4>1, <4>3 DEF Holds
    <3> QED  BY <3>2, <3>3
  <2>2. ASSUME Holds(l, x), ~Covers(t, x) PROVE Holds(r, x)
    <3>1. PICK i \in 1 .. n : Covers(l[i], x)
      BY <1>n, <2>2 DEF Holds
    <3>2. Covers(r[i], x)
      BY <1>4, <1>10, <2>2, <3>1
    <3> QED  BY <1>5, <3>2 DEF Holds
  <2> QED  BY <2>1, <2>2
<1>13. ASSUME NEW x, SeamAt(r, x) PROVE SeamAt(l, x)
  <2>1. PICK i \in 1 .. n, j \in 1 .. n : End(r[i]) = x /\ r[j].start = x
    BY <1>5, <1>13 DEF SeamAt
  <2>2. j # k
    <3>1. SUFFICES ASSUME j = k PROVE FALSE
      OBVIOUS
    <3>2. End(l[i]) = c.start
      BY <1>4, <1>6, <2>1, <3>1
    <3>3. l[k].start < c.start /\ c.start < End(l[k]) /\ c.start \in Nat /\ l[k].start \in Nat /\ End(l[k]) \in Nat
      <4>1. c.start \in Nat /\ c.start < End(c)
        BY <1>2, BlockEnds
      <4>2. l[k].start \in Nat /\ End(l[k]) \in Nat
        BY <1>l, <1>d
      <4> QED  BY <1>2, <4>1, <4>2
    <3>4. CASE i = k
      BY <3>2, <3>3, <3>4
    <3>5. CASE i < k
      BY <1>d, <1>l, <3>2, <3>3, <3>5
    <3>6. CASE k < i
      <4>1. End(l[k]) <= l[i].start /\ l[i].start < End(l[i]) /\ l[i].start \in Nat
        BY <1>d, <1>l, <3>6
      <4> QED  BY <3>2, <3>3, <4>1
    <3> QED  BY <1>d, <3>4, <3>5, <3>6
  <2> QED  BY <1>n, <1>4, <1>6, <2>1, <2>2 DEF SeamAt
<1> QED  BY <1>9, <1>12, <1>13

(* The free list once size bytes, t, are taken from block i. *)
LEMMA TakenIs ==
    ASSUME InOrder(free), OneSeam(free), NEW i \in 1 .. Len(free),
           NEW size \in Nat \ {0}, size <= free[i].size,
           NEW t, IsBlock(t), t.start = free[i].start, t.size = size, NEW r, r = Taken(i, size)
    PROVE  /\ InOrder(r) /\ OneSeam(r)
           /\ \A x \in Nat : Holds(r, x) <=> Holds(free, x) /\ ~Covers(t, x)
           /\ \A x \in Nat : Covers(t, x) => Holds(free, x)
<1>1. IsBlock(free[i])
  BY DEF InOrder
<1>2. PICK a \in Nat, z \in Nat : a = free[i].start /\ z = free[i].size /\ size <= z
  BY <1>1 DEF IsBlock
<1>3. \A x : /\ Covers(t, x) <=> a <= x /\ x < a + size
             /\ Covers(free[i], x) <=> a <= x /\ x < a + z
  BY <1>2 DEF Covers
<1>4. \A x \in Nat : Covers(t, x) => Holds(free, x)
  <2> TAKE x \in Nat
  <2>1. Covers(t, x) => Covers(free[i], x)
    BY <1>2, <1>3
  <2> QED  BY <2>1 DEF Holds
<1>5. /\ InOrder(r)
      /\ \A x \in Nat : Holds(r, x) <=> Holds(free, x) /\ ~Covers(t, x)
      /\ \A x : SeamAt(r, x) => SeamAt(free, x)
  <2>1. CASE z = size
    <3>1. r = RemoveAt(free, i)
      BY <1>2, <2>1 DEF Taken
    <3>2. /\ InOrder(r)
          /\ \A x \in Nat : Holds(r, x) <=> Holds(free, x) /\ ~Covers(free[i], x)
          /\ \A x : SeamAt(r, x) => SeamAt(free, x)
      BY <3>1, Without
    <3>3. \A x : Covers(t, x) <=> Covers(free[i], x)
      BY <1>3, <2>1
    <3> QED  BY <3>2, <3>3
  <2>2. CASE z # size
    <3>1. r = [k \in DOMAIN free |->
                 IF k = i THEN Block(free[i].start + size, free[i].size - size) ELSE free[k]]
      BY <1>2, <2>2 DEF Taken
    <3>2. size < free[i].size
      BY <1>2, <2>2
    <3> QED  BY <3>1, <3>2, Shortened
  <2> QED  BY <2>1, <2>2
<1>6. OneSeam(r)
  BY <1>5 DEF OneSeam
<1> QED  BY <1>4, <1>5, <1>6

(* The allocated list with a block that has no address in common with it. *)
LEMMA Inserted ==
    ASSUME NEW l, l = allocs, InOrder(l), NEW b, IsBlock(b),
           \A x \in Nat : ~(Holds(l, x) /\ Covers(b, x)), NEW r, r = insert_allocated(b)
    PROVE  InOrder(r) /\ \A x \in Nat : Holds(r, x) <=> Holds(l, x) \/ Covers(b, x)
<1>n. PICK n \in Nat : n = Len(l)
  BY EndsInOrder
<1>d. DOMAIN l = 1 .. n /\ IsList(l)
  BY <1>n, ListShape DEF InOrder
<1>l. /\ \A i \in 1 .. n : IsBlock(l[i]) /\ l[i].start \in Nat /\ End(l[i]) \in Nat
      /\ \A i, j \in 1 .. n : i < j => End(l[i]) <= l[j].start /\ l[i].start < l[j].start
  BY <1>n, EndsInOrder DEF InOrder
<1>b. b.start \in Nat /\ End(b) \in Nat
  BY BlockEnds
<1>s. \A i \in 1 .. n : Disjoint(l[i], b) /\ Disjoint(b, l[i])
  <2> TAKE i \in 1 .. n
  <2>1. \A x \in Nat : Covers(l[i], x) => Holds(l, x)
    BY <1>n DEF Holds
  <2> QED  BY <2>1 DEF Disjoint
<1>1. PICK H : H = {i \in 1 .. n : l[i].start > b.start}
  OBVIOUS
<1>2. PICK k : k = IF H = {} THEN n + 1 ELSE Min(H)
  OBVIOUS
<1>3. r = InsertAt(l, k, b)
  BY <1>n, <1>d, <1>1, <1>2 DEF insert_allocated
<1>4. /\ k \in 1 .. n + 1
      /\ \A i \in 1 .. n : i < k => ~(l[i].start > b.start)
      /\ \A i \in 1 .. n : i >= k => l[i].start > b.start
  <2>1. CASE H = {}
    BY <1>n, <1>1, <1>2, <2>1
  <2>2. CASE H # {}
    <3>1. H \subseteq Nat /\ H \subseteq 1 .. n
      BY <1>1
    <3>2. k \in H /\ \A y \in H : k <= y
      BY <1>2, <2>2, <3>1, Least
    <3>3. k \in 1 .. n /\ l[k].start > b.start
      BY <1>1, <3>2
    <3>4. \A i \in 1 .. n : i < k => ~(l[i].start > b.start)
      BY <1>1, <3>2, <3>3
    <3>5. ASSUME NEW i \in 1 .. n, i >= k PROVE l[i].start > b.start
      <4>1. i = k \/ l[k].start < l[i].start
        BY <1>l, <3>3, <3>5
      <4>2. l[k].start \in Nat /\ l[i].start \in Nat
        BY <1>l, <3>3
      <4> QED  BY <1>b, <3>3, <4>1, <4>2
    <3> QED  BY <3>3, <3>4, <3>5
  <2> QED  BY <2>1, <2>2
<1>5. /\ \A i \in 1 .. n : i < k => End(l[i]) <= b.start
      /\ \A i \in 1 .. n : i >= k => End(b) <= l[i].start
  <2>1. ASSUME NEW i \in 1 .. n, i < k PROVE End(l[i]) <= b.start
    <3>1. ~(l[i].start > b.start) /\ l[i].start \in Nat
      BY <1>4, <1>l, <2>1
    <3>2. l[i].start # b.start /\ (l[i].start < b.start => End(l[i]) <= b.start)
      BY <1>l, <1>s, Apart
    <3> QED  BY <1>b, <3>1, <3>2
  <2>2. ASSUME NEW i \in 1 .. n, i >= k PROVE End(b) <= l[i].start
    <3>1. l[i].start > b.start /\ l[i].start \in Nat
      BY <1>4, <1>l, <2>2
    <3>2. b.start < l[i].start => End(b) <= l[i].start
      BY <1>l, <1>s, Apart
    <3> QED  BY <1>b, <3>1, <3>2
  <2> QED  BY <2>1, <2>2
<1>6. /\ IsList(r) /\ Len(r) = n + 1
      /\ \A i \in 1 .. n + 1 : r[i] = IF i < k THEN l[i] ELSE IF i = k THEN b ELSE l[i - 1]
  BY <1>n, <1>d, <1>3, <1>4, PutIn
<1>7. /\ \A i \in 1 .. n + 1 : i < k => i \in 1 .. n /\ r[i] = l[i]
      /\ r[k] = b
      /\ \A i \in 1 .. n + 1 : i > k => i - 1 \in 1 .. n /\ i - 1 >= k /\ r[i] = l[i - 1]
  <2>1. ASSUME NEW i \in 1 .. n + 1, i < k PROVE i \in 1 .. n /\ r[i] = l[i]
    BY <1>n, <1>4, <1>6, <2>1
  <2>2. r[k] = b
    BY <1>4, <1>6
  <2>3. ASSUME NEW i \in 1 .. n + 1, i > k PROVE i - 1 \in 1 .. n /\ i - 1 >= k /\ r[i] = l[i - 1]
    <3>1. i - 1 \in 1 .. n /\ i - 1 >= k /\ ~(i < k) /\ i # k
      BY <1>n, <1>4, <2>3
    <3>2. r[i] = IF i < k THEN l[i] ELSE IF i = k THEN b ELSE l[i - 1]
      BY <1>6
    <3> QED  BY <3>1, <3>2
  <2> QED  BY <2>1, <2>2, <2>3
<1>8. \A i \in 1 .. n + 1 : i < k \/ i = k \/ i > k
  BY <1>4
<1>9. \A i \in 1 .. n + 1 : IsBlock(r[i])
  BY <1>l, <1>7, <1>8
<1>10. ASSUME NEW i \in 1 .. n + 1, NEW j \in 1 .. n + 1, i < j PROVE End(r[i]) <= r[j].start
  <2>1. CASE j < k
    <3>1. i < k
      BY <1>4, <1>10, <2>1
    <3> QED  BY <1>l, <1>7, <1>10, <2>1, <3>1
  <2>2. CASE j = k
    BY <1>5, <1>7, <1>10, <2>2
  <2>3. CASE j > k
    <3>1. j - 1 \in 1 .. n /\ j - 1 >= k /\ r[j] = l[j - 1]
      BY <1>7, <2>3
    <3>2. CASE i < k
      <4>1. i \in 1 .. n /\ r[i] = l[i] /\ i < j - 1
        BY <1>4, <1>7, <3>1, <3>2
      <4> QED  BY <1>l, <3>1, <4>1
    <3>3. CASE i = k
      BY <1>5, <1>7, <3>1, <3>3
    <3>4. CASE i > k
      <4>1. i - 1 \in 1 .. n /\ r[i] = l[i - 1] /\ i - 1 < j - 1
        BY <1>7, <1>10, <3>4
      <4> QED  BY <1>l, <3>1, <4>1
    <3> QED  BY <1>8, <3>2, <3>3, <3>4
  <2> QED  BY <1>8, <2>1, <2>2, <2>3
<1>11. InOrder(r)
  BY <1>6, <1>9, <1>10 DEF InOrder
<1>12. ASSUME NEW x \in Nat PROVE Holds(r, x) <=> Holds(l, x) \/ Covers(b, x)
  <2>1. ASSUME Holds(r, x) PROVE Holds(l, x) \/ Covers(b, x)
    <3>1. PICK i \in 1 .. n + 1 : Covers(r[i], x)
      BY <1>6, <2>1 DEF Holds
    <3>2. r[i] = b \/ \E j \in 1 .. n : r[i] = l[j]
      BY <1>7, <1>8
    <3> QED  BY <1>n, <3>1, <3>2 DEF Holds
  <2>2. ASSUME Holds(l, x) PROVE Holds(r, x)
    <3>1. PICK j \in 1 .. n : Covers(l[j], x)
      BY <1>n, <2>2 DEF Holds
    <3>2. CASE j < k
      <4>1. j \in 1 .. n + 1 /\ r[j] = l[j]
        BY <1>n, <1>7, <3>2
      <4> QED  BY <1>6, <3>1, <4>1 DEF Holds
    <3>3. CASE ~(j < k)
      <4>1. j + 1 \in 1 .. n + 1 /\ j + 1 > k /\ (j + 1) - 1 = j
        BY <1>n, <1>4, <3>3
      <4>2. r[j + 1] = l[j]
        BY <1>7, <4>1
      <4> QED  BY <1>6, <3>1, <4>1, <4>2 DEF Holds
    <3> QED  BY <3>2, <3>3
  <2>3. ASSUME Covers(b, x) PROVE Holds(r, x)
    BY <1>4, <1>6, <1>7, <2>3 DEF Holds
  <2> QED  BY <2>1, <2>2, <2>3
<1> QED  BY <1>11, <1>12

-----------------------------------------------------------------------------
(* The invariant.                                                          *)

(* Free blocks f and allocated blocks a make up M bytes of memory. *)
Tiles(f, a, M) ==
    /\ InOrder(f) /\ OneSeam(f) /\ InOrder(a)
    /\ \A x \in Nat : ~(Holds(f, x) /\ Holds(a, x))
    /\ \A x \in Nat : Holds(f, x) \/ Holds(a, x) <=> x < M

(* A memory of no bytes has one block of none. *)
NoBytes(f, a, M) == M = 0 /\ f = init_free_block(0) /\ a = <<>>

Fitted == {"first_fit", "best_fit", "worst_fit"}

AInv ==
    /\ mem_size \in Nat /\ func \in Fitted
    /\ ~flag => allocs = <<>>
    /\ Tiles(free, allocs, mem_size) \/ NoBytes(free, allocs, mem_size)

(* No blocks. *)
LEMMA EmptyList ==
    InOrder(<<>>) /\ Len(<<>>) = 0 /\ (\A x : ~Holds(<<>>, x)) /\ (\A x : ~SeamAt(<<>>, x))
<1>1. <<>> \in Seq({}) /\ Len(<<>>) = 0
  OBVIOUS
<1>2. IsList(<<>>)
  BY <1>1, ListOf
<1> QED  BY <1>1, <1>2 DEF InOrder, Holds, SeamAt

(* One block. *)
LEMMA OneBlock ==
    ASSUME NEW b, IsBlock(b)
    PROVE  InOrder(<<b>>) /\ OneSeam(<<b>>) /\ \A x : Holds(<<b>>, x) <=> Covers(b, x)
<1>1. PICK l : l = <<b>>
  OBVIOUS
<1>2. Len(l) = 1 /\ l[1] = b /\ l \in Seq({b})
  BY <1>1
<1>3. IsList(l)
  BY <1>2, ListOf
<1>4. \A i \in 1 .. 1 : i = 1
  OBVIOUS
<1>5. InOrder(l)
  BY <1>2, <1>3, <1>4 DEF InOrder
<1>6. b.start \in Nat /\ End(b) \in Nat /\ b.start < End(b)
  BY BlockEnds
<1>7. \A x : ~SeamAt(l, x)
  BY <1>2, <1>4, <1>6 DEF SeamAt
<1>8. \A x : Holds(l, x) <=> Covers(b, x)
  BY <1>2, <1>4 DEF Holds
<1> QED  BY <1>1, <1>5, <1>7, <1>8 DEF OneSeam

(* Memory as init_free_block makes it. *)
LEMMA Fresh ==
    ASSUME NEW M \in Nat
    PROVE  Tiles(init_free_block(M), <<>>, M) \/ NoBytes(init_free_block(M), <<>>, M)
<1>1. CASE M = 0
  BY <1>1 DEF NoBytes
<1>2. CASE M # 0
  <2>1. PICK b : b = Block(0, M)
    OBVIOUS
  <2>2. b.start = 0 /\ b.size = M /\ init_free_block(M) = <<b>>
    BY <2>1 DEF Block, init_free_block
  <2>3. IsBlock(b) /\ End(b) = M
    BY <1>2, <2>2 DEF IsBlock, End
  <2>4. InOrder(<<b>>) /\ OneSeam(<<b>>) /\ \A x : Holds(<<b>>, x) <=> Covers(b, x)
    BY <2>3, OneBlock
  <2>5. \A x \in Nat : Covers(b, x) <=> x < M
    BY <2>2, <2>3, CoversIs
  <2> QED  BY <2>2, <2>4, <2>5, EmptyList DEF Tiles
<1> QED  BY <1>1, <1>2

(* A process gets memory. *)
LEMMA CreateTiles ==
    ASSUME AInv, NEW size \in Sizes, Fits(size) # {}, NEW i, i = Chosen(size),
           NEW t, t.start = free[i].start, t.size = size
    PROVE  Tiles(Taken(i, size), insert_allocated(t), mem_size)
<1>1. size \in Nat \ {0}
  BY AllocatorAssumption
<1>2. Tiles(free, allocs, mem_size)
  <2>1. SUFFICES ASSUME NoBytes(free, allocs, mem_size) PROVE FALSE
    BY DEF AInv
  <2>2. free = <<Block(0, 0)>>
    BY <2>1 DEF NoBytes, init_free_block
  <2>3. DOMAIN free = {1} /\ free[1] = Block(0, 0)
    BY <2>2
  <2>4. free[1].size = 0
    BY <2>3 DEF Block
  <2>5. Fits(size) = {}
    BY <1>1, <2>3, <2>4 DEF Fits
  <2> QED  BY <2>5
<1>3. /\ InOrder(free) /\ OneSeam(free) /\ InOrder(allocs) /\ mem_size \in Nat
      /\ \A x \in Nat : ~(Holds(free, x) /\ Holds(allocs, x))
      /\ \A x \in Nat : Holds(free, x) \/ Holds(allocs, x) <=> x < mem_size
  BY <1>2 DEF Tiles, AInv
<1>4. ASSUME NEW k \in 1 .. Len(free) PROVE free[k].size \in Nat /\ free[k].size <= mem_size
  <2>1. IsBlock(free[k])
    BY <1>3 DEF InOrder
  <2>2. PICK a \in Nat, z \in Nat : a = free[k].start /\ z = free[k].size /\ z > 0
    BY <2>1 DEF IsBlock
  <2>3. a + z - 1 \in Nat /\ a <= a + z - 1 /\ a + z - 1 < a + z
    BY <2>2
  <2>4. Covers(free[k], a + z - 1)
    BY <2>2, <2>3 DEF Covers
  <2>5. Holds(free, a + z - 1)
    BY <2>4 DEF Holds
  <2>6. a + z - 1 < mem_size
    BY <1>3, <2>3, <2>5
  <2>7. z <= mem_size
    BY <1>3, <2>2, <2>6
  <2> QED  BY <2>2, <2>7
<1>5. IsList(free) /\ DOMAIN free = 1 .. Len(free)
  BY <1>3, ListShape DEF InOrder
<1>6. i \in Fits(size)
  BY <1>3, <1>4, <1>5, ChosenFits DEF AInv, Fitted
<1>7. i \in 1 .. Len(free) /\ size <= free[i].size
  <2>1. i \in 1 .. Len(free) /\ free[i].size >= size
    BY <1>5, <1>6 DEF Fits
  <2> QED  BY <1>1, <1>4, <2>1
<1>8. IsBlock(t)
  <2>1. IsBlock(free[i])
    BY <1>3, <1>7 DEF InOrder
  <2> QED  BY <1>1, <2>1 DEF IsBlock
<1>9. PICK r : r = Taken(i, size)
  OBVIOUS
<1>10. /\ InOrder(r) /\ OneSeam(r)
       /\ \A x \in Nat : Holds(r, x) <=> Holds(free, x) /\ ~Covers(t, x)
       /\ \A x \in Nat : Covers(t, x) => Holds(free, x)
  BY <1>1, <1>3, <1>7, <1>8, <1>9, TakenIs
<1>11. PICK b : b = insert_allocated(t)
  OBVIOUS
<1>12. \A x \in Nat : ~(Holds(allocs, x) /\ Covers(t, x))
  BY <1>3, <1>10
<1>13. InOrder(b) /\ \A x \in Nat : Holds(b, x) <=> Holds(allocs, x) \/ Covers(t, x)
  BY <1>3, <1>8, <1>11, <1>12, Inserted
<1>14. \A x \in Nat : ~(Holds(r, x) /\ Holds(b, x))
  BY <1>3, <1>10, <1>13
<1>15. \A x \in Nat : Holds(r, x) \/ Holds(b, x) <=> x < mem_size
  BY <1>3, <1>10, <1>13
<1>16. Tiles(r, b, mem_size)
  BY <1>10, <1>13, <1>14, <1>15 DEF Tiles
<1> QED  BY <1>9, <1>11, <1>16

(* A process gives its memory back. *)
LEMMA KillTiles ==
    ASSUME AInv, NEW i \in DOMAIN allocs,
           NEW b, b = Block(allocs[i].start, allocs[i].size)
    PROVE  Tiles(Freed(b), RemoveAt(allocs, i), mem_size)
<1>1. Tiles(free, allocs, mem_size)
  <2>1. DOMAIN <<>> = {}
    OBVIOUS
  <2> QED  BY <2>1 DEF AInv, NoBytes
<1>2. /\ InOrder(free) /\ OneSeam(free) /\ InOrder(allocs) /\ mem_size \in Nat
      /\ \A x \in Nat : ~(Holds(free, x) /\ Holds(allocs, x))
      /\ \A x \in Nat : Holds(free, x) \/ Holds(allocs, x) <=> x < mem_size
  BY <1>1 DEF Tiles, AInv
<1>3. i \in 1 .. Len(allocs)
  BY <1>2, ListShape DEF InOrder
<1>4. b.start = allocs[i].start /\ b.size = allocs[i].size
  BY DEF Block
<1>5. IsBlock(b)
  BY <1>2, <1>3, <1>4 DEF InOrder, IsBlock
<1>6. \A x : Covers(b, x) <=> Covers(allocs[i], x)
  BY <1>4 DEF Covers
<1>7. PICK d : d = RemoveAt(allocs, i)
  OBVIOUS
<1>8. InOrder(d) /\ \A x \in Nat : Holds(d, x) <=> Holds(allocs, x) /\ ~Covers(allocs[i], x)
  BY <1>2, <1>3, <1>7, Without
<1>9. \A x \in Nat : Covers(b, x) => Holds(allocs, x)
  BY <1>3, <1>6 DEF Holds
<1>10. \A x \in Nat : ~(Holds(free, x) /\ Covers(b, x))
  BY <1>2, <1>9
<1>11. PICK r : r = Freed(b)
  OBVIOUS
<1>12. InOrder(r) /\ OneSeam(r) /\ \A x \in Nat : Holds(r, x) <=> Holds(free, x) \/ Covers(b, x)
  <2>1. CASE free = <<>>
    <3>1. r = <<b>>
      BY <1>11, <2>1 DEF Freed
    <3>2. InOrder(r) /\ OneSeam(r) /\ \A x : Holds(r, x) <=> Covers(b, x)
      BY <1>5, <3>1, OneBlock
    <3>3. \A x : ~Holds(free, x)
      BY <2>1, EmptyList
    <3> QED  BY <3>2, <3>3
  <2>2. CASE free # <<>>
    <3>1. r = rearrange(InsertAt(free, 2, b))
      BY <1>11, <2>2 DEF Freed
    <3>2. Len(free) > 0
      <4>1. free \in Seq(Range(free))
        BY <1>2 DEF InOrder, IsList
      <4>2. Len(free) \in Nat /\ Len(free) # 0
        BY <2>2, <4>1, EmptySeq, LenProperties
      <4> QED  BY <4>2
    <3> QED  BY <1>2, <1>5, <1>10, <3>1, <3>2, Rearranged
  <2> QED  BY <2>1, <2>2
<1>13. \A x \in Nat : ~(Holds(r, x) /\ Holds(d, x))
  BY <1>2, <1>6, <1>8, <1>12
<1>14. \A x \in Nat : Holds(r, x) \/ Holds(d, x) <=> x < mem_size
  BY <1>2, <1>6, <1>8, <1>9, <1>12
<1>15. Tiles(r, d, mem_size)
  BY <1>8, <1>12, <1>13, <1>14 DEF Tiles
<1> QED  BY <1>7, <1>11, <1>15

(* Whatever is created and killed, with which algorithm and in a memory of *)
(* which size: the two lists keep tiling the memory.                       *)
THEOREM AllocatorInv == Spec => []AInv
<1>1. Init => AInv
  <2> SUFFICES ASSUME Init PROVE AInv
    OBVIOUS
  <2>1. DefaultMem \in Nat
    BY AllocatorAssumption
  <2>2. mem_size = DefaultMem /\ func \in Fitted /\ free = init_free_block(DefaultMem) /\ allocs = <<>>
    BY DEF Init, Fitted
  <2> QED  BY <2>1, <2>2, Fresh DEF AInv
<1>2. AInv /\ [Next]_vars => AInv'
  <2> SUFFICES ASSUME AInv, [Next]_vars PROVE AInv'
    OBVIOUS
  <2>1. CASE NoEffect
    BY <2>1 DEF NoEffect, AInv
  <2>2. ASSUME NEW size \in MemSizes, set_mem_size(size) PROVE AInv'
    <3>1. size \in Nat
      BY AllocatorAssumption
    <3>2. mem_size' = size /\ func' = func /\ free' = init_free_block(size) /\ allocs' = <<>>
      BY <2>2 DEF set_mem_size, AInv
    <3>3. Tiles(free', allocs', mem_size') \/ NoBytes(free', allocs', mem_size')
      BY <3>1, <3>2, Fresh
    <3> QED  BY <3>1, <3>2, <3>3 DEF AInv
  <2>3. ASSUME NEW f \in Fitted, Usemy_algo(f) PROVE AInv'
    BY <2>3 DEF Usemy_algo, AInv
  <2>4. ASSUME NEW size \in Sizes, Create(size) PROVE AInv'
    <3>1. PICK i, t : i = Chosen(size) /\ t = [pid |-> pid + 1, start |-> free[i].start, size |-> size]
      OBVIOUS
    <3>2. /\ Fits(size) # {} /\ mem_size' = mem_size /\ func' = func /\ flag' = TRUE
          /\ free' = Taken(i, size) /\ allocs' = insert_allocated(t)
      BY <2>4, <3>1 DEF Create
    <3>3. t.start = free[i].start /\ t.size = size
      BY <3>1
    <3>4. Tiles(Taken(i, size), insert_allocated(t), mem_size)
      BY <3>1, <3>2, <3>3, CreateTiles
    <3>5. Tiles(free', allocs', mem_size')
      BY <3>2, <3>4
    <3> QED  BY <3>2, <3>5 DEF AInv
  <2>5. ASSUME NEW size \in Sizes, CreateFails(size) PROVE AInv'
    BY <2>5 DEF CreateFails, AInv
  <2>6. ASSUME NEW p \in 1 .. MaxPid, kill_process(p) PROVE AInv'
    <3>1. PICK i \in DOMAIN allocs :
             /\ free' = Freed(Block(allocs[i].start, allocs[i].size))
             /\ allocs' = RemoveAt(allocs, i)
      BY <2>6 DEF kill_process
    <3>2. mem_size' = mem_size /\ func' = func /\ flag' = TRUE
      BY <2>6 DEF kill_process
    <3>3. PICK b : b = Block(allocs[i].start, allocs[i].size)
      OBVIOUS
    <3>4. Tiles(Freed(b), RemoveAt(allocs, i), mem_size)
      BY <3>3, KillTiles
    <3>5. Tiles(free', allocs', mem_size')
      BY <3>1, <3>2, <3>3, <3>4
    <3> QED  BY <3>2, <3>5 DEF AInv
  <2>7. CASE UNCHANGED vars
    BY <2>7 DEF vars, AInv
  <2> QED  BY <2>1, <2>2, <2>3, <2>4, <2>5, <2>6, <2>7 DEF Next, Fitted
<1> QED  BY <1>1, <1>2, PTL DEF Spec

(* The blocks of a list in order that cover an address: one or none. *)
LEMMA HoldersCount ==
    ASSUME NEW l, InOrder(l), NEW x \in Nat
    PROVE  Cardinality({i \in DOMAIN l : Covers(l[i], x)}) = IF Holds(l, x) THEN 1 ELSE 0
<1>1. PICK H : H = {i \in DOMAIN l : Covers(l[i], x)}
  OBVIOUS
<1>2. DOMAIN l = 1 .. Len(l)
  BY ListShape DEF InOrder
<1>3. CASE Holds(l, x)
  <2>1. PICK i \in 1 .. Len(l) : Covers(l[i], x)
    BY <1>3 DEF Holds
  <2>2. ASSUME NEW k \in H PROVE k = i
    <3>1. SUFFICES ASSUME k # i PROVE FALSE
      OBVIOUS
    <3>2. k \in 1 .. Len(l) /\ Covers(l[k], x)
      BY <1>1, <1>2
    <3>3. Disjoint(l[k], l[i])
      BY <3>1, <3>2, InOrderDisjoint
    <3> QED  BY <2>1, <3>2, <3>3 DEF Disjoint
  <2>3. H = {i}
    BY <1>1, <1>2, <2>1, <2>2
  <2>4. Cardinality({i}) = 1
    BY FS_Singleton
  <2> QED  BY <1>1, <1>3, <2>3, <2>4
<1>4. CASE ~Holds(l, x)
  <2>1. H = {}
    BY <1>1, <1>2, <1>4 DEF Holds
  <2> QED  BY <1>1, <1>4, <2>1, FS_EmptySet
<1> QED  BY <1>3, <1>4

(* No byte is lost or given out twice, whatever is created and killed. *)
THEOREM MemoryTiledHolds == Spec => []MemoryTiled
<1>1. AInv => MemoryTiled
  <2> SUFFICES ASSUME AInv PROVE MemoryTiled
    OBVIOUS
  <2>1. CASE NoBytes(free, allocs, mem_size)
    <3>1. mem_size = 0 /\ allocs = <<>>
      BY <2>1 DEF NoBytes
    <3>2. 0 .. mem_size - 1 = {} /\ DOMAIN allocs = {}
      BY <3>1
    <3> QED  BY <3>2 DEF MemoryTiled
  <2>2. CASE Tiles(free, allocs, mem_size)
    <3>1. /\ InOrder(free) /\ InOrder(allocs) /\ mem_size \in Nat
          /\ \A x \in Nat : ~(Holds(free, x) /\ Holds(allocs, x))
          /\ \A x \in Nat : Holds(free, x) \/ Holds(allocs, x) <=> x < mem_size
      BY <2>2 DEF Tiles, AInv
    <3>2. ASSUME NEW x \in 0 .. mem_size - 1
          PROVE  Cardinality({i \in DOMAIN free : Covers(free[i], x)})
                 + Cardinality({i \in DOMAIN allocs : Covers(allocs[i], x)}) = 1
      <4>1. x \in Nat /\ x < mem_size
        BY <3>1
      <4>2. PICK c, d : /\ c = Cardinality({i \in DOMAIN free : Covers(free[i], x)})
                        /\ d = Cardinality({i \in DOMAIN allocs : Covers(allocs[i], x)})
        OBVIOUS
      <4>3. c = (IF Holds(free, x) THEN 1 ELSE 0) /\ d = (IF Holds(allocs, x) THEN 1 ELSE 0)
        BY <3>1, <4>1, <4>2, HoldersCount
      <4>4. (Holds(free, x) /\ ~Holds(allocs, x)) \/ (~Holds(free, x) /\ Holds(allocs, x))
        BY <3>1, <4>1
      <4>5. c + d = 1
        BY <4>3, <4>4
      <4> QED  BY <4>2, <4>5
    <3>3. ASSUME NEW i \in DOMAIN allocs, NEW k \in DOMAIN allocs, i < k
          PROVE  allocs[i].start < allocs[k].start
      <4>1. i \in 1 .. Len(allocs) /\ k \in 1 .. Len(allocs)
        BY <3>1, ListShape DEF InOrder
      <4> QED  BY <3>1, <3>3, <4>1, EndsInOrder
    <3> QED  BY <3>2, <3>3 DEF MemoryTiled
  <2> QED  BY <2>1, <2>2 DEF AInv
<1> QED  BY <1>1, AllocatorInv, PTL

(* rearrange never misses more than one pair of neighbours. *)
THEOREM OneSeamHolds == Spec => []AtMostOneSeam
<1>1. AInv => AtMostOneSeam
  <2> SUFFICES ASSUME AInv PROVE AtMostOneSeam
    OBVIOUS
  <2> DEFINE T == {seam \in Range(free) \X Range(free) :
                     /\ seam[1].size > 0
                     /\ seam[1].start + seam[1].size = seam[2].start}
  <2>1. ASSUME NEW s \in T, NEW e \in T PROVE s = e
    <3>1. CASE NoBytes(free, allocs, mem_size)
      <4>1. free = <<Block(0, 0)>>
        BY <3>1 DEF NoBytes, init_free_block
      <4>2. \A b \in Range(free) : b = Block(0, 0)
        BY <4>1 DEF Range
      <4>3. s[1] = Block(0, 0)
        BY <4>2
      <4>4. s[1].size = 0
        BY <4>3 DEF Block
      <4> QED  BY <4>4
    <3>2. CASE Tiles(free, allocs, mem_size)
      <4>1. InOrder(free) /\ OneSeam(free)
        BY <3>2 DEF Tiles
      <4>2. \A b \in Range(free) : \E i \in 1 .. Len(free) : b = free[i]
        BY <4>1, InRange DEF InOrder
      <4>3. PICK i \in 1 .. Len(free) : s[1] = free[i]
        BY <4>2
      <4>4. PICK k \in 1 .. Len(free) : s[2] = free[k]
        BY <4>2
      <4>5. PICK p \in 1 .. Len(free) : e[1] = free[p]
        BY <4>2
      <4>6. PICK q \in 1 .. Len(free) : e[2] = free[q]
        BY <4>2
      <4>7. End(free[i]) = free[k].start /\ End(free[p]) = free[q].start
        BY <4>3, <4>4, <4>5, <4>6 DEF End
      <4>8. SeamAt(free, free[k].start) /\ SeamAt(free, free[q].start)
        BY <4>7 DEF SeamAt
      <4>9. free[k].start = free[q].start
        BY <4>1, <4>8 DEF OneSeam
      <4>10. /\ Len(free) \in Nat
             /\ \A a \in 1 .. Len(free) : free[a].start \in Nat /\ End(free[a]) \in Nat
             /\ \A a, b \in 1 .. Len(free) : a < b => End(free[a]) < End(free[b]) /\ free[a].start < free[b].start
        BY <4>1, EndsInOrder
      <4>11. k = q
        <5>1. k < q \/ q < k \/ k = q
          BY <4>10
        <5> QED  BY <4>9, <4>10, <5>1
      <4>12. i = p
        <5>1. i < p \/ p < i \/ i = p
          BY <4>10
        <5> QED  BY <4>7, <4>9, <4>10, <5>1
      <4>13. s[1] = e[1] /\ s[2] = e[2]
        BY <4>3, <4>4, <4>5, <4>6, <4>11, <4>12
      <4> QED  BY <4>13
    <3> QED  BY <3>1, <3>2 DEF AInv
  <2>2. T = {} \/ \E s : T = {s}
    BY <2>1
  <2>3. Cardinality(T) <= 1
    <3> HIDE DEF T
    <3>1. CASE T = {}
      BY <3>1, FS_EmptySet
    <3>2. ASSUME NEW s, T = {s} PROVE Cardinality(T) <= 1
      <4>1. Cardinality({s}) = 1
        BY FS_Singleton
      <4> QED  BY <3>2, <4>1
    <3> QED  BY <2>2, <3>1, <3>2
  <2> QED  BY <2>3 DEF AtMostOneSeam
<1> QED  BY <1>1, AllocatorInv, PTL

===============================================================================
