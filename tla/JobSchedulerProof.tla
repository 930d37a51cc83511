--------------------------- MODULE JobSchedulerProof ---------------------------
(***************************************************************************)
(* What holds of the job scheduler for any number of jobs and any default  *)
(* priorities, however its two signal handlers interrupt each other.       *)
(*                                                                         *)
(* First the loop of jobselect, by induction over its turns, then the list *)
(* operations, then the invariant: where schedule and the handlers can be, *)
(* where every job is, that what waits or is about to be started does not  *)
(* run, and that jobselect's choice still ranks highest when jobswitch     *)
(* uses it, though SIGCHLD may have come in between.                       *)
(***************************************************************************)
EXTENDS JobScheduler, SequenceTheorems, WellFoundedInduction, TLAPS

(* Induction over the naturals, for a set. *)
LEMMA SetInduction ==
    ASSUME NEW S, 0 \in S, \A n \in Nat : n \in S => n + 1 \in S
    PROVE  Nat \subseteq S
<1> DEFINE T == Nat \ S
<1> SUFFICES ASSUME T # {} PROVE FALSE
  OBVIOUS
<1>1. PICK x \in T : \A y \in T : ~(<<y, x>> \in OpToRel(<, Nat))
  <2>1. \E x \in T : \A y \in T : ~(<<y, x>> \in OpToRel(<, Nat))
    BY WFMin, NatLessThanWellFounded
  <2> QED  BY <2>1
<1>2. x \in Nat /\ x # 0
  OBVIOUS
<1>3. x - 1 \in Nat /\ x - 1 < x /\ (x - 1) + 1 = x
  BY <1>2
<1>4. x - 1 \in T
  BY <1>2, <1>3
<1>5. <<x - 1, x>> \in OpToRel(<, Nat)
  BY <1>2, <1>3 DEF OpToRel
<1> QED  BY <1>1, <1>4, <1>5

(* What the loop of jobselect starts from. *)
Nobody == [select |-> NULL, highest |-> -1, highest_wait |-> -1]

(* f holds the results of the first m turns of the loop. *)
Turns(f, m, info) ==
    f = [i \in 0 .. m |-> IF i = 0 THEN Nobody ELSE Compared(f[i - 1], queue[i], info)]

(* The loop of jobselect has a result for every length of the list. *)
LEMMA LoopRuns ==
    ASSUME NEW info, NEW n \in Nat
    PROVE  \E f : Turns(f, n, info)
<1> DEFINE S == { m \in Nat : \E f : Turns(f, m, info) }
<1>1. 0 \in S
  <2>1. Turns([i \in 0 .. 0 |-> Nobody], 0, info)
    BY DEF Turns
  <2> QED  BY <2>1
<1>2. ASSUME NEW m \in Nat, m \in S PROVE m + 1 \in S
  <2>1. PICK f : Turns(f, m, info)
    BY <1>2
  <2> DEFINE g == [i \in 0 .. m + 1 |->
                     IF i <= m THEN f[i] ELSE Compared(f[m], queue[m + 1], info)]
  <2>2. ASSUME NEW i \in 0 .. m + 1
        PROVE  g[i] = IF i = 0 THEN Nobody ELSE Compared(g[i - 1], queue[i], info)
    <3>1. CASE i = 0
      BY <2>1, <3>1 DEF Turns
    <3>2. CASE i # 0 /\ i <= m
      <4>1. f[i] = Compared(f[i - 1], queue[i], info)
        BY <2>1, <3>2 DEF Turns
      <4>2. g[i] = f[i] /\ g[i - 1] = f[i - 1]
        BY <3>2
      <4> QED  BY <3>2, <4>1, <4>2
    <3>3. CASE i = m + 1
      <4>1. g[i] = Compared(f[m], queue[m + 1], info) /\ g[m] = f[m] /\ i - 1 = m /\ i # 0
        BY <3>3
      <4> QED  BY <3>3, <4>1
    <3>4. i = 0 \/ (i # 0 /\ i <= m) \/ i = m + 1
      OBVIOUS
    <3> QED  BY <3>1, <3>2, <3>3, <3>4
  <2>3. Turns(g, m + 1, info)
    BY <2>2 DEF Turns
  <2> QED  BY <2>3
<1>3. Nat \subseteq S
  BY <1>1, <1>2, SetInduction
<1> QED  BY <1>3

(* jobselect returns what the last turn of the loop has selected. *)
LEMMA Loop ==
    ASSUME NEW info, queue \in Seq(Jobs)
    PROVE  \E f : Turns(f, Len(queue), info) /\ jobselect(info) = f[Len(queue)].select
<1>1. \E f : Turns(f, Len(queue), info)
  BY LoopRuns, LenProperties
<1> DEFINE best == CHOOSE f : Turns(f, Len(queue), info)
<1>2. Turns(best, Len(queue), info)
  BY <1>1
<1>3. jobselect(info) = best[Len(queue)].select
  BY DEF jobselect, Turns, Nobody
<1> QED BY <1>2, <1>3

-----------------------------------------------------------------------------
(* The members of the list. *)
LEMMA InQueue ==
    ASSUME queue \in Seq(Jobs)
    PROVE  /\ Len(queue) \in Nat /\ DOMAIN queue = 1 .. Len(queue)
           /\ \A j : j \in Range(queue) <=> \E i \in 1 .. Len(queue) : queue[i] = j
           /\ Range(queue) \subseteq Jobs
           /\ NULL \notin Range(queue)
<1>1. Len(queue) \in Nat /\ DOMAIN queue = 1 .. Len(queue)
  BY LenProperties
<1>2. \A j : j \in Range(queue) <=> \E i \in 1 .. Len(queue) : queue[i] = j
  BY <1>1 DEF Range
<1>3. Range(queue) \subseteq Jobs
  BY <1>1, <1>2, ElementOfSeq
<1> QED  BY <1>1, <1>2, <1>3, JobAssumption DEF Jobs, NULL

(* jobselect finds a job whenever there is one, and none of a lower priority *)
(* than another in the list, whatever the stale highest_wait does to ties.   *)
LEMMA SelectsHighest ==
    ASSUME NEW info, queue \in Seq(Jobs), \A j \in Range(queue) : info[j].curpri \in Nat
    PROVE  /\ queue = <<>> => jobselect(info) = NULL
           /\ queue # <<>> =>
                /\ jobselect(info) \in Range(queue)
                /\ \A j \in Range(queue) : info[j].curpri <= info[jobselect(info)].curpri
<1> DEFINE n == Len(queue)
           pri(i) == info[queue[i]].curpri
<1>0. n \in Nat /\ \A j : j \in Range(queue) <=> \E i \in 1 .. n : queue[i] = j
  BY InQueue
<1>1. PICK f : Turns(f, n, info) /\ jobselect(info) = f[n].select
  BY Loop
<1>p. \A i \in 1 .. n : pri(i) \in Nat
  BY <1>0
<1>2. f[0] = Nobody /\ \A i \in 1 .. n : f[i] = Compared(f[i - 1], queue[i], info)
  BY <1>0, <1>1 DEF Turns
<1> DEFINE Best(i) ==
             /\ f[i] = [select |-> f[i].select, highest |-> f[i].highest,
                        highest_wait |-> f[i].highest_wait]
             /\ IF i = 0
                THEN f[i].highest = -1
                ELSE /\ \E k \in 1 .. i : f[i].select = queue[k] /\ f[i].highest = pri(k)
                     /\ \A k \in 1 .. i : pri(k) <= f[i].highest
           S == { i \in Nat : i <= n => Best(i) }
<1>3. 0 \in S
  BY <1>2 DEF Nobody
<1>4. ASSUME NEW i \in Nat, i \in S PROVE i + 1 \in S
  <2> SUFFICES ASSUME i + 1 <= n PROVE Best(i + 1)
    OBVIOUS
  <2> DEFINE j == queue[i + 1]
             acc == f[i]
             after == f[i + 1]
  <2>1. after = Compared(acc, j, info)
    BY <1>0, <1>2
  <2>2. acc = [select |-> acc.select, highest |-> acc.highest,
               highest_wait |-> acc.highest_wait]
    BY <1>0, <1>4
  <2>3. /\ i = 0 => acc.highest = -1
        /\ i # 0 => /\ \E k \in 1 .. i : acc.select = queue[k] /\ acc.highest = pri(k)
                    /\ \A k \in 1 .. i : pri(k) <= acc.highest
    BY <1>0, <1>4
  <2>4. pri(i + 1) \in Nat /\ info[j].curpri = pri(i + 1)
    BY <1>0, <1>p
  <2>5. acc.highest \in Int /\ \A k \in 1 .. i : pri(k) \in Nat
    BY <1>0, <1>p, <2>3
  <2> HIDE DEF acc, after, pri, j
  <2>6. CASE pri(i + 1) > acc.highest
    <3>1. after = [select |-> j, highest |-> pri(i + 1), highest_wait |-> acc.highest_wait]
      BY <2>1, <2>2, <2>4, <2>6 DEF Compared
    <3>2. \A k \in 1 .. i : pri(k) <= pri(i + 1)
      BY <2>3, <2>4, <2>5, <2>6
    <3>3. \A k \in 1 .. i + 1 : pri(k) <= pri(i + 1)
      BY <2>4, <3>2
    <3> QED  BY <3>1, <3>3 DEF after, j
  <2>7. CASE ~(pri(i + 1) > acc.highest)
    <3>1. i # 0
      BY <2>3, <2>4, <2>7
    <3>2. PICK k \in 1 .. i : acc.select = queue[k] /\ acc.highest = pri(k)
      BY <2>3, <3>1
    <3>3. \A m \in 1 .. i + 1 : pri(m) <= acc.highest
      <4>1. \A m \in 1 .. i : pri(m) <= acc.highest
        BY <2>3, <3>1
      <4>2. pri(i + 1) <= acc.highest
        BY <2>4, <2>5, <2>7
      <4> QED  BY <4>1, <4>2
    <3>4. CASE pri(i + 1) = acc.highest /\ info[j].wait_time > acc.highest_wait
      <4>1. after = [select |-> j, highest |-> acc.highest, highest_wait |-> info[j].wait_time]
        BY <2>1, <2>2, <2>4, <2>7, <3>4 DEF Compared
      <4> QED  BY <3>3, <3>4, <4>1 DEF after, j
    <3>5. CASE ~(pri(i + 1) = acc.highest /\ info[j].wait_time > acc.highest_wait)
      <4>1. after = acc
        BY <2>1, <2>4, <2>7, <3>5 DEF Compared
      <4> QED  BY <2>2, <3>2, <3>3, <4>1 DEF after, acc
    <3> QED  BY <3>4, <3>5
  <2> QED  BY <2>6, <2>7
<1>5. n \in S
  BY <1>0, <1>3, <1>4, SetInduction
<1>6. CASE queue = <<>>
  <2>1. n = 0
    BY <1>6
  <2> QED  BY <1>1, <1>2, <1>6, <2>1 DEF Nobody
<1>7. CASE queue # <<>>
  <2>1. n # 0 /\ n \in Nat
    BY <1>0, <1>7, EmptySeq
  <2>2. /\ \E k \in 1 .. n : f[n].select = queue[k] /\ f[n].highest = pri(k)
        /\ \A k \in 1 .. n : pri(k) <= f[n].highest
    BY <1>5, <2>1
  <2>3. PICK k \in 1 .. n : f[n].select = queue[k] /\ f[n].highest = pri(k)
    BY <2>2
  <2>4. ASSUME NEW j \in Range(queue) PROVE info[j].curpri <= info[queue[k]].curpri
    <3>1. PICK m \in 1 .. n : queue[m] = j
      BY <1>0
    <3> QED  BY <2>2, <2>3, <3>1
  <2> QED  BY <1>0, <1>1, <1>7, <2>3, <2>4
<1> QED  BY <1>6, <1>7

(* Unlinking the node at place k, place by place. *)
LEMMA RemovedAt ==
    ASSUME queue \in Seq(Jobs), NEW k \in 1 .. Len(queue)
    PROVE  /\ RemoveAt(queue, k) \in Seq(Jobs)
           /\ Len(RemoveAt(queue, k)) = Len(queue) - 1
           /\ \A i \in 1 .. Len(queue) - 1 :
                 RemoveAt(queue, k)[i] = IF i < k THEN queue[i] ELSE queue[i + 1]
<1> DEFINE a == SubSeq(queue, 1, k - 1)
           b == SubSeq(queue, k + 1, Len(queue))
<1>0. Len(queue) \in Nat /\ \A i \in 1 .. Len(queue) : queue[i] \in Jobs
  BY LenProperties
<1>1. /\ a \in Seq(Jobs) /\ Len(a) = k - 1
      /\ \A i \in 1 .. k - 1 : a[i] = queue[i]
  <2>1. /\ a \in Seq(Jobs) /\ Len(a) = IF 1 <= k - 1 THEN (k - 1) - 1 + 1 ELSE 0
        /\ \A i \in 1 .. (k - 1) - 1 + 1 : a[i] = queue[1 + i - 1]
    BY <1>0, SubSeqProperties, 1 \in Int, k - 1 \in Int
  <2> QED  BY <2>1
<1>2. /\ b \in Seq(Jobs) /\ Len(b) = Len(queue) - k
      /\ \A i \in 1 .. Len(queue) - k : b[i] = queue[k + i]
  <2>1. \A i \in k + 1 .. Len(queue) : queue[i] \in Jobs
    BY <1>0
  <2>2. /\ b \in Seq(Jobs)
        /\ Len(b) = IF k + 1 <= Len(queue) THEN Len(queue) - (k + 1) + 1 ELSE 0
        /\ \A i \in 1 .. Len(queue) - (k + 1) + 1 : b[i] = queue[(k + 1) + i - 1]
    BY <1>0, <2>1, SubSeqProperties, Len(queue) \in Int, k + 1 \in Int
  <2> QED  BY <1>0, <2>2
<1> HIDE DEF a, b
<1>3. /\ a \o b \in Seq(Jobs)
      /\ Len(a \o b) = Len(queue) - 1
      /\ \A i \in 1 .. Len(queue) - 1 :
            (a \o b)[i] = IF i <= k - 1 THEN a[i] ELSE b[i - (k - 1)]
  <2>1. /\ a \o b \in Seq(Jobs)
        /\ Len(a \o b) = Len(a) + Len(b)
        /\ \A i \in 1 .. Len(a) + Len(b) :
              (a \o b)[i] = IF i <= Len(a) THEN a[i] ELSE b[i - Len(a)]
    BY <1>1, <1>2, ConcatProperties
  <2>2. Len(a) + Len(b) = Len(queue) - 1
    BY <1>0, <1>1, <1>2
  <2> QED  BY <1>1, <2>1, <2>2
<1>4. RemoveAt(queue, k) = a \o b
  BY DEF RemoveAt, a, b
<1>5. ASSUME NEW i \in 1 .. Len(queue) - 1
      PROVE  (a \o b)[i] = IF i < k THEN queue[i] ELSE queue[i + 1]
  <2>0. (a \o b)[i] = IF i <= k - 1 THEN a[i] ELSE b[i - (k - 1)]
    BY <1>3
  <2>1. CASE i < k
    BY <1>0, <1>1, <2>0, <2>1
  <2>2. CASE i >= k
    <3>1. i - (k - 1) \in 1 .. Len(queue) - k /\ k + (i - (k - 1)) = i + 1
      BY <1>0, <2>2
    <3>2. b[i - (k - 1)] = queue[k + (i - (k - 1))]
      BY <1>2, <3>1
    <3> QED  BY <2>0, <2>2, <3>1, <3>2
  <2>3. i < k \/ i >= k
    BY <1>0
  <2> QED  BY <2>1, <2>2, <2>3
<1> QED  BY <1>3, <1>4, <1>5

(* Taking the node of a job out of the list: the others stay, once each. *)
LEMMA UnlinkedJob ==
    ASSUME queue \in Seq(Jobs), IsInjective(queue), NEW j \in Range(queue)
    PROVE  /\ Unlinked(j) \in Seq(Jobs)
           /\ Range(Unlinked(j)) = Range(queue) \ {j}
           /\ IsInjective(Unlinked(j))
<1> DEFINE k == CHOOSE i \in DOMAIN queue : queue[i] = j
           n == Len(queue)
           rest == RemoveAt(queue, k)
           old(i) == IF i < k THEN i ELSE i + 1
<1>0. n \in Nat /\ DOMAIN queue = 1 .. n /\ \E i \in 1 .. n : queue[i] = j
  BY InQueue
<1>1. k \in 1 .. n /\ queue[k] = j
  BY <1>0
<1>2. Unlinked(j) = rest
  BY <1>0 DEF Unlinked, Contains
<1> HIDE DEF k
<1>3. /\ rest \in Seq(Jobs)
      /\ Len(rest) = n - 1 /\ DOMAIN rest = 1 .. n - 1
      /\ \A i \in 1 .. n - 1 : rest[i] = queue[old(i)]
  <2>1. /\ rest \in Seq(Jobs)
        /\ Len(rest) = n - 1
        /\ \A i \in 1 .. n - 1 : rest[i] = IF i < k THEN queue[i] ELSE queue[i + 1]
    BY <1>1, RemovedAt
  <2>2. DOMAIN rest = 1 .. n - 1
    BY <2>1, LenProperties
  <2> QED  BY <2>1, <2>2
<1> HIDE DEF rest, n
<1>4. /\ \A i \in 1 .. n - 1 : old(i) \in 1 .. n /\ old(i) # k
      /\ \A i, m \in 1 .. n - 1 : old(i) = old(m) => i = m
  BY <1>0, <1>1
<1>5. ASSUME NEW i \in 1 .. n, i # k PROVE \E m \in 1 .. n - 1 : old(m) = i
  <2>1. CASE i < k
    <3>1. i \in 1 .. n - 1 /\ old(i) = i
      BY <1>0, <1>1, <2>1
    <3> QED  BY <3>1
  <2>2. CASE i > k
    <3>1. i - 1 \in 1 .. n - 1 /\ old(i - 1) = i
      BY <1>0, <1>1, <2>2
    <3> QED  BY <3>1
  <2>3. i < k \/ i > k
    BY <1>0, <1>1, <1>5
  <2> QED  BY <2>1, <2>2, <2>3
<1>6. \A i, m \in 1 .. n : queue[i] = queue[m] => i = m
  BY <1>0 DEF IsInjective
<1> HIDE DEF old
<1>7. IsInjective(rest)
  BY <1>3, <1>4, <1>6 DEF IsInjective
<1>8. ASSUME NEW x PROVE x \in Range(rest) <=> x \in Range(queue) \ {j}
  <2>1. x \in Range(rest) <=> \E i \in 1 .. n - 1 : x = rest[i]
    BY <1>3 DEF Range
  <2>2. x \in Range(queue) <=> \E i \in 1 .. n : x = queue[i]
    BY <1>0 DEF Range
  <2>3. ASSUME NEW i \in 1 .. n - 1, x = rest[i] PROVE x \in Range(queue) \ {j}
    BY <1>1, <1>3, <1>4, <1>6, <2>2, <2>3
  <2>4. ASSUME NEW i \in 1 .. n, x = queue[i], x # j PROVE x \in Range(rest)
    <3>1. PICK m \in 1 .. n - 1 : old(m) = i
      BY <1>1, <1>5, <2>4
    <3> QED  BY <1>3, <2>1, <2>4, <3>1
  <2> QED  BY <2>1, <2>2, <2>3, <2>4
<1> QED  BY <1>2, <1>3, <1>7, <1>8

(* A job is put at the end of the list. *)
LEMMA AppendedJob ==
    ASSUME queue \in Seq(Jobs), IsInjective(queue), NEW j \in Jobs, j \notin Range(queue)
    PROVE  /\ Append(queue, j) \in Seq(Jobs)
           /\ Range(Append(queue, j)) = Range(queue) \cup {j}
           /\ IsInjective(Append(queue, j))
<1> DEFINE n == Len(queue)
           new == Append(queue, j)
<1>0. n \in Nat /\ DOMAIN queue = 1 .. n
  BY InQueue
<1>1. /\ new \in Seq(Jobs) /\ DOMAIN new = 1 .. n + 1
      /\ \A i \in 1 .. n : new[i] = queue[i]
      /\ new[n + 1] = j
  BY AppendProperties, LenProperties
<1> HIDE DEF new, n
<1>2. ASSUME NEW x PROVE x \in Range(new) <=> x \in Range(queue) \cup {j}
  <2>1. x \in Range(new) <=> \E i \in 1 .. n + 1 : x = new[i]
    BY <1>1 DEF Range
  <2>2. x \in Range(queue) <=> \E i \in 1 .. n : x = queue[i]
    BY <1>0 DEF Range
  <2>3. \A i : i \in 1 .. n + 1 <=> (i \in 1 .. n \/ i = n + 1)
    BY <1>0
  <2> QED  BY <1>1, <2>1, <2>2, <2>3
<1>3. \A i, m \in 1 .. n + 1 : new[i] = new[m] => i = m
  <2>1. \A i, m \in 1 .. n : queue[i] = queue[m] => i = m
    BY <1>0 DEF IsInjective
  <2>2. \A i \in 1 .. n : queue[i] # j
    BY <1>0 DEF Range
  <2>3. \A i : i \in 1 .. n + 1 <=> (i \in 1 .. n \/ i = n + 1)
    BY <1>0
  <2> QED  BY <1>1, <2>1, <2>2, <2>3
<1> QED  BY <1>1, <1>2, <1>3 DEF new, IsInjective

-----------------------------------------------------------------------------
(* The struct jobinfo. *)
JobInfo ==
    [defpri : 0 .. 3, curpri : 0 .. 3, wait_time : Nat,
     state : {"READY", "RUNNING", "DONE"}]

(* The types of what the argument reads. *)
TypeOK ==
    /\ jobid \in 0 .. MaxJobs
    /\ queue \in Seq(Jobs)
    /\ current \in Jobs \cup {NULL}
    /\ next \in Jobs \cup {NULL}
    /\ \A j \in DOMAIN job : j \in 1 .. jobid /\ job[j] \in JobInfo
    /\ DOMAIN process = Jobs
    /\ tickAt \in {"command", "clearDeq", "select", "free", "clear", "switch"}

(* A handler is interrupted by the other one at most. *)
Stacks ==
    stack \in {<<>>, <<"tick">>, <<"child">>, <<"tick", "child">>, <<"child", "tick">>}

(* schedule runs in its handler only, and next is set within it only. *)
Steps ==
    /\ "tick" \notin Range(stack) => tickAt = "command"
    /\ tickAt \in {"command", "clearDeq", "select"} => next = NULL

(* JobsAccountedFor without its local definition. *)
Accounted ==
    /\ IsInjective(queue)
    /\ \A j : j \in DOMAIN job <=>
              \/ j \in Range(queue)
              \/ j # NULL /\ j = next
              \/ j # NULL /\ j = current /\ ~Freed
    /\ current # NULL => current \notin Range(queue)
    /\ next # NULL => next \notin Range(queue)
    /\ current = next => current = NULL

(* No child of a job that waits, or that jobselect has taken out, runs. *)
Still == \A j \in Jobs : j \in Range(queue) \/ j = next => process[j] # "running"

(* Once jobselect has chosen, no job in the list ranks above the choice. *)
Chosen ==
    tickAt \in {"free", "clear", "switch"} =>
        IF next = NULL THEN queue = <<>>
        ELSE \A j \in Range(queue) : job[j].curpri <= job[next].curpri

Inv == TypeOK /\ Stacks /\ Steps /\ Accounted /\ Still /\ Chosen /\ NoHigherPriorityWaits

-----------------------------------------------------------------------------
(* Two handlers in progress. *)
LEMMA Pair ==
    ASSUME NEW g, NEW h
    PROVE  Append(<<g>>, h) = <<g, h>> /\ Front(<<g, h>>) = <<g>>
<1> DEFINE S == {g, h}
           one == <<g>>
           two == <<g, h>>
<1>1. one \in Seq(S) /\ two \in Seq(S) /\ Len(one) = 1 /\ Len(two) = 2
  OBVIOUS
<1>2. one[1] = g /\ two[1] = g /\ two[2] = h
  OBVIOUS
<1>s. h \in S
  OBVIOUS
<1> HIDE DEF one, two, S
<1>3. Append(one, h) = two
  <2>1. /\ Append(one, h) \in Seq(S) /\ Len(Append(one, h)) = 2
        /\ Append(one, h)[1] = g /\ Append(one, h)[2] = h
    <3>0. one \in Seq(S)
      BY <1>1
    <3>1. Append(one, h) \in Seq(S)
      BY <3>0, <1>s, AppendProperties
    <3>2. Len(Append(one, h)) = Len(one) + 1
      BY <3>0, <1>s, AppendProperties
    <3>3. \A i \in 1 .. Len(one) : Append(one, h)[i] = one[i]
      BY <3>0, <1>s, AppendProperties
    <3>4. Append(one, h)[Len(one) + 1] = h
      BY <3>0, <1>s, AppendProperties
    <3>5. Len(one) + 1 = 2 /\ 1 \in 1 .. Len(one)
      BY <1>1
    <3> QED  BY <1>2, <3>1, <3>2, <3>3, <3>4, <3>5
  <2>2. \A i \in 1 .. 2 : i = 1 \/ i = 2
    OBVIOUS
  <2> QED  BY <1>1, <1>2, <2>1, <2>2, SeqEqual
<1>4. Front(two) = one
  <2>1. \A i \in 1 .. 1 : two[i] \in S
    BY <1>2 DEF S
  <2>2. SubSeq(two, 1, 1) \in Seq(S) /\ Len(SubSeq(two, 1, 1)) = 1 /\ SubSeq(two, 1, 1)[1] = g
    BY <1>1, <1>2, <2>1, SubSeqProperties, 1 \in Int
  <2>3. Front(two) = SubSeq(two, 1, 1)
    BY <1>1 DEF Front
  <2>4. \A i \in 1 .. 1 : i = 1
    OBVIOUS
  <2> QED  BY <1>1, <1>2, <2>2, <2>3, <2>4, SeqEqual
<1> QED  BY <1>3, <1>4 DEF one, two

(* A handler starts on top of the other one, if at all. *)
LEMMA Pushed ==
    ASSUME Stacks, NEW h \in {"tick", "child"}, h \notin Range(stack),
           stack' = Append(stack, h)
    PROVE  /\ Stacks'
           /\ "tick" \in Range(stack') <=> "tick" \in Range(stack) \/ h = "tick"
<1>1. CASE stack = <<>>
  <2>1. stack' = <<h>>
    BY <1>1
  <2> QED  BY <1>1, <2>1 DEF Stacks, Range
<1>2. ASSUME NEW g \in {"tick", "child"}, stack = <<g>> PROVE Stacks' /\ "tick" \in Range(stack')
  <2>1. stack' = <<g, h>>
    BY <1>2, Pair
  <2>2. g # h
    BY <1>2 DEF Range
  <2>3. Range(<<g, h>>) = {g, h}
    BY DEF Range
  <2> QED  BY <2>1, <2>2, <2>3 DEF Stacks
<1>3. ASSUME NEW g \in {"tick", "child"}, NEW e \in {"tick", "child"}, g # e, stack = <<g, e>>
      PROVE  FALSE
  <2>1. Range(<<g, e>>) = {g, e}
    BY DEF Range
  <2> QED  BY <1>3, <2>1
<1>4. \A g : Range(<<g>>) = {g}
  BY DEF Range
<1> QED  BY <1>1, <1>2, <1>3, <1>4 DEF Stacks

(* The running handler returns. *)
LEMMA Popped ==
    ASSUME Stacks, NEW h \in {"tick", "child"}, Runs(h), stack' = Front(stack)
    PROVE  /\ Stacks'
           /\ "tick" \in Range(stack') <=> "tick" \in Range(stack) /\ h # "tick"
<1>1. ASSUME NEW g \in {"tick", "child"}, stack = <<g>>
      PROVE  Stacks' /\ stack' = <<>> /\ g = h
  <2>1. Front(<<g>>) = <<>>
    BY DEF Front
  <2> QED  BY <1>1, <2>1 DEF Stacks, Runs, Last
<1>2. ASSUME NEW g \in {"tick", "child"}, NEW e \in {"tick", "child"}, g # e, stack = <<g, e>>
      PROVE  Stacks' /\ stack' = <<g>> /\ e = h
  <2>1. Front(<<g, e>>) = <<g>>
    BY Pair
  <2> QED  BY <1>2, <2>1 DEF Stacks, Runs, Last
<1>3. stack # <<>>
  BY DEF Runs
<1>4. \A g, e : Range(<<g>>) = {g} /\ Range(<<g, e>>) = {g, e} /\ Range(<<>>) = {}
  BY DEF Range
<1> QED  BY <1>1, <1>2, <1>3, <1>4 DEF Stacks

(* The running handler is in progress. *)
LEMMA TickRuns ==
    ASSUME Stacks, Runs("tick")
    PROVE  "tick" \in Range(stack)
<1>1. ASSUME NEW g, stack = <<g>>, Last(stack) = "tick" PROVE "tick" \in Range(stack)
  BY <1>1 DEF Range, Last
<1>2. ASSUME NEW g, NEW e, stack = <<g, e>>, Last(stack) = "tick" PROVE "tick" \in Range(stack)
  BY <1>2 DEF Range, Last
<1> QED  BY <1>1, <1>2 DEF Stacks, Runs

(* Steps that leave the jobs, their places and priorities alone. *)
LEMMA Elsewhere ==
    ASSUME Inv,
           UNCHANGED <<jobid, queue, current, next, tickAt>>,
           DOMAIN job' = DOMAIN job,
           \A j \in DOMAIN job : job'[j] \in JobInfo /\ job'[j].curpri = job[j].curpri,
           DOMAIN process' = Jobs,
           \A j \in Jobs : process'[j] = "running" => process[j] = "running",
           Stacks', "tick" \in Range(stack') <=> "tick" \in Range(stack)
    PROVE  Inv'
<1> USE DEF Inv
<1>1. TypeOK'
  BY DEF TypeOK
<1>2. Steps'
  BY DEF Steps
<1>3. Accounted'
  BY DEF Accounted, Freed
<1>4. Still'
  BY DEF Still
<1>5. \A j \in Range(queue) : j \in DOMAIN job
  BY DEF Accounted
<1>6. Chosen'
  BY <1>5 DEF Chosen, Accounted
<1>7. NoHigherPriorityWaits'
  BY <1>5 DEF NoHigherPriorityWaits, Accounted, Steps, Freed
<1> QED  BY <1>1, <1>2, <1>3, <1>4, <1>6, <1>7

(* No job, no handler. *)
LEMMA InitInv == Init => Inv
<1> SUFFICES ASSUME Init PROVE Inv
  OBVIOUS
<1>1. Range(queue) = {} /\ Range(stack) = {} /\ DOMAIN job = {}
  BY DEF Init, Range
<1>2. IsInjective(queue)
  BY DEF Init, IsInjective
<1>3. TypeOK
  BY <1>1, JobAssumption DEF Init, TypeOK, NULL
<1>4. Stacks /\ Steps /\ Accounted /\ Still /\ Chosen /\ NoHigherPriorityWaits
  BY <1>1, <1>2 DEF Init, Stacks, Steps, Accounted, Freed, Still, Chosen, NoHigherPriorityWaits,
                      NULL, Jobs
<1> QED  BY <1>3, <1>4 DEF Inv

(* do_enq: the new job goes to the end of the list, its child is not running. *)
LEMMA EnqPreserves ==
    ASSUME Inv, NEW pri \in Priorities, Enq(pri)
    PROVE  Inv'
<1> USE DEF Inv
<1> DEFINE j == jobid + 1
<1>1. /\ tickAt = "command" /\ Runs("tick") /\ jobid' = j /\ tickAt' = "select"
      /\ DOMAIN job' = DOMAIN job \cup {j}
      /\ job'[j] = NewJob(pri)
      /\ \A i \in DOMAIN job : i # j => job'[i] = job[i]
      /\ queue' = Append(queue, j)
      /\ process' = [process EXCEPT ![j] = "born"]
      /\ UNCHANGED <<current, next, stack>>
  BY DEF Enq, At
<1>2. j \in Jobs /\ j \notin DOMAIN job /\ j # NULL /\ j \in 1 .. jobid'
  <2>1. jobid \in 0 .. MaxJobs /\ jobid < MaxJobs /\ jobid' = jobid + 1
    BY <1>1 DEF Enq, TypeOK
  <2>2. j \in 1 .. MaxJobs /\ j \notin 1 .. jobid /\ j # 0 /\ j \in 1 .. jobid'
    BY <2>1, JobAssumption
  <2> QED  BY <2>2 DEF TypeOK, Jobs, NULL
<1>3. j \notin Range(queue)
  BY <1>2 DEF Accounted
<1> HIDE DEF j
<1>4. queue' \in Seq(Jobs) /\ Range(queue') = Range(queue) \cup {j} /\ IsInjective(queue')
  BY <1>1, <1>2, <1>3, AppendedJob DEF TypeOK, Accounted
<1>5. NewJob(pri) \in JobInfo
  BY JobAssumption DEF NewJob, JobInfo
<1>6. TypeOK'
  <2>1. jobid' \in 0 .. MaxJobs /\ jobid \in Nat /\ jobid < jobid'
    BY <1>1, JobAssumption DEF Enq, TypeOK, j
  <2>2. \A i \in 1 .. jobid : i \in 1 .. jobid'
    BY <2>1
  <2>3. \A i \in DOMAIN job' : i \in 1 .. jobid' /\ job'[i] \in JobInfo
    BY <1>1, <1>2, <1>5, <2>2 DEF TypeOK
  <2> QED  BY <1>1, <1>4, <2>1, <2>3 DEF TypeOK
<1>7. next = NULL /\ j # current /\ ~Freed /\ ~Freed'
  BY <1>1, <1>2 DEF Steps, Accounted, Freed
<1>8. "tick" \in Range(stack)
  BY <1>1, TickRuns
<1>9. Steps' /\ Stacks'
  BY <1>1, <1>7, <1>8 DEF Steps, Stacks
<1>10. Accounted'
  BY <1>1, <1>2, <1>4, <1>7 DEF Accounted
<1>11. Still'
  <2>1. process'[j] # "running" /\ \A i \in Jobs : i # j => process'[i] = process[i]
    BY <1>1, <1>2 DEF TypeOK
  <2> QED  BY <1>1, <1>4, <2>1 DEF Still
<1>12. Chosen' /\ NoHigherPriorityWaits'
  BY <1>1, <1>8 DEF Chosen, NoHigherPriorityWaits
<1> QED  BY <1>6, <1>9, <1>10, <1>11, <1>12

(* do_deq: the record of the job goes, and its place in the list. *)
LEMMA DeqPreserves ==
    ASSUME Inv, NEW j \in Jobs, Deq(j)
    PROVE  Inv'
<1> USE DEF Inv
<1>1. /\ tickAt = "command" /\ Runs("tick")
      /\ tickAt' = IF current = j THEN "clearDeq" ELSE "select"
      /\ j \in DOMAIN job
      /\ DOMAIN job' = DOMAIN job \ {j}
      /\ \A i \in DOMAIN job' : job'[i] = job[i]
      /\ queue' = IF current = j THEN queue ELSE Unlinked(j)
      /\ UNCHANGED <<jobid, current, next, process, stack>>
  BY DEF Deq, At, Without
<1>2. next = NULL /\ j # NULL /\ ~Freed /\ (Freed' <=> current = j)
  BY <1>1, JobAssumption DEF Steps, Jobs, NULL, Freed
<1>3. current # j => j \in Range(queue)
  BY <1>1, <1>2 DEF Accounted
<1>4. queue' \in Seq(Jobs) /\ Range(queue') = Range(queue) \ {j} /\ IsInjective(queue')
  <2>1. CASE current = j
    BY <1>1, <1>2, <2>1 DEF TypeOK, Accounted
  <2>2. CASE current # j
    BY <1>1, <1>3, <2>2, UnlinkedJob DEF TypeOK, Accounted
  <2> QED  BY <2>1, <2>2
<1>5. "tick" \in Range(stack)
  BY <1>1, TickRuns
<1>6. TypeOK'
  BY <1>1, <1>4 DEF TypeOK
<1>7. Steps' /\ Stacks'
  BY <1>1, <1>2, <1>5 DEF Steps, Stacks
<1>8. Accounted'
  BY <1>1, <1>2, <1>4 DEF Accounted
<1>9. Still'
  BY <1>1, <1>4 DEF Still
<1>10. Chosen' /\ NoHigherPriorityWaits'
  BY <1>1, <1>5 DEF Chosen, NoHigherPriorityWaits
<1> QED  BY <1>6, <1>7, <1>8, <1>9, <1>10

(* current = NULL, after the frees: nothing points to the job any more. *)
LEMMA ClearPreserves ==
    ASSUME Inv, Clear
    PROVE  Inv'
<1> USE DEF Inv
<1>1. /\ Runs("tick") /\ Freed /\ ~Freed'
      /\ \/ tickAt = "clear" /\ tickAt' = "switch"
         \/ tickAt = "clearDeq" /\ tickAt' = "select"
      /\ current' = NULL
      /\ UNCHANGED <<jobid, job, queue, next, process, stack>>
  BY DEF Clear, Freed
<1>2. "tick" \in Range(stack)
  BY <1>1, TickRuns
<1>3. TypeOK'
  BY <1>1 DEF TypeOK
<1>4. Steps' /\ Stacks' /\ Still'
  BY <1>1, <1>2 DEF Steps, Stacks, Still
<1>5. Accounted'
  BY <1>1 DEF Accounted
<1>6. Chosen' /\ NoHigherPriorityWaits'
  BY <1>1, <1>2 DEF Chosen, NoHigherPriorityWaits
<1> QED  BY <1>3, <1>4, <1>5, <1>6

(* updateall and jobselect. *)
LEMMA SelectPreserves ==
    ASSUME Inv, Select
    PROVE  Inv'
<1> USE DEF Inv
<1>1. /\ tickAt = "select" /\ Runs("tick") /\ tickAt' = "free"
      /\ job' = updateall
      /\ next' = jobselect(job')
      /\ queue' = Unlinked(next')
      /\ UNCHANGED <<jobid, current, process, stack>>
  BY DEF Select, At
<1>2. next = NULL /\ ~Freed /\ ~Freed'
  BY <1>1 DEF Steps, Freed
<1>3. /\ DOMAIN job' = DOMAIN job
      /\ \A j \in DOMAIN job : job'[j] \in JobInfo
  <2>1. ASSUME NEW info \in JobInfo PROVE Older(info) \in JobInfo
    <3>1. /\ (IF info.wait_time < MaxWait THEN info.wait_time + 1 ELSE info.wait_time) \in Nat
          /\ (IF info.curpri < 3 THEN info.curpri + 1 ELSE info.curpri) \in 0 .. 3
      BY DEF JobInfo
    <3> QED  BY <3>1 DEF JobInfo, Older
  <2> QED  BY <1>1, <2>1 DEF updateall, TypeOK
<1>4. \A j \in Range(queue) : job'[j].curpri \in Nat
  <2>1. \A info \in JobInfo : info.curpri \in Nat
    BY DEF JobInfo
  <2> QED  BY <1>3, <2>1 DEF Accounted
<1>5. /\ queue = <<>> => next' = NULL
      /\ queue # <<>> =>
           /\ next' \in Range(queue)
           /\ \A j \in Range(queue) : job'[j].curpri <= job'[next'].curpri
  BY <1>1, <1>4, SelectsHighest DEF TypeOK
<1>6. NULL \notin Range(queue) /\ Range(queue) \subseteq Jobs
  BY InQueue DEF TypeOK
<1>7. CASE queue = <<>>
  <2>1. queue' = queue /\ next' = NULL
    BY <1>1, <1>5, <1>7 DEF Unlinked, Contains
  <2>2. TypeOK'
    BY <1>1, <1>3, <2>1 DEF TypeOK
  <2>3. Steps' /\ Stacks' /\ Still' /\ Chosen' /\ Accounted'
    BY <1>1, <1>2, <1>3, <1>7, <2>1, TickRuns DEF Steps, Stacks, Still, Chosen, Accounted
  <2>4. NoHigherPriorityWaits'
    BY <1>1, TickRuns DEF NoHigherPriorityWaits
  <2> QED  BY <2>2, <2>3, <2>4
<1>8. CASE queue # <<>>
  <2>1. next' \in Range(queue) /\ next' \in Jobs /\ next' # NULL
    BY <1>5, <1>6, <1>8
  <2>2. queue' \in Seq(Jobs) /\ Range(queue') = Range(queue) \ {next'} /\ IsInjective(queue')
    BY <1>1, <2>1, UnlinkedJob DEF TypeOK, Accounted
  <2>3. TypeOK'
    BY <1>1, <1>3, <2>1, <2>2 DEF TypeOK
  <2>4. Steps' /\ Stacks'
    BY <1>1, TickRuns DEF Steps, Stacks
  <2>5. Accounted'
    BY <1>1, <1>2, <1>3, <2>1, <2>2 DEF Accounted
  <2>6. Still'
    BY <1>1, <2>1, <2>2 DEF Still
  <2>7. Chosen' /\ NoHigherPriorityWaits'
    BY <1>1, <1>5, <1>8, <2>1, <2>2, TickRuns DEF Chosen, NoHigherPriorityWaits
  <2> QED  BY <2>3, <2>4, <2>5, <2>6, <2>7
<1> QED  BY <1>7, <1>8

(* jobswitch frees a current job that is DONE. *)
LEMMA FreePreserves ==
    ASSUME Inv, Free
    PROVE  Inv'
<1> USE DEF Inv
<1>1. tickAt = "free" /\ Runs("tick") /\ ~Freed
      /\ UNCHANGED <<jobid, queue, current, next, process, stack>>
  BY DEF Free, At, listVars, Freed
<1>2. "tick" \in Range(stack)
  BY <1>1, TickRuns
<1>3. CASE job' = job /\ tickAt' = "switch"
  BY <1>1, <1>2, <1>3
     DEF TypeOK, Stacks, Steps, Accounted, Freed, Still, Chosen, NoHigherPriorityWaits
<1>4. CASE current # NULL /\ job' = Without(current) /\ tickAt' = "clear"
  <2>1. DOMAIN job' = DOMAIN job \ {current} /\ \A j \in DOMAIN job' : job'[j] = job[j]
    BY <1>4 DEF Without
  <2>2. TypeOK'
    BY <1>1, <1>4, <2>1 DEF TypeOK
  <2>3. Steps' /\ Stacks' /\ Still'
    BY <1>1, <1>2, <1>4 DEF Steps, Stacks, Still
  <2>4. Accounted' /\ Freed'
    BY <1>1, <1>4, <2>1 DEF Accounted, Freed
  <2>5. Chosen'
    BY <1>1, <1>4, <2>1, <2>4 DEF Chosen, Accounted
  <2>6. NoHigherPriorityWaits'
    BY <1>1, <1>2 DEF NoHigherPriorityWaits
  <2> QED  BY <2>2, <2>3, <2>4, <2>5, <2>6
<1>5. \/ job' = job /\ tickAt' = "switch"
      \/ current # NULL /\ job' = Without(current) /\ tickAt' = "clear"
  BY DEF Free
<1> QED  BY <1>3, <1>4, <1>5

(* The end of schedule without a job to switch to: nobody waits. *)
LEMMA NoSwitchPreserves ==
    ASSUME Inv, NoSwitch
    PROVE  Inv'
<1> USE DEF Inv
<1>1. /\ tickAt = "switch" /\ Runs("tick") /\ next = NULL /\ queue = <<>>
      /\ tickAt' = "command" /\ next' = NULL /\ stack' = Front(stack)
      /\ UNCHANGED <<jobid, job, queue, current, process>>
  BY DEF NoSwitch, At, EndTick, Chosen
<1>2. Stacks'
  BY <1>1, Popped
<1>3. Range(queue) = {}
  BY <1>1 DEF Range
<1> QED  BY <1>1, <1>2, <1>3
     DEF TypeOK, Steps, Accounted, Freed, Still, Chosen, NoHigherPriorityWaits

-----------------------------------------------------------------------------
(* A job starts while none is current. *)
LEMMA StartPreserves ==
    ASSUME Inv, Start
    PROVE  Inv'
<1> USE DEF Inv
<1>1. /\ tickAt = "switch" /\ Runs("tick") /\ next # NULL /\ current = NULL
      /\ tickAt' = "command" /\ next' = NULL /\ stack' = Front(stack)
      /\ current' = next
      /\ job' = [job EXCEPT ![next].state = "RUNNING"]
      /\ process' = [process EXCEPT ![next] = Continue(@)]
      /\ UNCHANGED <<jobid, queue>>
  BY DEF Start, At, EndTick
<1>2. /\ next \in DOMAIN job /\ next \notin Range(queue) /\ next \in Jobs
      /\ ~Freed /\ ~Freed'
  BY <1>1 DEF Accounted, TypeOK, Freed
<1>3. Stacks' /\ "tick" \notin Range(stack')
  BY <1>1, Popped
<1>4. /\ DOMAIN job' = DOMAIN job
      /\ \A j \in DOMAIN job : job'[j] \in JobInfo /\ job'[j].curpri = job[j].curpri
  <2>1. \A info \in JobInfo : /\ [info EXCEPT !.state = "RUNNING"] \in JobInfo
                              /\ [info EXCEPT !.state = "RUNNING"].curpri = info.curpri
    BY DEF JobInfo
  <2>2. \A j \in DOMAIN job :
           job'[j] = IF j = next THEN [job[j] EXCEPT !.state = "RUNNING"] ELSE job[j]
    BY <1>1
  <2> QED  BY <1>1, <2>1, <2>2 DEF TypeOK
<1>5. TypeOK'
  BY <1>1, <1>2, <1>4 DEF TypeOK
<1>6. Steps'
  BY <1>1 DEF Steps
<1>7. Accounted'
  BY <1>1, <1>2, <1>4 DEF Accounted
<1>8. Still'
  <2>1. \A j \in Jobs : j # next => process'[j] = process[j]
    BY <1>1 DEF TypeOK
  <2>2. NULL \notin Jobs
    BY JobAssumption DEF Jobs, NULL
  <2> QED  BY <1>1, <1>2, <2>1, <2>2 DEF Still
<1>9. \A j \in Range(queue) : j \in DOMAIN job
  BY DEF Accounted
<1>10. Chosen' /\ NoHigherPriorityWaits'
  BY <1>1, <1>2, <1>4, <1>9 DEF Chosen, NoHigherPriorityWaits
<1> QED  BY <1>3, <1>5, <1>6, <1>7, <1>8, <1>10

(* The current job goes to the end of the list or stays, by the comparison. *)
LEMMA SwitchPreserves ==
    ASSUME Inv, Switch
    PROVE  Inv'
<1> USE DEF Inv
<1> DEFINE stays == job[current].defpri > job[next].curpri
           winner == IF stays THEN current ELSE next
           loser == IF stays THEN next ELSE current
           back == BackToDefault(job[current])
<1>1. /\ tickAt = "switch" /\ Runs("tick") /\ next # NULL /\ current # NULL
      /\ tickAt' = "command" /\ next' = NULL /\ stack' = Front(stack)
      /\ queue' = Append(queue, loser)
      /\ current' = winner
      /\ job' = [job EXCEPT ![current] = BackToDefault(@), ![winner].state = "RUNNING"]
      /\ jobid' = jobid
  BY DEF Switch, At, EndTick
<1>2. /\ current \in DOMAIN job /\ next \in DOMAIN job /\ current # next
      /\ current \notin Range(queue) /\ next \notin Range(queue)
      /\ current \in Jobs /\ next \in Jobs /\ ~Freed /\ ~Freed'
  BY <1>1 DEF Accounted, TypeOK, Freed
<1>3. Stacks' /\ "tick" \notin Range(stack')
  BY <1>1, Popped
<1>4. /\ queue' \in Seq(Jobs) /\ Range(queue') = Range(queue) \cup {loser}
      /\ IsInjective(queue')
  BY <1>1, <1>2, AppendedJob DEF TypeOK, Accounted
<1>5. back \in JobInfo /\ back.curpri = job[current].defpri
  BY <1>2 DEF TypeOK, JobInfo, BackToDefault
<1>6. /\ DOMAIN job' = DOMAIN job
      /\ \A j \in DOMAIN job : job'[j] \in JobInfo
      /\ job'[current].curpri = job[current].defpri
      /\ \A j \in DOMAIN job : j # current => job'[j].curpri = job[j].curpri
  <2>1. \A info \in JobInfo : /\ [info EXCEPT !.state = "RUNNING"] \in JobInfo
                              /\ [info EXCEPT !.state = "RUNNING"].curpri = info.curpri
    BY DEF JobInfo
  <2>2. job' = [[job EXCEPT ![current] = back] EXCEPT ![winner].state = "RUNNING"]
    BY <1>1
  <2> HIDE DEF back
  <2>3. \A j \in DOMAIN job :
           LET info == IF j = current THEN back ELSE job[j]
           IN  job'[j] = IF j = winner THEN [info EXCEPT !.state = "RUNNING"] ELSE info
    BY <1>2, <2>2
  <2> QED  BY <1>2, <1>5, <2>1, <2>2, <2>3 DEF TypeOK
<1> HIDE DEF back
<1>7. TypeOK'
  <2>1. DOMAIN process' = Jobs
    BY DEF Switch, TypeOK
  <2> QED  BY <1>1, <1>2, <1>4, <1>6, <2>1 DEF TypeOK
<1>8. Steps'
  BY <1>1 DEF Steps
<1>9. Accounted'
  BY <1>1, <1>2, <1>4, <1>6 DEF Accounted
<1>10. Still'
  <2>1. /\ process'[loser] # "running"
        /\ \A j \in Jobs : j # current /\ j # next => process'[j] = process[j]
    <3>1. process' = [[process EXCEPT ![current] = Stop(@)] EXCEPT ![winner] = Continue(@)]
      BY DEF Switch
    <3>2. process[next] # "running"
      BY <1>2 DEF Still
    <3>3. Stop(process[current]) # "running"
      BY DEF Stop
    <3> QED  BY <1>2, <3>1, <3>2, <3>3 DEF TypeOK
  <2>2. NULL \notin Jobs
    BY JobAssumption DEF Jobs, NULL
  <2> QED  BY <1>1, <1>2, <1>4, <2>1, <2>2 DEF Still
<1>11. \A j \in Range(queue) : j \in DOMAIN job /\ job[j].curpri <= job[next].curpri
  BY <1>1 DEF Accounted, Chosen
<1>12. \A j \in DOMAIN job : job[j].curpri \in Int /\ job[j].defpri \in Int
  BY DEF TypeOK, JobInfo
<1>13. NoHigherPriorityWaits'
  <2>1. \A j \in Range(queue) : job'[j].curpri = job[j].curpri
    BY <1>2, <1>6, <1>11
  <2>2. CASE stays
    <3>1. \A j \in Range(queue) : job[j].curpri <= job[current].defpri
      BY <1>2, <1>11, <1>12, <2>2
    <3>2. job[next].curpri <= job[current].defpri
      BY <1>2, <1>12, <2>2
    <3> QED  BY <1>1, <1>2, <1>4, <1>6, <2>1, <2>2, <3>1, <3>2 DEF NoHigherPriorityWaits
  <2>3. CASE ~stays
    <3>1. job[current].defpri <= job[next].curpri
      BY <1>2, <1>12, <2>3
    <3> QED  BY <1>1, <1>2, <1>4, <1>6, <1>11, <2>1, <2>3, <3>1 DEF NoHigherPriorityWaits
  <2> QED  BY <2>2, <2>3
<1>14. Chosen'
  BY <1>1 DEF Chosen
<1> QED  BY <1>3, <1>7, <1>8, <1>9, <1>10, <1>13, <1>14

(* Every step of the children and of the two handlers. *)
LEMMA InvStep == Inv /\ [Next]_vars => Inv'
<1> SUFFICES ASSUME Inv, [Next]_vars PROVE Inv'
  OBVIOUS
<1> USE DEF listVars
<1>i. \A j \in DOMAIN job : job[j] \in JobInfo
  BY DEF Inv, TypeOK
<1>p. DOMAIN process = Jobs /\ Stacks
  BY DEF Inv, TypeOK
<1>1. CASE UNCHANGED vars
  BY <1>1, <1>i, <1>p, Elsewhere DEF vars, Stacks
<1>2. ASSUME NEW j \in Jobs,
             RaiseStop(j) \/ Reap(j) \/ \E how \in {"exited", "killed"} : Ends(j, how)
      PROVE  Inv'
  <2>1. /\ UNCHANGED <<jobid, queue, current, next, tickAt, job, stack>>
        /\ \E s \in {"stopped", "gone", "exited", "killed"} : process' = [process EXCEPT ![j] = s]
    BY <1>2 DEF RaiseStop, Reap, Ends
  <2>2. \A i \in Jobs : process'[i] = "running" => process[i] = "running"
    BY <1>p, <2>1
  <2> QED  BY <1>i, <1>p, <2>1, <2>2, Elsewhere DEF Stacks
<1>3. CASE Tick
  <2>1. /\ tickAt = "command" /\ next = NULL
        /\ tickAt' = tickAt /\ stack' = Append(stack, "tick") /\ "tick" \notin Range(stack)
        /\ UNCHANGED <<jobid, job, queue, current, next, process>>
    BY <1>3 DEF Tick, Inv, Steps
  <2>2. Stacks' /\ "tick" \in Range(stack')
    BY <1>p, <2>1, Pushed
  <2> QED  BY <2>1, <2>2
       DEF Inv, TypeOK, Steps, Accounted, Freed, Still, Chosen, NoHigherPriorityWaits
<1>4. CASE NoCommand
  <2>1. /\ tickAt = "command" /\ tickAt' = "select" /\ "tick" \in Range(stack)
        /\ UNCHANGED <<jobid, job, queue, current, next, process, stack>>
    BY <1>4, <1>p, TickRuns DEF NoCommand, At
  <2> QED  BY <2>1
       DEF Inv, TypeOK, Stacks, Steps, Accounted, Freed, Still, Chosen, NoHigherPriorityWaits
<1>5. CASE Child
  <2>1. stack' = Append(stack, "child") /\ "child" \notin Range(stack)
        /\ UNCHANGED <<jobid, job, queue, current, next, process, tickAt>>
    BY <1>5 DEF Child
  <2>2. Stacks' /\ ("tick" \in Range(stack') <=> "tick" \in Range(stack))
    BY <1>p, <2>1, Pushed
  <2> QED  BY <1>i, <1>p, <2>1, <2>2, Elsewhere
<1>6. CASE ReapNone \/ Report
  <2>1. Runs("child") /\ stack' = Front(stack)
        /\ UNCHANGED <<jobid, job, queue, current, next, process, tickAt>>
    BY <1>6 DEF ReapNone, Report, EndChild, ChildIs
  <2>2. Stacks' /\ ("tick" \in Range(stack') <=> "tick" \in Range(stack))
    BY <1>p, <2>1, Popped
  <2> QED  BY <1>i, <1>p, <2>1, <2>2, Elsewhere
<1>7. CASE Load \/ Store
  <2>1. UNCHANGED <<jobid, queue, current, next, process, tickAt, stack>>
    BY <1>7 DEF Load, Store
  <2>2. Stacks'
    BY <1>p, <2>1 DEF Stacks
  <2>3. job' = job \/ \E j \in DOMAIN job : job' = [job EXCEPT ![j].state = "DONE"]
    BY <1>7 DEF Load, Store
  <2>4. \A info \in JobInfo : /\ [info EXCEPT !.state = "DONE"] \in JobInfo
                              /\ [info EXCEPT !.state = "DONE"].curpri = info.curpri
    BY DEF JobInfo
  <2>5. \A j \in DOMAIN job :
           job'[j] = job[j] \/ job'[j] = [job[j] EXCEPT !.state = "DONE"]
    BY <2>3
  <2>6. /\ DOMAIN job' = DOMAIN job
        /\ \A j \in DOMAIN job : job'[j] \in JobInfo /\ job'[j].curpri = job[j].curpri
    <3>1. DOMAIN job' = DOMAIN job
      BY <2>3
    <3>2. ASSUME NEW j \in DOMAIN job
          PROVE  job'[j] \in JobInfo /\ job'[j].curpri = job[j].curpri
      <4>1. job[j] \in JobInfo
        BY <1>i
      <4>2. CASE job'[j] = job[j]
        BY <4>1, <4>2
      <4>3. CASE job'[j] = [job[j] EXCEPT !.state = "DONE"]
        BY <2>4, <4>1, <4>3
      <4> QED  BY <2>5, <4>2, <4>3
    <3> QED  BY <3>1, <3>2
  <2> QED  BY <1>p, <2>1, <2>2, <2>6, Elsewhere
<1>8. ASSUME NEW j \in Jobs, Deq(j) PROVE Inv'
  BY <1>8, DeqPreserves
<1>9. ASSUME NEW pri \in Priorities, Enq(pri) PROVE Inv'
  BY <1>9, EnqPreserves
<1> QED
  BY <1>1, <1>2, <1>3, <1>4, <1>5, <1>6, <1>7, <1>8, <1>9, SelectPreserves, FreePreserves,
     ClearPreserves, NoSwitchPreserves, StartPreserves, SwitchPreserves DEF Next

(* No interleaving of ticks, signals and children leaves the invariant. *)
THEOREM InvHolds == Spec => []Inv
  BY InitInv, InvStep, PTL DEF Spec

(* However SIGCHLD interrupts schedule, and schedule the SIGCHLD handler, a  *)
(* job with a record is in exactly one place, and only current, between the  *)
(* free of its job and current = NULL, reaches what has no record any more.  *)
THEOREM NoJobIsLost == Spec => []JobsAccountedFor
<1>1. Inv => JobsAccountedFor
  <2> SUFFICES ASSUME Inv PROVE JobsAccountedFor
    OBVIOUS
  <2>1. NULL \notin Range(queue)
    BY InQueue DEF Inv, TypeOK
  <2>2. Accounted
    BY DEF Inv
  <2>3. CASE Freed
    BY <2>1, <2>2, <2>3 DEF Accounted, JobsAccountedFor
  <2>4. CASE ~Freed
    BY <2>1, <2>2, <2>4 DEF Accounted, JobsAccountedFor
  <2> QED  BY <2>3, <2>4
<1> QED  BY <1>1, InvHolds, PTL

(* No child of a waiting job runs, whatever the handlers mistake for what. *)
THEOREM OneJobAtATime == Spec => []QueuedJobsStandStill
<1>1. Inv => QueuedJobsStandStill
  <2> SUFFICES ASSUME Inv PROVE QueuedJobsStandStill
    OBVIOUS
  <2>1. Range(queue) \subseteq Jobs
    BY InQueue DEF Inv, TypeOK
  <2> QED  BY <2>1 DEF Inv, Still, QueuedJobsStandStill
<1> QED  BY <1>1, InvHolds, PTL

(* After schedule no job in the list ranks above the current one, for any  *)
(* number of jobs, default priorities and ageing.                          *)
THEOREM HighestRuns == Spec => []NoHigherPriorityWaits
<1>1. Inv => NoHigherPriorityWaits
  BY DEF Inv
<1> QED  BY <1>1, InvHolds, PTL
=============================================================================
