---------------------------- MODULE FileSystemProof ----------------------------
(***************************************************************************)
(* Proofs about FileSystem.                                                *)
(*                                                                         *)
(* The counters of the open inodes: the invariant Inv puts the open files, *)
(* listed and lost, in correspondence with the counts; opening adds a      *)
(* file, closing takes one out of the middle of a list and moves those     *)
(* behind it up, and removing opens and closes the inode in between.       *)
(* Sizes of sets are compared through bijections.                          *)
(*                                                                         *)
(* The sectors: the entries of an inode are a function on places (Tree).   *)
(* Allocation fills places that the new length needs with sectors that     *)
(* were free, deallocation releases exactly the places that the length     *)
(* needs; each is shown for one level of the index, loop by loop, and then *)
(* for an inode, for a volume with several inodes (Sound, Good, Tight),    *)
(* with the directory and the open inodes (Fits), and for every call       *)
(* (FsInv).                                                                *)
(***************************************************************************)
EXTENDS FileSystem, SequenceTheorems, FiniteSetTheorems, WellFoundedInduction, TLAPS

-----------------------------------------------------------------------------
(* Lists.                                                                  *)

(* A list: of what it holds. *)
IsList(s) == s \in Seq(Range(s))

(* Its length and its places. *)
LEMMA ListShape ==
    ASSUME NEW s, IsList(s)
    PROVE  Len(s) \in Nat /\ DOMAIN s = 1 .. Len(s)
BY LenProperties DEF IsList

(* A list of elements of any set is a list. *)
LEMMA ListOf ==
    ASSUME NEW S, NEW s \in Seq(S)
    PROVE  IsList(s)
<1>1. Len(s) \in Nat /\ DOMAIN s = 1 .. Len(s) /\ s \in [1 .. Len(s) -> S]
  BY LenProperties
<1>2. \A i \in 1 .. Len(s) : s[i] \in Range(s)
  BY <1>1 DEF Range
<1>3. s \in [1 .. Len(s) -> Range(s)]
  BY <1>1, <1>2
<1> QED  BY <1>1, <1>3, SeqDef DEF IsList

(* Adding at the end. *)
LEMMA Appended ==
    ASSUME NEW s, IsList(s), NEW e
    PROVE  /\ IsList(Append(s, e))
           /\ Len(Append(s, e)) = Len(s) + 1
           /\ \A i \in 1 .. Len(s) : Append(s, e)[i] = s[i]
           /\ Append(s, e)[Len(s) + 1] = e
<1> DEFINE S == Range(s) \cup {e}
<1>1. Len(s) \in Nat /\ s \in [1 .. Len(s) -> Range(s)]
  BY LenProperties DEF IsList
<1>2. s \in [1 .. Len(s) -> S]
  BY <1>1
<1>3. s \in Seq(S) /\ e \in S
  BY <1>1, <1>2, SeqDef
<1> HIDE DEF S
<1>4. Append(s, e) \in Seq(S)
  BY <1>3, AppendProperties
<1>5. Len(Append(s, e)) = Len(s) + 1
  BY <1>3, AppendProperties
<1>6. \A i \in 1 .. Len(s) : Append(s, e)[i] = s[i]
  BY <1>3, AppendProperties
<1>7. Append(s, e)[Len(s) + 1] = e
  BY <1>3, AppendProperties
<1> QED  BY <1>4, <1>5, <1>6, <1>7, ListOf

(* Taking out the element at place k, or the first. *)
LEMMA TakenOut ==
    ASSUME NEW s, IsList(s), NEW k \in 1 .. Len(s), NEW r,
           r = RemoveAt(s, k) \/ (k = 1 /\ r = Tail(s))
    PROVE  /\ IsList(r)
           /\ Len(r) = Len(s) - 1
           /\ \A i \in 1 .. Len(s) - 1 : r[i] = IF i < k THEN s[i] ELSE s[i + 1]
<1> DEFINE S == Range(s)
           n == Len(s)
           a == SubSeq(s, 1, k - 1)
           b == SubSeq(s, k + 1, Len(s))
<1>0. n \in Nat /\ s \in Seq(S) /\ \A i \in 1 .. n : s[i] \in S
  BY LenProperties, ElementOfSeq DEF IsList
<1>k. k \in Nat /\ 1 <= k /\ k <= n /\ k - 1 \in Int /\ k + 1 \in Int /\ 1 \in Int /\ n \in Int
  BY <1>0
<1> HIDE DEF S
<1>1. /\ a \in Seq(S) /\ Len(a) = k - 1
      /\ \A i \in 1 .. k - 1 : a[i] = s[i]
  <2>1. \A i \in 1 .. k - 1 : s[i] \in S
    BY <1>0, <1>k
  <2>2. /\ a \in Seq(S) /\ Len(a) = IF 1 <= k - 1 THEN (k - 1) - 1 + 1 ELSE 0
        /\ \A i \in 1 .. (k - 1) - 1 + 1 : a[i] = s[1 + i - 1]
    BY <1>0, <1>k, <2>1, SubSeqProperties
  <2> QED  BY <1>k, <2>2
<1>2. /\ b \in Seq(S) /\ Len(b) = n - k
      /\ \A i \in 1 .. n - k : b[i] = s[k + i]
  <2>1. \A i \in k + 1 .. n : s[i] \in S
    BY <1>0, <1>k
  <2>2. /\ b \in Seq(S)
        /\ Len(b) = IF k + 1 <= n THEN n - (k + 1) + 1 ELSE 0
        /\ \A i \in 1 .. n - (k + 1) + 1 : b[i] = s[(k + 1) + i - 1]
    BY <1>0, <1>k, <2>1, SubSeqProperties
  <2> QED  BY <1>k, <2>2
<1>3. CASE r = RemoveAt(s, k)
  <2>1. r = a \o b
    BY <1>3 DEF RemoveAt
  <2> HIDE DEF a, b, n
  <2>2. a \o b \in Seq(S)
    BY <1>1, <1>2, ConcatProperties
  <2>3. Len(a \o b) = Len(a) + Len(b)
    BY <1>1, <1>2, ConcatProperties
  <2>4. \A i \in 1 .. Len(a) + Len(b) : (a \o b)[i] = IF i <= Len(a) THEN a[i] ELSE b[i - Len(a)]
    BY <1>1, <1>2, ConcatProperties
  <2>5. Len(a) + Len(b) = n - 1
    BY <1>k, <1>1, <1>2
  <2>6. ASSUME NEW i \in 1 .. n - 1
        PROVE  (a \o b)[i] = IF i < k THEN s[i] ELSE s[i + 1]
    <3>0. (a \o b)[i] = IF i <= k - 1 THEN a[i] ELSE b[i - (k - 1)]
      BY <1>1, <2>4, <2>5
    <3>1. CASE i < k
      BY <1>k, <1>1, <3>0, <3>1
    <3>2. CASE i >= k
      <4>1. i - (k - 1) \in 1 .. n - k /\ k + (i - (k - 1)) = i + 1 /\ ~(i <= k - 1) /\ ~(i < k)
        BY <1>k, <3>2
      <4>2. b[i - (k - 1)] = s[k + (i - (k - 1))]
        BY <1>2, <4>1
      <4> QED  BY <3>0, <4>1, <4>2
    <3>3. i < k \/ i >= k
      BY <1>k
    <3> QED  BY <3>1, <3>2, <3>3
  <2> QED  BY <2>1, <2>2, <2>3, <2>5, <2>6, ListOf DEF n
<1>4. CASE k = 1 /\ r = Tail(s)
  <2>1. s # <<>>
    BY <1>4, <1>k
  <2>2. r \in Seq(S)
    BY <1>0, <1>4, <2>1, HeadTailProperties
  <2>3. Len(r) = n - 1
    BY <1>0, <1>4, <2>1, HeadTailProperties
  <2>4. \A i \in 1 .. Len(r) : r[i] = s[i + 1]
    BY <1>0, <1>4, <2>1, HeadTailProperties
  <2>5. \A i \in 1 .. n - 1 : ~(i < k)
    BY <1>k, <1>4
  <2> QED  BY <2>2, <2>3, <2>4, <2>5, ListOf
<1> QED  BY <1>3, <1>4

(* Sets whose elements correspond one to one have the same size. *)
LEMMA SameSize ==
    ASSUME NEW A, NEW B, IsFiniteSet(A), NEW g,
           \A y \in A : g[y] \in B,
           \A y, z \in A : g[y] = g[z] => y = z,
           \A z \in B : \E y \in A : g[y] = z
    PROVE  IsFiniteSet(B) /\ Cardinality(B) = Cardinality(A)
<1> DEFINE h == [y \in A |-> g[y]]
<1>1. h \in Bijection(A, B)
  BY DEF Bijection, Injection, Surjection, IsInjective
<1>2. ExistsBijection(A, B)
  BY <1>1 DEF ExistsBijection
<1> QED  BY <1>2, FS_Bijection

-----------------------------------------------------------------------------
(* The invariant, and what a file more or less does to it.                 *)

(* The struct file and the file_control_block around it. *)
IsFile(f) == f = [sector |-> f.sector, pos |-> f.pos, deny_write |-> f.deny_write]
IsBlock(b) == b = [fd |-> b.fd, file |-> b.file] /\ IsFile(b.file)

(* The lists that hold the open files. *)
Lists ==
    /\ DOMAIN file_list = Procs
    /\ \A p \in Procs : /\ IsList(file_list[p])
                        /\ \A i \in 1 .. Len(file_list[p]) : IsBlock(file_list[p][i])
    /\ IsList(lost)
    /\ \A i \in 1 .. Len(lost) : IsFile(lost[i])

(* The open files on an inode, and those of them that deny writing. *)
On(s) == {x \in OpenFiles : FileAt(x).sector = s}
Deniers(s) == {x \in On(s) : FileAt(x).deny_write}

(* CountsMatch, for the induction: also of states that are not Running. *)
Counts ==
    /\ IsFiniteSet(OpenFiles)
    /\ \A s : s \in DOMAIN open_inodes <=> On(s) # {}
    /\ \A s \in DOMAIN open_inodes :
          /\ open_inodes[s].open_cnt = Cardinality(On(s))
          /\ open_inodes[s].deny_write_cnt = Cardinality(Deniers(s))

Inv == Lists /\ Counts

(* Where the open files are. *)
Placed ==
    /\ \A x : x \in OpenFiles <=>
          \/ \E p \in Procs : \E i \in 1 .. Len(file_list[p]) : x = <<p, i>>
          \/ \E i \in 1 .. Len(lost) : x = <<"lost", i>>
    /\ \A p \in Procs : \A i \in 1 .. Len(file_list[p]) :
          FileAt(<<p, i>>) = file_list[p][i].file
    /\ \A i : FileAt(<<"lost", i>>) = lost[i]

(* The lists say so. *)
LEMMA Places == Lists => Placed
<1> SUFFICES ASSUME Lists PROVE Placed
  OBVIOUS
<1>1. \A p \in Procs : DOMAIN file_list[p] = 1 .. Len(file_list[p])
  BY ListShape DEF Lists
<1>2. DOMAIN lost = 1 .. Len(lost)
  BY ListShape DEF Lists
<1>3. \A p \in Procs : p # "lost"
  BY FileSystemAssumption
<1>4. ASSUME NEW x
      PROVE  x \in OpenFiles <=>
                 \/ \E p \in Procs : \E i \in 1 .. Len(file_list[p]) : x = <<p, i>>
                 \/ \E i \in 1 .. Len(lost) : x = <<"lost", i>>
  <2>1. x \in OpenFiles <=>
                 \/ \E p \in Procs : x \in {<<p, i>> : i \in DOMAIN file_list[p]}
                 \/ x \in {<<"lost", i>> : i \in DOMAIN lost}
    <3>1. x \in OpenFiles <=>
             \/ \E T \in {{<<p, i>> : i \in DOMAIN file_list[p]} : p \in Procs} : x \in T
             \/ x \in {<<"lost", i>> : i \in DOMAIN lost}
      BY Zenon DEF OpenFiles
    <3>2. (\E T \in {{<<p, i>> : i \in DOMAIN file_list[p]} : p \in Procs} : x \in T)
          <=> \E p \in Procs : x \in {<<p, i>> : i \in DOMAIN file_list[p]}
      BY Zenon
    <3> QED  BY <3>1, <3>2, Zenon
  <2> QED  BY <1>1, <1>2, <2>1
<1>5. \A p \in Procs : \A i \in 1 .. Len(file_list[p]) :
         FileAt(<<p, i>>) = file_list[p][i].file
  BY <1>3 DEF FileAt
<1>6. \A i : FileAt(<<"lost", i>>) = lost[i]
  BY DEF FileAt
<1> QED  BY <1>4, <1>5, <1>6 DEF Placed

(* After a step. *)
LEMMA PlacesNext == Lists' => Placed'
BY Places, PTL

(* The sets of open files and their sizes. *)
LEMMA Finite ==
    ASSUME IsFiniteSet(OpenFiles), NEW s
    PROVE  /\ IsFiniteSet(On(s)) /\ Cardinality(On(s)) \in Nat
           /\ IsFiniteSet(Deniers(s)) /\ Cardinality(Deniers(s)) \in Nat
           /\ Cardinality(Deniers(s)) <= Cardinality(On(s))
           /\ Cardinality(On(s)) = 0 <=> On(s) = {}
<1>1. On(s) \subseteq OpenFiles /\ Deniers(s) \subseteq On(s)
  BY DEF On, Deniers
<1>2. IsFiniteSet(On(s))
  BY <1>1, FS_Subset
<1>3. IsFiniteSet(Deniers(s)) /\ Cardinality(Deniers(s)) <= Cardinality(On(s))
  BY <1>1, <1>2, FS_Subset
<1> QED  BY <1>2, <1>3, FS_CardinalityType, FS_EmptySet

(* The files stay open; their positions may move, and the counters do not. *)
LEMMA FilesStay ==
    ASSUME Counts,
           OpenFiles' = OpenFiles,
           \A x \in OpenFiles : /\ (FileAt(x).sector)' = FileAt(x).sector
                                /\ (FileAt(x).deny_write)' = FileAt(x).deny_write,
           DOMAIN open_inodes' = DOMAIN open_inodes,
           \A s \in DOMAIN open_inodes :
               /\ open_inodes'[s].open_cnt = open_inodes[s].open_cnt
               /\ open_inodes'[s].deny_write_cnt = open_inodes[s].deny_write_cnt
    PROVE  Counts'
<1>1. \A s : On(s)' = On(s)
  BY DEF On
<1>2. \A s : Deniers(s)' = Deniers(s)
  BY <1>1 DEF Deniers, On
<1> QED  BY <1>1, <1>2 DEF Counts

(* The counters of one inode go up for a file f. *)
Up(s, f) ==
    /\ DOMAIN open_inodes' = DOMAIN open_inodes \cup {s}
    /\ \A t \in DOMAIN open_inodes : t # s => open_inodes'[t] = open_inodes[t]
    /\ open_inodes'[s].open_cnt =
          (IF s \in DOMAIN open_inodes THEN open_inodes[s].open_cnt ELSE 0) + 1
    /\ open_inodes'[s].deny_write_cnt =
          (IF s \in DOMAIN open_inodes THEN open_inodes[s].deny_write_cnt ELSE 0)
          + (IF f.deny_write THEN 1 ELSE 0)

(* They go down, and the inode is closed with its last file. *)
Down(s, f) ==
    /\ \A t \in DOMAIN open_inodes : t # s =>
          t \in DOMAIN open_inodes' /\ open_inodes'[t] = open_inodes[t]
    /\ DOMAIN open_inodes' \subseteq DOMAIN open_inodes
    /\ IF open_inodes[s].open_cnt - 1 > 0
       THEN /\ s \in DOMAIN open_inodes'
            /\ open_inodes'[s].open_cnt = open_inodes[s].open_cnt - 1
            /\ open_inodes'[s].deny_write_cnt =
                  open_inodes[s].deny_write_cnt - (IF f.deny_write THEN 1 ELSE 0)
       ELSE s \notin DOMAIN open_inodes'

(* A file is opened and counted. *)
LEMMA FileAdded ==
    ASSUME Counts, NEW x, NEW f,
           x \notin OpenFiles, OpenFiles' = OpenFiles \cup {x},
           \A y \in OpenFiles : FileAt(y)' = FileAt(y),
           FileAt(x)' = f, Up(f.sector, f)
    PROVE  Counts'
<1>0. IsFiniteSet(OpenFiles)'
  BY FS_AddElement DEF Counts
<1>1. ASSUME NEW s, s # f.sector PROVE On(s)' = On(s) /\ Deniers(s)' = Deniers(s)
  <2>1. On(s)' = On(s)
    BY <1>1 DEF On
  <2> QED  BY <2>1 DEF Deniers, On
<1> DEFINE s == f.sector
<1>2. On(s)' = On(s) \cup {x} /\ x \notin On(s)
  BY DEF On
<1>3. Deniers(s)' = (IF f.deny_write THEN Deniers(s) \cup {x} ELSE Deniers(s)) /\ x \notin Deniers(s)
  BY <1>2 DEF Deniers, On
<1>4. IsFiniteSet(On(s)) /\ IsFiniteSet(Deniers(s))
  BY Finite DEF Counts
<1>5. Cardinality(On(s))' = Cardinality(On(s)) + 1
  BY <1>2, <1>4, FS_AddElement
<1>6. Cardinality(Deniers(s))' = Cardinality(Deniers(s)) + (IF f.deny_write THEN 1 ELSE 0)
  <2>1. CASE f.deny_write
    BY <1>3, <1>4, <2>1, FS_AddElement
  <2>2. CASE ~f.deny_write
    <3>1. Cardinality(Deniers(s)) \in Nat
      BY Finite DEF Counts
    <3> QED  BY <1>3, <2>2, <3>1
  <2> QED  BY <2>1, <2>2
<1>7. /\ (IF s \in DOMAIN open_inodes THEN open_inodes[s].open_cnt ELSE 0) = Cardinality(On(s))
      /\ (IF s \in DOMAIN open_inodes THEN open_inodes[s].deny_write_cnt ELSE 0)
            = Cardinality(Deniers(s))
  <2>1. CASE s \in DOMAIN open_inodes
    BY <2>1 DEF Counts
  <2>2. CASE s \notin DOMAIN open_inodes
    <3>1. On(s) = {} /\ Deniers(s) = {}
      BY <2>2 DEF Counts, Deniers
    <3> QED  BY <2>2, <3>1, FS_EmptySet
  <2> QED  BY <2>1, <2>2
<1>8. open_inodes'[s].open_cnt = Cardinality(On(s))'
  BY <1>5, <1>7 DEF Up
<1>9. open_inodes'[s].deny_write_cnt = Cardinality(Deniers(s))'
  BY <1>6, <1>7 DEF Up
<1>10. ASSUME NEW t PROVE (t \in DOMAIN open_inodes <=> On(t) # {})'
  <2>1. CASE t = s
    BY <1>2, <2>1 DEF Up
  <2>2. CASE t # s
    BY <1>1, <2>2 DEF Up, Counts
  <2> QED  BY <2>1, <2>2
<1>11. ASSUME NEW t \in DOMAIN open_inodes'
       PROVE  (/\ open_inodes[t].open_cnt = Cardinality(On(t))
               /\ open_inodes[t].deny_write_cnt = Cardinality(Deniers(t)))'
  <2>1. CASE t = s
    BY <1>8, <1>9, <2>1
  <2>2. CASE t # s
    BY <1>1, <2>2 DEF Up, Counts
  <2> QED  BY <2>1, <2>2
<1> QED  BY <1>0, <1>10, <1>11 DEF Counts

(* A file is closed and counted off; the others may move in their list. *)
LEMMA FileGone ==
    ASSUME Counts, NEW x \in OpenFiles, NEW g, NEW f, NEW s,
           f = FileAt(x), s = f.sector,
           \A y \in OpenFiles \ {x} : /\ g[y] \in OpenFiles'
                                      /\ FileAt(g[y])' = FileAt(y),
           \A y, z \in OpenFiles \ {x} : g[y] = g[z] => y = z,
           \A z \in OpenFiles' : \E y \in OpenFiles \ {x} : g[y] = z,
           Down(s, f)
    PROVE  Counts'
<1>0. IsFiniteSet(OpenFiles)'
  <2>1. IsFiniteSet(OpenFiles \ {x})
    BY FS_RemoveElement DEF Counts
  <2> QED  BY <2>1, SameSize
<1>1. ASSUME NEW t
      PROVE  /\ Cardinality(On(t))' = Cardinality(On(t) \ {x})
             /\ Cardinality(Deniers(t))' = Cardinality(Deniers(t) \ {x})
             /\ IsFiniteSet(On(t))'
  <2> DEFINE A == On(t) \ {x}
             B == On(t)'
             C == Deniers(t) \ {x}
             D == Deniers(t)'
  <2>0. IsFiniteSet(A) /\ IsFiniteSet(C)
    BY Finite, FS_RemoveElement DEF Counts
  <2>1. (\A y \in A : g[y] \in B) /\ (\A y, z \in A : g[y] = g[z] => y = z)
    BY DEF On
  <2>2. \A z \in B : \E y \in A : g[y] = z
    BY DEF On
  <2>3. (\A y \in C : g[y] \in D) /\ (\A y, z \in C : g[y] = g[z] => y = z)
    BY DEF On, Deniers
  <2>4. \A z \in D : \E y \in C : g[y] = z
    BY DEF On, Deniers
  <2> HIDE DEF A, B, C, D
  <2>5. IsFiniteSet(B) /\ Cardinality(B) = Cardinality(A)
    BY <2>0, <2>1, <2>2, SameSize
  <2>6. Cardinality(D) = Cardinality(C)
    BY <2>0, <2>3, <2>4, SameSize
  <2> QED  BY <2>5, <2>6 DEF A, B, C, D
<1>2. ASSUME NEW t, t # s PROVE On(t) \ {x} = On(t) /\ Deniers(t) \ {x} = Deniers(t)
  BY <1>2 DEF On, Deniers
<1>3. x \in On(s) /\ (x \in Deniers(s) <=> f.deny_write)
  BY DEF On, Deniers
<1>4. s \in DOMAIN open_inodes
  BY <1>3 DEF Counts
<1>5. Cardinality(On(s))' = open_inodes[s].open_cnt - 1
      /\ open_inodes[s].open_cnt \in Nat /\ open_inodes[s].open_cnt > 0
  <2>1. IsFiniteSet(On(s)) /\ open_inodes[s].open_cnt = Cardinality(On(s)) /\ Cardinality(On(s)) \in Nat
    BY <1>4, Finite DEF Counts
  <2>2. Cardinality(On(s)) # 0
    BY <1>3, <2>1, FS_EmptySet
  <2>3. Cardinality(On(s) \ {x}) = Cardinality(On(s)) - 1
    BY <1>3, <2>1, FS_RemoveElement
  <2>4. Cardinality(On(s))' = Cardinality(On(s) \ {x})
    BY <1>1
  <2> QED  BY <2>1, <2>2, <2>3, <2>4
<1>6. Cardinality(Deniers(s))' = open_inodes[s].deny_write_cnt - (IF f.deny_write THEN 1 ELSE 0)
  <2>1. /\ IsFiniteSet(Deniers(s)) /\ Cardinality(Deniers(s)) \in Nat
        /\ open_inodes[s].deny_write_cnt = Cardinality(Deniers(s))
    BY <1>4, Finite DEF Counts
  <2>2. Cardinality(Deniers(s) \ {x}) =
           IF x \in Deniers(s) THEN Cardinality(Deniers(s)) - 1 ELSE Cardinality(Deniers(s))
    BY <2>1, FS_RemoveElement
  <2>3. Cardinality(Deniers(s))' = Cardinality(Deniers(s) \ {x})
    BY <1>1
  <2>4. CASE f.deny_write
    BY <1>3, <2>1, <2>2, <2>3, <2>4
  <2>5. CASE ~f.deny_write
    BY <1>3, <2>1, <2>2, <2>3, <2>5
  <2> QED  BY <2>4, <2>5
<1>7. On(s)' = {} <=> open_inodes[s].open_cnt - 1 = 0
  <2>1. IsFiniteSet(On(s))'
    BY <1>1
  <2> QED  BY <1>5, <2>1, FS_EmptySet
<1>8. \A t : t # s => (On(t)' # {} <=> On(t) # {})
  <2> TAKE t
  <2> HAVE t # s
  <2>1. IsFiniteSet(On(t))' /\ Cardinality(On(t))' = Cardinality(On(t))
    BY <1>1, <1>2
  <2>2. Cardinality(On(t)) = 0 <=> On(t) = {}
    BY Finite DEF Counts
  <2> QED  BY <2>1, <2>2, FS_EmptySet
<1>9. ASSUME NEW t PROVE (t \in DOMAIN open_inodes <=> On(t) # {})'
  <2>1. CASE t = s
    BY <1>5, <1>7, <2>1 DEF Down
  <2>2. CASE t # s
    BY <1>8, <2>2 DEF Down, Counts
  <2> QED  BY <2>1, <2>2
<1>10. ASSUME NEW t \in DOMAIN open_inodes'
       PROVE  (/\ open_inodes[t].open_cnt = Cardinality(On(t))
               /\ open_inodes[t].deny_write_cnt = Cardinality(Deniers(t)))'
  <2>1. CASE t = s
    BY <1>5, <1>6, <1>10, <2>1 DEF Down
  <2>2. CASE t # s
    <3>1. t \in DOMAIN open_inodes /\ open_inodes'[t] = open_inodes[t]
      BY <2>2 DEF Down
    <3>2. Cardinality(On(t))' = Cardinality(On(t)) /\ Cardinality(Deniers(t))' = Cardinality(Deniers(t))
      BY <1>1, <1>2, <2>2
    <3> QED  BY <3>1, <3>2 DEF Counts
  <2> QED  BY <2>1, <2>2
<1> QED  BY <1>0, <1>9, <1>10 DEF Counts

-----------------------------------------------------------------------------
(* What the calls do to the counters.                                      *)

(* What the open inodes are after inode_close. *)
LEMMA CloseInodes ==
    ASSUME NEW v, NEW inodes, NEW s
    PROVE  inode_close(v, inodes, s).inodes =
               IF inodes[s].open_cnt + (-1) > 0
               THEN Put(inodes, s, Counted(inodes[s], -1, 0)) ELSE Without(inodes, s)
BY DEF inode_close, Counted, OpenInode

(* The counters of an open inode are numbers, and one file at least is on it. *)
LEMMA Numbers ==
    ASSUME Counts, NEW s \in DOMAIN open_inodes
    PROVE  /\ open_inodes[s].open_cnt \in Nat /\ open_inodes[s].open_cnt > 0
           /\ open_inodes[s].deny_write_cnt \in Nat
           /\ open_inodes[s].deny_write_cnt <= open_inodes[s].open_cnt
<1>1. On(s) # {} /\ open_inodes[s].open_cnt = Cardinality(On(s))
      /\ open_inodes[s].deny_write_cnt = Cardinality(Deniers(s))
  BY DEF Counts
<1>2. /\ Cardinality(On(s)) \in Nat /\ Cardinality(Deniers(s)) \in Nat
      /\ Cardinality(Deniers(s)) <= Cardinality(On(s))
      /\ Cardinality(On(s)) = 0 <=> On(s) = {}
  BY Finite DEF Counts
<1> QED  BY <1>1, <1>2

(* file_close counts its file off. *)
LEMMA CloseCounts ==
    ASSUME Counts, NEW v, NEW f, NEW s \in DOMAIN open_inodes, s = f.sector,
           open_inodes' = file_close(v, open_inodes, f).inodes
    PROVE  Down(s, f)
<1> DEFINE a == open_inodes[s].open_cnt
           d == open_inodes[s].deny_write_cnt
<1>0. a \in Nat /\ d \in Nat
  BY Numbers
<1>1. CASE ~f.deny_write
  <2>1. open_inodes' = IF a + (-1) > 0 THEN Put(open_inodes, s, Counted(open_inodes[s], -1, 0))
                       ELSE Without(open_inodes, s)
    BY <1>1, CloseInodes DEF file_close
  <2>2. /\ Counted(open_inodes[s], -1, 0).open_cnt = a + (-1)
        /\ Counted(open_inodes[s], -1, 0).deny_write_cnt = d + 0
    BY DEF Counted, OpenInode
  <2>3. a + (-1) = a - 1 /\ d + 0 = d - 0
    BY <1>0
  <2> HIDE DEF a, d
  <2>4. CASE a + (-1) > 0
    <3>1. /\ DOMAIN open_inodes' = DOMAIN open_inodes
          /\ open_inodes'[s] = Counted(open_inodes[s], -1, 0)
          /\ \A t \in DOMAIN open_inodes : t # s => open_inodes'[t] = open_inodes[t]
      BY <2>1, <2>4 DEF Put
    <3> QED  BY <1>1, <2>2, <2>3, <2>4, <3>1 DEF Down, a, d
  <2>5. CASE ~(a + (-1) > 0)
    BY <1>1, <2>1, <2>3, <2>5 DEF Without, Down, a
  <2> QED  BY <2>4, <2>5
<1>2. CASE f.deny_write
  <2> DEFINE inode == Counted(open_inodes[s], 0, -1)
             I == Put(open_inodes, s, inode)
             last == Counted(inode, -1, 0)
  <2>0. /\ DOMAIN I = DOMAIN open_inodes /\ I[s] = inode
        /\ \A t \in DOMAIN open_inodes : t # s => I[t] = open_inodes[t]
    BY DEF Put
  <2>1. PICK w : open_inodes' = inode_close(w, I, s).inodes
    BY <1>2 DEF file_close
  <2>2. /\ inode.open_cnt = a + 0 /\ inode.deny_write_cnt = d + (-1)
        /\ last.open_cnt = inode.open_cnt + (-1)
        /\ last.deny_write_cnt = inode.deny_write_cnt + 0
    BY DEF Counted, OpenInode
  <2>3. inode.open_cnt = a /\ last.open_cnt = a - 1 /\ last.deny_write_cnt = d - 1
    BY <1>0, <2>2
  <2> HIDE DEF I, inode
  <2>4. open_inodes' = IF inode.open_cnt + (-1) > 0 THEN Put(I, s, last) ELSE Without(I, s)
    BY <2>0, <2>1, CloseInodes
  <2>5. inode.open_cnt + (-1) = a - 1
    BY <1>0, <2>3
  <2> HIDE DEF a, d, last
  <2>6. CASE a - 1 > 0
    <3>1. /\ DOMAIN open_inodes' = DOMAIN open_inodes
          /\ open_inodes'[s] = last
          /\ \A t \in DOMAIN open_inodes : t # s => open_inodes'[t] = open_inodes[t]
      BY <2>0, <2>4, <2>5, <2>6 DEF Put
    <3> QED  BY <1>2, <2>3, <2>6, <3>1 DEF Down, a, d
  <2>7. CASE ~(a - 1 > 0)
    BY <2>0, <2>4, <2>5, <2>7 DEF Without, Down, a
  <2> QED  BY <2>6, <2>7
<1> QED  BY <1>1, <1>2

(* filesys_open counts the file it makes. *)
LEMMA OpenCounts ==
    ASSUME Counts, NEW p, NEW n, NEW f, NEW s,
           f = OpenedFile(p, n), s = f.sector,
           open_inodes' = OpenedInodes(p, n)
    PROVE  /\ Up(s, f)
           /\ s = dir[Slot(n)].sector
<1>0. s = dir[Slot(n)].sector /\ f.deny_write = (n = Executable[p])
  BY DEF OpenedFile
<1> DEFINE a == IF s \in DOMAIN open_inodes THEN open_inodes[s].open_cnt ELSE 0
           d == IF s \in DOMAIN open_inodes THEN open_inodes[s].deny_write_cnt ELSE 0
           I == inode_open(vol, open_inodes, s)
<1>1. a \in Nat /\ d \in Nat
  BY Numbers
<1>2. /\ DOMAIN I = DOMAIN open_inodes \cup {s}
      /\ \A t \in DOMAIN open_inodes : t # s => I[t] = open_inodes[t]
  BY DEF inode_open, Put
<1>3. I[s] = IF s \in DOMAIN open_inodes THEN Counted(open_inodes[s], 1, 0)
             ELSE NewOpen(vol.disk[s])
  BY DEF inode_open, Put
<1>4. I[s].open_cnt = a + 1 /\ I[s].deny_write_cnt = d
  <2>1. CASE s \in DOMAIN open_inodes
    <3>1. I[s].open_cnt = open_inodes[s].open_cnt + 1
          /\ I[s].deny_write_cnt = open_inodes[s].deny_write_cnt + 0
      BY <1>3, <2>1 DEF Counted, OpenInode
    <3> QED  BY <1>1, <2>1, <3>1
  <2>2. CASE s \notin DOMAIN open_inodes
    BY <1>3, <2>2 DEF NewOpen, OpenInode
  <2> QED  BY <2>1, <2>2
<1>5. open_inodes' = IF n = Executable[p] THEN Put(I, s, Counted(I[s], 0, 1)) ELSE I
  BY <1>0 DEF OpenedInodes
<1> HIDE DEF I
<1>6. CASE n = Executable[p]
  <2>1. /\ DOMAIN open_inodes' = DOMAIN open_inodes \cup {s}
        /\ \A t \in DOMAIN open_inodes : t # s => open_inodes'[t] = open_inodes[t]
        /\ open_inodes'[s] = Counted(I[s], 0, 1)
    BY <1>2, <1>5, <1>6 DEF Put
  <2>2. /\ open_inodes'[s].open_cnt = I[s].open_cnt + 0
        /\ open_inodes'[s].deny_write_cnt = I[s].deny_write_cnt + 1
    BY <2>1 DEF Counted, OpenInode
  <2>3. open_inodes'[s].open_cnt = a + 1 /\ open_inodes'[s].deny_write_cnt = d + 1
    BY <1>1, <1>4, <2>2
  <2> QED  BY <1>0, <1>6, <2>1, <2>3 DEF Up
<1>7. CASE n # Executable[p]
  <2>1. open_inodes'[s].open_cnt = a + 1 /\ open_inodes'[s].deny_write_cnt = d + 0
    BY <1>1, <1>4, <1>5, <1>7
  <2> QED  BY <1>0, <1>2, <1>5, <1>7, <2>1 DEF Up
<1> QED  BY <1>0, <1>6, <1>7

(* dir_remove opens the inode, marks it and closes it: no counter changes. *)
LEMMA RemoveCounts ==
    ASSUME Counts, NEW s, NEW opened,
           opened = inode_open(vol, open_inodes, s),
           open_inodes' = inode_close(vol, Put(opened, s, Removed(opened[s])), s).inodes
    PROVE  /\ DOMAIN open_inodes' = DOMAIN open_inodes
           /\ \A t \in DOMAIN open_inodes :
               /\ open_inodes'[t].open_cnt = open_inodes[t].open_cnt
               /\ open_inodes'[t].deny_write_cnt = open_inodes[t].deny_write_cnt
<1> DEFINE J == Put(opened, s, Removed(opened[s]))
           last == Counted(J[s], -1, 0)
<1>1. /\ DOMAIN opened = DOMAIN open_inodes \cup {s}
      /\ \A t \in DOMAIN open_inodes : t # s => opened[t] = open_inodes[t]
      /\ opened[s] = IF s \in DOMAIN open_inodes THEN Counted(open_inodes[s], 1, 0)
                     ELSE NewOpen(vol.disk[s])
  BY DEF inode_open, Put
<1>2. /\ DOMAIN J = DOMAIN open_inodes \cup {s}
      /\ \A t \in DOMAIN open_inodes : t # s => J[t] = open_inodes[t]
      /\ J[s] = Removed(opened[s])
  BY <1>1 DEF Put
<1>3. /\ J[s].open_cnt = opened[s].open_cnt /\ J[s].deny_write_cnt = opened[s].deny_write_cnt
      /\ last.open_cnt = J[s].open_cnt + (-1) /\ last.deny_write_cnt = J[s].deny_write_cnt + 0
  BY <1>2 DEF Removed, OpenInode, Counted
<1> HIDE DEF J
<1>4. open_inodes' = IF J[s].open_cnt + (-1) > 0 THEN Put(J, s, last) ELSE Without(J, s)
  BY CloseInodes DEF J
<1>5. CASE s \in DOMAIN open_inodes
  <2>0. /\ open_inodes[s].open_cnt \in Nat /\ open_inodes[s].open_cnt > 0
        /\ open_inodes[s].deny_write_cnt \in Nat
    BY <1>5, Numbers
  <2>1. opened[s].open_cnt = open_inodes[s].open_cnt + 1
        /\ opened[s].deny_write_cnt = open_inodes[s].deny_write_cnt + 0
    BY <1>1, <1>5 DEF Counted, OpenInode
  <2>2. /\ last.open_cnt = open_inodes[s].open_cnt /\ last.deny_write_cnt = open_inodes[s].deny_write_cnt
        /\ J[s].open_cnt + (-1) > 0
    BY <1>3, <2>0, <2>1
  <2> HIDE DEF last
  <2>3. /\ DOMAIN open_inodes' = DOMAIN open_inodes \cup {s} /\ open_inodes'[s] = last
        /\ \A t \in DOMAIN open_inodes : t # s => open_inodes'[t] = open_inodes[t]
    BY <1>2, <1>4, <2>2 DEF Put
  <2> QED  BY <1>5, <2>2, <2>3
<1>6. CASE s \notin DOMAIN open_inodes
  <2>1. opened[s].open_cnt = 1
    BY <1>1, <1>6 DEF NewOpen, OpenInode
  <2>2. ~(J[s].open_cnt + (-1) > 0)
    BY <1>3, <2>1
  <2>3. /\ DOMAIN open_inodes' = DOMAIN open_inodes
        /\ \A t \in DOMAIN open_inodes : open_inodes'[t] = open_inodes[t]
    BY <1>2, <1>4, <1>6, <2>2 DEF Without
  <2> QED  BY <2>3
<1> QED  BY <1>5, <1>6

(* A write changes no counter. *)
LEMMA WriteCounts ==
    ASSUME NEW v, NEW s, NEW inode, NEW size, NEW offset, NEW w,
           w = inode_write_at(v, s, inode, size, offset)
    PROVE  /\ w.inode.open_cnt = inode.open_cnt
           /\ w.inode.deny_write_cnt = inode.deny_write_cnt
<1> DEFINE a == inode_allocate(v, Resized(inode.data, Wrap(offset + size)))
<1>1. \/ w = Wrote(v, inode, 0) \/ w = Wrote(v, inode, size)
      \/ w = Grown(v, s, inode, size, a)
  BY DEF inode_write_at
<1> HIDE DEF a
<1>2. w.inode = inode \/ w.inode = WithData(inode, a.id)
  <2>1. CASE w = Grown(v, s, inode, size, a)
    BY <2>1 DEF Grown, Wrote
  <2>2. CASE w = Wrote(v, inode, 0) \/ w = Wrote(v, inode, size)
    BY <2>2 DEF Wrote
  <2> QED  BY <1>1, <2>1, <2>2
<1> QED  BY <1>2 DEF WithData, OpenInode

-----------------------------------------------------------------------------
(* What the calls do to the lists.                                         *)

(* The lists stay as they are. *)
LEMMA ListsStay ==
    ASSUME Lists, file_list' = file_list, lost' = lost
    PROVE  /\ Lists' /\ OpenFiles' = OpenFiles
           /\ \A x : FileAt(x)' = FileAt(x)
<1>1. Lists'
  BY DEF Lists
<1>2. OpenFiles' = OpenFiles
  BY DEF OpenFiles
<1>3. \A x : FileAt(x)' = FileAt(x)
  BY DEF FileAt
<1> QED  BY <1>1, <1>2, <1>3

(* Nothing happens to the lists nor to the counters. *)
LEMMA InvStays ==
    ASSUME Inv, file_list' = file_list, lost' = lost,
           DOMAIN open_inodes' = DOMAIN open_inodes,
           \A s \in DOMAIN open_inodes :
               /\ open_inodes'[s].open_cnt = open_inodes[s].open_cnt
               /\ open_inodes'[s].deny_write_cnt = open_inodes[s].deny_write_cnt
    PROVE  Inv'
<1>1. Lists' /\ OpenFiles' = OpenFiles /\ \A x : FileAt(x)' = FileAt(x)
  BY ListsStay DEF Inv
<1>2. \A x \in OpenFiles : /\ (FileAt(x).sector)' = FileAt(x).sector
                           /\ (FileAt(x).deny_write)' = FileAt(x).deny_write
  BY <1>1
<1>3. Counts'
  BY <1>1, <1>2, FilesStay DEF Inv
<1> QED  BY <1>1, <1>3 DEF Inv

(* A file's position moves. *)
LEMMA PosMoved ==
    ASSUME Lists, NEW p \in Procs, NEW k \in 1 .. Len(file_list[p]), NEW e,
           file_list' = [file_list EXCEPT ![p][k].file.pos = e], lost' = lost
    PROVE  /\ Lists' /\ OpenFiles' = OpenFiles
           /\ \A x \in OpenFiles : /\ (FileAt(x).sector)' = FileAt(x).sector
                                   /\ (FileAt(x).deny_write)' = FileAt(x).deny_write
                                   /\ (FileAt(x).pos)' \in {FileAt(x).pos, e}
<1> DEFINE l == file_list[p]
           b == [l[k] EXCEPT !.file.pos = e]
<1>0. /\ IsList(l) /\ Len(l) \in Nat /\ DOMAIN l = 1 .. Len(l) /\ IsBlock(l[k])
      /\ DOMAIN file_list = Procs
  BY ListShape DEF Lists
<1>1. /\ b = [fd |-> l[k].fd, file |-> [l[k].file EXCEPT !.pos = e]]
      /\ [l[k].file EXCEPT !.pos = e] =
            [sector |-> l[k].file.sector, pos |-> e, deny_write |-> l[k].file.deny_write]
  BY <1>0 DEF IsBlock, IsFile
<1>2. /\ IsBlock(b) /\ b.file.sector = l[k].file.sector
      /\ b.file.deny_write = l[k].file.deny_write /\ b.file.pos = e
  BY <1>1 DEF IsBlock, IsFile
<1>3. file_list' = [file_list EXCEPT ![p] = [l EXCEPT ![k] = b]]
  BY <1>0
<1> HIDE DEF b
<1>4. /\ DOMAIN file_list' = Procs
      /\ \A q \in Procs : q # p => file_list'[q] = file_list[q]
      /\ file_list'[p] = [l EXCEPT ![k] = b]
  BY <1>0, <1>3
<1>5. IsList([l EXCEPT ![k] = b]) /\ Len([l EXCEPT ![k] = b]) = Len(l)
  <2> DEFINE m == [l EXCEPT ![k] = b]
             S == Range(l) \cup {b}
  <2>1. DOMAIN m = 1 .. Len(l) /\ \A i \in 1 .. Len(l) : m[i] \in S
    BY <1>0 DEF Range
  <2>2. m \in [1 .. Len(l) -> S]
    BY <2>1
  <2>s. Len(l) \in Nat
    BY <1>0
  <2> HIDE DEF m, S
  <2>3. m \in Seq(S)
    BY <2>s, <2>2, SeqDef
  <2>4. IsList(m)
    BY <2>3, ListOf
  <2>5. Len(m) \in Nat /\ DOMAIN m = 1 .. Len(m)
    BY <2>4, ListShape
  <2>6. Len(m) = Len(l)
    BY <1>0, <2>1, <2>5
  <2> QED  BY <2>4, <2>6 DEF m
<1>6. \A i \in 1 .. Len(l) : [l EXCEPT ![k] = b][i] = IF i = k THEN b ELSE l[i]
  BY <1>0
<1>7. \A q \in Procs : IsList(file_list'[q]) /\ Len(file_list'[q]) = Len(file_list[q])
  BY <1>4, <1>5 DEF Lists
<1>8. \A q \in Procs : \A i \in 1 .. Len(file_list[q]) :
         /\ IsBlock(file_list'[q][i])
         /\ file_list'[q][i].file.sector = file_list[q][i].file.sector
         /\ file_list'[q][i].file.deny_write = file_list[q][i].file.deny_write
         /\ file_list'[q][i].file.pos \in {file_list[q][i].file.pos, e}
  BY <1>2, <1>4, <1>6 DEF Lists
<1>9. Lists'
  BY <1>4, <1>7, <1>8 DEF Lists
<1>10. OpenFiles' = OpenFiles
  <2>1. ASSUME NEW x PROVE x \in OpenFiles' <=> x \in OpenFiles
    <3>1. x \in OpenFiles <=>
                 \/ \E q \in Procs : \E i \in 1 .. Len(file_list[q]) : x = <<q, i>>
                 \/ \E i \in 1 .. Len(lost) : x = <<"lost", i>>
      BY Places DEF Placed
    <3>2. x \in OpenFiles' <=>
                 \/ \E q \in Procs : \E i \in 1 .. Len(file_list'[q]) : x = <<q, i>>
                 \/ \E i \in 1 .. Len(lost') : x = <<"lost", i>>
      BY <1>9, PlacesNext DEF Placed
    <3> QED  BY <1>7, <3>1, <3>2
  <2> QED  BY <2>1
<1>11. ASSUME NEW x \in OpenFiles
       PROVE  /\ (FileAt(x).sector)' = FileAt(x).sector
              /\ (FileAt(x).deny_write)' = FileAt(x).deny_write
              /\ (FileAt(x).pos)' \in {FileAt(x).pos, e}
  <2>1. CASE \E i \in 1 .. Len(lost) : x = <<"lost", i>>
    BY <2>1 DEF FileAt
  <2>2. ASSUME NEW q \in Procs, NEW i \in 1 .. Len(file_list[q]), x = <<q, i>>
        PROVE  /\ (FileAt(x).sector)' = FileAt(x).sector
               /\ (FileAt(x).deny_write)' = FileAt(x).deny_write
               /\ (FileAt(x).pos)' \in {FileAt(x).pos, e}
    <3>1. FileAt(x) = file_list[q][i].file
      BY <2>2, Places DEF Placed
    <3>2. FileAt(x)' = file_list'[q][i].file
      BY <1>7, <1>9, <2>2, PlacesNext DEF Placed
    <3> QED  BY <1>8, <3>1, <3>2
  <2>3. \/ \E q \in Procs : \E i \in 1 .. Len(file_list[q]) : x = <<q, i>>
        \/ \E i \in 1 .. Len(lost) : x = <<"lost", i>>
    BY Places DEF Placed
  <2> QED  BY <2>1, <2>2, <2>3
<1> QED  BY <1>9, <1>10, <1>11

(* A file is added to a process's list. *)
LEMMA FileListed ==
    ASSUME Lists, NEW p \in Procs, NEW fd, NEW f, IsFile(f), NEW x,
           x = <<p, Len(file_list[p]) + 1>>,
           file_list' = [file_list EXCEPT ![p] = Append(@, [fd |-> fd, file |-> f])],
           lost' = lost
    PROVE  /\ Lists' /\ x \notin OpenFiles /\ OpenFiles' = OpenFiles \cup {x}
           /\ FileAt(x)' = f
           /\ \A y \in OpenFiles : FileAt(y)' = FileAt(y)
<1> DEFINE l == file_list[p]
           b == [fd |-> fd, file |-> f]
           m == Append(l, b)
<1>0. /\ IsList(l) /\ Len(l) \in Nat /\ DOMAIN file_list = Procs
      /\ \A i \in 1 .. Len(l) : IsBlock(l[i])
      /\ p # "lost"
  BY ListShape, FileSystemAssumption DEF Lists
<1>1. IsBlock(b) /\ b.file = f
  BY DEF IsBlock
<1>2. IsList(m) /\ Len(m) = Len(l) + 1 /\ m[Len(l) + 1] = b
      /\ \A i \in 1 .. Len(l) : m[i] = l[i]
  BY <1>0, Appended
<1>3. /\ DOMAIN file_list' = Procs
      /\ \A q \in Procs : q # p => file_list'[q] = file_list[q]
      /\ file_list'[p] = m
  BY <1>0
<1> HIDE DEF m, b
<1>4. \A i \in 1 .. Len(m) : i \in 1 .. Len(l) \/ i = Len(l) + 1
  BY <1>0, <1>2
<1>5. \A i \in 1 .. Len(m) : IsBlock(m[i])
  BY <1>0, <1>1, <1>2, <1>4
<1>6. Lists'
  BY <1>2, <1>3, <1>5 DEF Lists
<1>7. x \notin OpenFiles
  <2>1. ~(Len(l) + 1 \in 1 .. Len(l))
    BY <1>0
  <2> QED  BY <1>0, <2>1, Places DEF Placed
<1>8. ASSUME NEW y PROVE y \in OpenFiles' <=> y \in OpenFiles \/ y = x
  <2>1. y \in OpenFiles <=>
                 \/ \E q \in Procs : \E i \in 1 .. Len(file_list[q]) : y = <<q, i>>
                 \/ \E i \in 1 .. Len(lost) : y = <<"lost", i>>
    BY Places DEF Placed
  <2>2. y \in OpenFiles' <=>
                 \/ \E q \in Procs : \E i \in 1 .. Len(file_list'[q]) : y = <<q, i>>
                 \/ \E i \in 1 .. Len(lost') : y = <<"lost", i>>
    BY <1>6, PlacesNext DEF Placed
  <2>3. (\E i \in 1 .. Len(m) : y = <<p, i>>) <=> (\E i \in 1 .. Len(l) : y = <<p, i>>) \/ y = x
    <3>1. Len(l) + 1 \in 1 .. Len(m) /\ \A i \in 1 .. Len(l) : i \in 1 .. Len(m)
      BY <1>0, <1>2
    <3> QED  BY <1>4, <3>1
  <2> QED  BY <1>3, <2>1, <2>2, <2>3
<1>9. FileAt(x)' = f
  <2>1. FileAt(x)' = file_list'[p][Len(l) + 1].file
    BY <1>0 DEF FileAt
  <2> QED  BY <1>1, <1>2, <1>3, <2>1
<1>10. ASSUME NEW y \in OpenFiles PROVE FileAt(y)' = FileAt(y)
  <2>1. CASE \E i \in 1 .. Len(lost) : y = <<"lost", i>>
    BY <2>1 DEF FileAt
  <2>2. ASSUME NEW q \in Procs, NEW i \in 1 .. Len(file_list[q]), y = <<q, i>>
        PROVE  FileAt(y)' = FileAt(y)
    <3>1. FileAt(y) = file_list[q][i].file /\ FileAt(y)' = file_list'[q][i].file
      BY <2>2, FileSystemAssumption DEF FileAt
    <3>2. file_list'[q][i] = file_list[q][i]
      BY <1>2, <1>3
    <3> QED  BY <3>1, <3>2
  <2>3. \/ \E q \in Procs : \E i \in 1 .. Len(file_list[q]) : y = <<q, i>>
        \/ \E i \in 1 .. Len(lost) : y = <<"lost", i>>
    BY Places DEF Placed
  <2> QED  BY <2>1, <2>2, <2>3
<1> QED  BY <1>6, <1>7, <1>8, <1>9, <1>10

(* An open file gets no place in a list. *)
LEMMA FileLost ==
    ASSUME Lists, NEW f, IsFile(f), NEW x, x = <<"lost", Len(lost) + 1>>,
           lost' = Append(lost, f), file_list' = file_list
    PROVE  /\ Lists' /\ x \notin OpenFiles /\ OpenFiles' = OpenFiles \cup {x}
           /\ FileAt(x)' = f
           /\ \A y \in OpenFiles : FileAt(y)' = FileAt(y)
<1>0. IsList(lost) /\ Len(lost) \in Nat /\ \A i \in 1 .. Len(lost) : IsFile(lost[i])
  BY ListShape DEF Lists
<1>1. IsList(lost') /\ Len(lost') = Len(lost) + 1 /\ lost'[Len(lost) + 1] = f
      /\ \A i \in 1 .. Len(lost) : lost'[i] = lost[i]
  BY <1>0, Appended
<1>2. \A i \in 1 .. Len(lost') : i \in 1 .. Len(lost) \/ i = Len(lost) + 1
  BY <1>0, <1>1
<1>3. Lists'
  <2>1. \A i \in 1 .. Len(lost') : IsFile(lost'[i])
    BY <1>0, <1>1, <1>2
  <2> QED  BY <1>1, <2>1 DEF Lists
<1>4. \A q \in Procs : q # "lost"
  BY FileSystemAssumption
<1>5. x \notin OpenFiles
  <2>1. ~(Len(lost) + 1 \in 1 .. Len(lost))
    BY <1>0
  <2> QED  BY <1>4, <2>1, Places DEF Placed
<1>6. ASSUME NEW y PROVE y \in OpenFiles' <=> y \in OpenFiles \/ y = x
  <2>1. y \in OpenFiles <=>
                 \/ \E q \in Procs : \E i \in 1 .. Len(file_list[q]) : y = <<q, i>>
                 \/ \E i \in 1 .. Len(lost) : y = <<"lost", i>>
    BY Places DEF Placed
  <2>2. y \in OpenFiles' <=>
                 \/ \E q \in Procs : \E i \in 1 .. Len(file_list'[q]) : y = <<q, i>>
                 \/ \E i \in 1 .. Len(lost') : y = <<"lost", i>>
    BY <1>3, PlacesNext DEF Placed
  <2>3. Len(lost) + 1 \in 1 .. Len(lost') /\ \A i \in 1 .. Len(lost) : i \in 1 .. Len(lost')
    BY <1>0, <1>1
  <2> QED  BY <1>2, <2>1, <2>2, <2>3
<1>7. FileAt(x)' = f
  BY <1>1 DEF FileAt
<1>8. ASSUME NEW y \in OpenFiles PROVE FileAt(y)' = FileAt(y)
  <2>1. \/ \E q \in Procs : \E i \in 1 .. Len(file_list[q]) : y = <<q, i>>
        \/ \E i \in 1 .. Len(lost) : y = <<"lost", i>>
    BY Places DEF Placed
  <2> QED  BY <1>1, <1>4, <2>1 DEF FileAt
<1> QED  BY <1>3, <1>5, <1>6, <1>7, <1>8

(* Where the open files are once the k-th file of p is off its list. *)
MovedUp(p, k) == [y \in OpenFiles |-> IF y[1] = p /\ y[2] > k THEN <<p, y[2] - 1>> ELSE y]

(* The other open files correspond to those after the step, by g. *)
Others(x, g) ==
    /\ \A y \in OpenFiles \ {x} : /\ g[y] \in OpenFiles'
                                  /\ FileAt(g[y])' = FileAt(y)
    /\ \A y, z \in OpenFiles \ {x} : g[y] = g[z] => y = z
    /\ \A z \in OpenFiles' : \E y \in OpenFiles \ {x} : g[y] = z

(* A file is taken off a process's list: the files behind it move up. *)
LEMMA FileUnlisted ==
    ASSUME Lists, NEW p \in Procs, NEW k \in 1 .. Len(file_list[p]), NEW r, NEW x, NEW g,
           r = RemoveAt(file_list[p], k) \/ (k = 1 /\ r = Tail(file_list[p])),
           file_list' = [file_list EXCEPT ![p] = r], lost' = lost,
           x = <<p, k>>,
           g = MovedUp(p, k)
    PROVE  /\ Lists' /\ x \in OpenFiles /\ FileAt(x) = file_list[p][k].file
           /\ Others(x, g)
<1> DEFINE l == file_list[p]
<1>0. /\ IsList(l) /\ Len(l) \in Nat /\ DOMAIN file_list = Procs
      /\ \A i \in 1 .. Len(l) : IsBlock(l[i])
      /\ \A q \in Procs : q # "lost" /\ Len(file_list[q]) \in Nat
      /\ Len(lost) \in Nat
  BY ListShape, FileSystemAssumption DEF Lists
<1>1. /\ IsList(r) /\ Len(r) = Len(l) - 1
      /\ \A i \in 1 .. Len(l) - 1 : r[i] = IF i < k THEN l[i] ELSE l[i + 1]
  BY <1>0, TakenOut
<1>2. /\ DOMAIN file_list' = Procs
      /\ \A q \in Procs : q # p => file_list'[q] = file_list[q]
      /\ file_list'[p] = r
  BY <1>0
<1>3. \A i \in 1 .. Len(l) - 1 : i \in 1 .. Len(l) /\ i + 1 \in 1 .. Len(l)
  BY <1>0
<1>4. \A i \in 1 .. Len(r) : IsBlock(r[i])
  BY <1>0, <1>1, <1>3
<1>5. Lists'
  BY <1>1, <1>2, <1>4 DEF Lists
<1>6. x \in OpenFiles /\ FileAt(x) = l[k].file
  BY Places DEF Placed
<1>7. Placed /\ Placed'
  BY <1>5, Places, PlacesNext
<1>g. g = [y \in OpenFiles |-> IF y[1] = p /\ y[2] > k THEN <<p, y[2] - 1>> ELSE y]
  BY DEF MovedUp
<1>8. \A y \in OpenFiles \ {x} :
         \/ \E i \in 1 .. Len(lost) : y = <<"lost", i>> /\ g[y] = y
         \/ \E q \in Procs : \E i \in 1 .. Len(file_list[q]) : q # p /\ y = <<q, i>> /\ g[y] = y
         \/ \E i \in 1 .. Len(l) : i < k /\ y = <<p, i>> /\ g[y] = y
         \/ \E i \in 1 .. Len(l) : i > k /\ y = <<p, i>> /\ g[y] = <<p, i - 1>>
  <2> TAKE y \in OpenFiles \ {x}
  <2>1. \/ \E q \in Procs : \E i \in 1 .. Len(file_list[q]) : y = <<q, i>>
        \/ \E i \in 1 .. Len(lost) : y = <<"lost", i>>
    BY <1>7 DEF Placed
  <2>2. CASE \E i \in 1 .. Len(lost) : y = <<"lost", i>>
    BY <1>0, <1>g, <2>2
  <2>3. ASSUME NEW q \in Procs, NEW i \in 1 .. Len(file_list[q]), y = <<q, i>>
        PROVE  \/ q # p /\ g[y] = y
               \/ q = p /\ i < k /\ g[y] = y
               \/ q = p /\ i > k /\ g[y] = <<p, i - 1>>
    <3>1. CASE q # p
      BY <1>g, <2>3, <3>1
    <3>2. CASE q = p
      <4>1. i < k \/ i > k
        BY <1>0, <2>3, <3>2
      <4>2. i < k => ~(i > k)
        BY <1>0
      <4> QED  BY <1>g, <2>3, <3>2, <4>1, <4>2
    <3> QED  BY <3>1, <3>2
  <2> QED  BY <2>1, <2>2, <2>3
<1>9. ASSUME NEW y \in OpenFiles \ {x}
      PROVE  g[y] \in OpenFiles' /\ FileAt(g[y])' = FileAt(y)
  <2>1. ASSUME NEW i \in 1 .. Len(lost), y = <<"lost", i>>, g[y] = y
        PROVE  g[y] \in OpenFiles' /\ FileAt(g[y])' = FileAt(y)
    BY <1>7, <2>1 DEF Placed
  <2>2. ASSUME NEW q \in Procs, NEW i \in 1 .. Len(file_list[q]), q # p, y = <<q, i>>, g[y] = y
        PROVE  g[y] \in OpenFiles' /\ FileAt(g[y])' = FileAt(y)
    BY <1>2, <1>7, <2>2 DEF Placed
  <2>3. ASSUME NEW i \in 1 .. Len(l), i < k, y = <<p, i>>, g[y] = y
        PROVE  g[y] \in OpenFiles' /\ FileAt(g[y])' = FileAt(y)
    <3>1. i \in 1 .. Len(r) /\ r[i] = l[i]
      BY <1>0, <1>1, <2>3
    <3> QED  BY <1>2, <1>7, <2>3, <3>1 DEF Placed
  <2>4. ASSUME NEW i \in 1 .. Len(l), i > k, y = <<p, i>>, g[y] = <<p, i - 1>>
        PROVE  g[y] \in OpenFiles' /\ FileAt(g[y])' = FileAt(y)
    <3>1. i - 1 \in 1 .. Len(l) - 1 /\ ~(i - 1 < k) /\ (i - 1) + 1 = i
      BY <1>0, <2>4
    <3>2. r[i - 1] = l[i] /\ i - 1 \in 1 .. Len(r)
      BY <1>1, <3>1
    <3>3. <<p, i - 1>> \in OpenFiles' /\ FileAt(<<p, i - 1>>)' = file_list'[p][i - 1].file
      BY <1>2, <1>7, <3>2 DEF Placed
    <3>4. FileAt(y) = l[i].file
      BY <1>7, <2>4 DEF Placed
    <3> QED  BY <1>2, <2>4, <3>2, <3>3, <3>4
  <2>5. \/ \E i \in 1 .. Len(lost) : y = <<"lost", i>> /\ g[y] = y
        \/ \E q \in Procs : \E i \in 1 .. Len(file_list[q]) : q # p /\ y = <<q, i>> /\ g[y] = y
        \/ \E i \in 1 .. Len(l) : i < k /\ y = <<p, i>> /\ g[y] = y
        \/ \E i \in 1 .. Len(l) : i > k /\ y = <<p, i>> /\ g[y] = <<p, i - 1>>
    BY <1>8
  <2> QED  BY <2>5, <2>1, <2>2, <2>3, <2>4
<1>10. ASSUME NEW y \in OpenFiles \ {x}, NEW z \in OpenFiles \ {x}, g[y] = g[z]
       PROVE  y = z
  <2> DEFINE Back(w) == IF w[1] = p /\ w[2] >= k THEN <<p, w[2] + 1>> ELSE w
  <2>1. ASSUME NEW w \in OpenFiles \ {x} PROVE Back(g[w]) = w
    <3>1. ASSUME NEW i \in 1 .. Len(lost), w = <<"lost", i>>, g[w] = w PROVE Back(g[w]) = w
      BY <1>0, <3>1
    <3>2. ASSUME NEW q \in Procs, NEW i \in 1 .. Len(file_list[q]), q # p, w = <<q, i>>, g[w] = w
          PROVE  Back(g[w]) = w
      BY <3>2
    <3>3. ASSUME NEW i \in 1 .. Len(l), i < k, w = <<p, i>>, g[w] = w PROVE Back(g[w]) = w
      <4>1. ~(i >= k)
        BY <1>0, <3>3
      <4> QED  BY <3>3, <4>1
    <3>4. ASSUME NEW i \in 1 .. Len(l), i > k, w = <<p, i>>, g[w] = <<p, i - 1>>
          PROVE  Back(g[w]) = w
      <4>1. i - 1 >= k /\ (i - 1) + 1 = i
        BY <1>0, <3>4
      <4> QED  BY <3>4, <4>1
    <3> QED  BY <1>8, <3>1, <3>2, <3>3, <3>4
  <2> HIDE DEF Back
  <2> QED  BY <1>10, <2>1
<1>11. ASSUME NEW z \in OpenFiles' PROVE \E y \in OpenFiles \ {x} : g[y] = z
  <2>1. \/ \E q \in Procs : \E i \in 1 .. Len(file_list'[q]) : z = <<q, i>>
        \/ \E i \in 1 .. Len(lost) : z = <<"lost", i>>
    BY <1>7 DEF Placed
  <2>2. CASE \E i \in 1 .. Len(lost) : z = <<"lost", i>>
    <3>1. z \in OpenFiles \ {x}
      BY <1>0, <1>7, <2>2 DEF Placed
    <3>2. g[z] = z
      BY <1>g, <1>0, <2>2, <3>1
    <3> QED  BY <3>1, <3>2
  <2>3. ASSUME NEW q \in Procs, NEW i \in 1 .. Len(file_list'[q]), z = <<q, i>>, q # p
        PROVE  \E y \in OpenFiles \ {x} : g[y] = z
    <3>1. z \in OpenFiles \ {x}
      BY <1>2, <1>7, <2>3 DEF Placed
    <3>2. g[z] = z
      BY <1>g, <2>3, <3>1
    <3> QED  BY <3>1, <3>2
  <2>4. ASSUME NEW i \in 1 .. Len(r), z = <<p, i>>, i < k
        PROVE  \E y \in OpenFiles \ {x} : g[y] = z
    <3>0. i \in 1 .. Len(l) /\ i # k /\ ~(i > k)
      BY <1>0, <1>1, <2>4
    <3>1. z \in OpenFiles \ {x}
      BY <1>7, <2>4, <3>0 DEF Placed
    <3>2. g[z] = z
      BY <1>g, <2>4, <3>0, <3>1
    <3> QED  BY <3>1, <3>2
  <2>5. ASSUME NEW i \in 1 .. Len(r), z = <<p, i>>, ~(i < k)
        PROVE  \E y \in OpenFiles \ {x} : g[y] = z
    <3>0. i + 1 \in 1 .. Len(l) /\ i + 1 # k /\ i + 1 > k /\ (i + 1) - 1 = i
      BY <1>0, <1>1, <2>5
    <3>1. <<p, i + 1>> \in OpenFiles \ {x}
      BY <1>7, <3>0 DEF Placed
    <3>2. g[<<p, i + 1>>] = z
      BY <1>g, <2>5, <3>0, <3>1
    <3> QED  BY <3>1, <3>2
  <2>6. ASSUME NEW q \in Procs, NEW i \in 1 .. Len(file_list'[q]), z = <<q, i>>
        PROVE  \E y \in OpenFiles \ {x} : g[y] = z
    BY <1>2, <2>3, <2>4, <2>5, <2>6
  <2> QED  BY <2>1, <2>2, <2>6
<1> QED  BY <1>5, <1>6, <1>9, <1>10, <1>11 DEF Others

(* A file is closed and taken off its list. *)
LEMMA InvClosed ==
    ASSUME Inv, NEW p \in Procs, NEW k \in 1 .. Len(file_list[p]), NEW r,
           r = RemoveAt(file_list[p], k) \/ (k = 1 /\ r = Tail(file_list[p])),
           file_list' = [file_list EXCEPT ![p] = r], lost' = lost,
           open_inodes' = file_close(vol, open_inodes, file_list[p][k].file).inodes
    PROVE  Inv'
<1>1. PICK x : x = <<p, k>>
  OBVIOUS
<1>2. PICK g : g = MovedUp(p, k)
  OBVIOUS
<1>3. /\ Lists' /\ x \in OpenFiles /\ FileAt(x) = file_list[p][k].file
      /\ Others(x, g)
  <2>1. Lists
    BY DEF Inv
  <2> QED  BY <1>1, <1>2, <2>1, FileUnlisted
<1>4. PICK f : f = FileAt(x)
  OBVIOUS
<1>5. PICK s : s = f.sector
  OBVIOUS
<1>6. s \in DOMAIN open_inodes
  BY <1>3, <1>4, <1>5 DEF Inv, Counts, On
<1>7. open_inodes' = file_close(vol, open_inodes, f).inodes
  BY <1>3, <1>4
<1>8. Down(s, f)
  BY <1>5, <1>6, <1>7, CloseCounts DEF Inv
<1>9. Counts'
  BY <1>3, <1>4, <1>5, <1>8, FileGone DEF Inv, Others
<1> QED  BY <1>3, <1>9 DEF Inv

-----------------------------------------------------------------------------
(* The steps and the theorems.                                             *)

(* The descriptor that a call finds. *)
LEMMA Found ==
    ASSUME Lists, NEW p \in Procs, NEW fd, Has(p, fd)
    PROVE  At(p, fd) \in 1 .. Len(file_list[p]) /\ File(p, fd) = file_list[p][At(p, fd)].file
<1>1. DOMAIN file_list[p] = 1 .. Len(file_list[p])
  BY ListShape DEF Lists
<1>2. At(p, fd) \in DOMAIN file_list[p]
  BY DEF Has, At
<1> QED  BY <1>1, <1>2 DEF File

(* open, with and without a place for the file. *)
LEMMA OpenStep ==
    ASSUME Inv, NEW p \in Procs, NEW n, Open(p, n) \/ OpenNoPage(p, n)
    PROVE  Inv'
<1>1. PICK f : f = OpenedFile(p, n)
  OBVIOUS
<1>2. PICK s : s = f.sector
  OBVIOUS
<1>3. IsFile(f)
  BY <1>1 DEF IsFile, OpenedFile
<1>4. Up(s, f)
  <2>1. open_inodes' = OpenedInodes(p, n)
    BY DEF Open, OpenNoPage
  <2> QED  BY <1>1, <1>2, <2>1, OpenCounts DEF Inv
<1>5. CASE Open(p, n)
  <2>1. PICK x : x = <<p, Len(file_list[p]) + 1>>
    OBVIOUS
  <2>2. file_list' = [file_list EXCEPT ![p] = Append(@, [fd |-> next_fd[p], file |-> f])]
        /\ lost' = lost
    BY <1>1, <1>5 DEF Open
  <2>3. Lists
    BY DEF Inv
  <2>4. /\ Lists' /\ x \notin OpenFiles /\ OpenFiles' = OpenFiles \cup {x}
        /\ FileAt(x)' = f
        /\ \A y \in OpenFiles : FileAt(y)' = FileAt(y)
    BY <1>3, <2>1, <2>2, <2>3, FileListed
  <2>5. Counts'
    BY <1>2, <1>4, <2>4, FileAdded DEF Inv
  <2> QED  BY <2>4, <2>5 DEF Inv
<1>6. CASE OpenNoPage(p, n)
  <2>1. PICK x : x = <<"lost", Len(lost) + 1>>
    OBVIOUS
  <2>2. lost' = Append(lost, f) /\ file_list' = file_list
    BY <1>1, <1>6 DEF OpenNoPage, procVars
  <2>3. Lists
    BY DEF Inv
  <2>4. /\ Lists' /\ x \notin OpenFiles /\ OpenFiles' = OpenFiles \cup {x}
        /\ FileAt(x)' = f
        /\ \A y \in OpenFiles : FileAt(y)' = FileAt(y)
    BY <1>3, <2>1, <2>2, <2>3, FileLost
  <2>5. Counts'
    BY <1>2, <1>4, <2>4, FileAdded DEF Inv
  <2> QED  BY <2>4, <2>5 DEF Inv
<1> QED  BY <1>5, <1>6

(* remove. *)
LEMMA RemoveStep ==
    ASSUME Inv, NEW p \in Procs, NEW n, RemoveFile(p, n)
    PROVE  Inv'
<1>1. PICK s : s = dir[Slot(n)].sector
  OBVIOUS
<1>2. PICK opened : opened = inode_open(vol, open_inodes, s)
  OBVIOUS
<1>3. open_inodes' = inode_close(vol, Put(opened, s, Removed(opened[s])), s).inodes
      /\ file_list' = file_list /\ lost' = lost
  BY <1>1, <1>2 DEF RemoveFile, RemovedClosed, Closed, procVars
<1>4. Counts
  BY DEF Inv
<1>5. /\ DOMAIN open_inodes' = DOMAIN open_inodes
      /\ \A t \in DOMAIN open_inodes :
               /\ open_inodes'[t].open_cnt = open_inodes[t].open_cnt
               /\ open_inodes'[t].deny_write_cnt = open_inodes[t].deny_write_cnt
  BY <1>2, <1>3, <1>4, RemoveCounts
<1> QED  BY <1>3, <1>5, InvStays

(* read and seek. *)
LEMMA MoveStep ==
    ASSUME Inv, NEW p \in Procs, NEW fd, NEW a, Read(p, fd, a) \/ Seek(p, fd, a)
    PROVE  Inv'
<1>1. Lists /\ Has(p, fd) /\ open_inodes' = open_inodes /\ lost' = lost
  BY DEF Inv, Read, Seek
<1>2. PICK k \in 1 .. Len(file_list[p]) : k = At(p, fd)
  BY <1>1, Found
<1>3. file_list' = file_list \/ \E e : file_list' = [file_list EXCEPT ![p][k].file.pos = e]
  BY <1>2 DEF Read, Seek
<1>4. CASE file_list' = file_list
  BY <1>1, <1>4, InvStays
<1>5. ASSUME NEW e, file_list' = [file_list EXCEPT ![p][k].file.pos = e]
      PROVE  Inv'
  <2>1. /\ Lists' /\ OpenFiles' = OpenFiles
        /\ \A x \in OpenFiles : /\ (FileAt(x).sector)' = FileAt(x).sector
                                /\ (FileAt(x).deny_write)' = FileAt(x).deny_write
    BY <1>1, <1>5, PosMoved
  <2>2. Counts'
    BY <1>1, <2>1, FilesStay DEF Inv
  <2> QED  BY <2>1, <2>2 DEF Inv
<1> QED  BY <1>3, <1>4, <1>5

(* write. *)
LEMMA WriteStep ==
    ASSUME Inv, NEW p \in Procs, NEW fd, NEW size, Write(p, fd, size)
    PROVE  Inv'
<1>1. Lists /\ Counts /\ Has(p, fd)
  BY DEF Inv, Write
<1>2. PICK k \in 1 .. Len(file_list[p]) : k = At(p, fd)
  BY <1>1, Found
<1>3. PICK f : f = File(p, fd)
  OBVIOUS
<1>4. CASE UNCHANGED vars
  BY <1>4, InvStays DEF vars, procVars
<1>5. ASSUME NEW w, w = inode_write_at(vol, f.sector, open_inodes[f.sector], size, f.pos),
             open_inodes' = [open_inodes EXCEPT ![f.sector] = w.inode],
             file_list' = [file_list EXCEPT ![p][At(p, fd)].file.pos = @ + w.written],
             lost' = lost
      PROVE  Inv'
  <2>1. /\ w.inode.open_cnt = open_inodes[f.sector].open_cnt
        /\ w.inode.deny_write_cnt = open_inodes[f.sector].deny_write_cnt
    BY <1>5, WriteCounts
  <2>2. /\ DOMAIN open_inodes' = DOMAIN open_inodes
        /\ \A s \in DOMAIN open_inodes :
               /\ open_inodes'[s].open_cnt = open_inodes[s].open_cnt
               /\ open_inodes'[s].deny_write_cnt = open_inodes[s].deny_write_cnt
    BY <1>5, <2>1
  <2>3. PICK e : file_list' = [file_list EXCEPT ![p][k].file.pos = e]
    BY <1>2, <1>5
  <2>4. /\ Lists' /\ OpenFiles' = OpenFiles
        /\ \A x \in OpenFiles : /\ (FileAt(x).sector)' = FileAt(x).sector
                                /\ (FileAt(x).deny_write)' = FileAt(x).deny_write
    <3>1. lost' = lost
      BY <1>5
    <3> QED  BY <1>1, <2>3, <3>1, PosMoved
  <2>5. Counts'
    BY <1>1, <2>2, <2>4, FilesStay
  <2> QED  BY <2>4, <2>5 DEF Inv
<1> QED  BY <1>3, <1>4, <1>5 DEF Write

(* close, and the closing of thread_exit. *)
LEMMA CloseStep ==
    ASSUME Inv, NEW p \in Procs, NEW fd, Close(p, fd) \/ ExitCloses(p)
    PROVE  Inv'
<1>1. CASE Close(p, fd)
  <2>1. Lists /\ Has(p, fd)
    BY <1>1 DEF Inv, Close
  <2>2. PICK k \in 1 .. Len(file_list[p]) : k = At(p, fd) /\ File(p, fd) = file_list[p][k].file
    BY <2>1, Found
  <2>3. /\ file_list' = [file_list EXCEPT ![p] = RemoveAt(file_list[p], k)] /\ lost' = lost
        /\ open_inodes' = file_close(vol, open_inodes, file_list[p][k].file).inodes
    BY <1>1, <2>2 DEF Close, Closed
  <2> QED  BY <2>3, InvClosed
<1>2. CASE ExitCloses(p)
  <2>1. Len(file_list[p]) \in Nat /\ file_list[p] # <<>> /\ IsList(file_list[p])
    BY <1>2, ListShape DEF Inv, Lists, ExitCloses
  <2>2. 1 \in 1 .. Len(file_list[p]) /\ Head(file_list[p]) = file_list[p][1]
    <3>1. Len(file_list[p]) # 0
      BY <2>1, EmptySeq DEF IsList
    <3> QED  BY <2>1, <3>1
  <2>3. /\ file_list' = [file_list EXCEPT ![p] = Tail(file_list[p])] /\ lost' = lost
        /\ open_inodes' = file_close(vol, open_inodes, file_list[p][1].file).inodes
    BY <1>2, <2>2 DEF ExitCloses, Closed
  <2> QED  BY <2>2, <2>3, InvClosed
<1> QED  BY <1>1, <1>2

(* No list, no inode: at the start and after a boot. *)
NothingOpen == open_inodes = <<>> /\ file_list = [q \in Procs |-> <<>>] /\ lost = <<>>

(* Then there is nothing to count. *)
LEMMA NothingOpenInv == NothingOpen => Inv
<1> SUFFICES ASSUME NothingOpen PROVE Inv
  OBVIOUS
<1> USE DEF NothingOpen
<1>0. IsList(<<>>) /\ Len(<<>>) = 0 /\ DOMAIN open_inodes = {}
  BY DEF IsList
<1>1. Lists
  BY <1>0 DEF Lists
<1>2. OpenFiles = {}
  <2>1. \A x : x \notin OpenFiles
    BY <1>0, <1>1, Places DEF Placed
  <2> QED  BY <2>1
<1>3. \A s : On(s) = {}
  BY <1>2 DEF On
<1> QED  BY <1>0, <1>1, <1>2, <1>3, FS_EmptySet DEF Inv, Counts

(* The same after a step. *)
LEMMA NothingOpenNext == NothingOpen' => Inv'
BY NothingOpenInv, PTL

(* Every step keeps the invariant. *)
LEMMA InvStep ==
    ASSUME Inv, [Next]_vars
    PROVE  Inv'
<1>s. ASSUME file_list' = file_list, lost' = lost, open_inodes' = open_inodes PROVE Inv'
  BY <1>s, InvStays
<1>1. CASE UNCHANGED vars
  BY <1>1, <1>s DEF vars, procVars
<1>2. ASSUME NEW p \in Procs, NEW n \in Names, NEW size \in Sizes, Create(p, n, size) PROVE Inv'
  BY <1>2, <1>s DEF Create, procVars
<1>3. ASSUME NEW p \in Procs, NEW n \in Names, CreateFull(p, n) \/ RemoveMissing(p, n) PROVE Inv'
  BY <1>1, <1>3 DEF CreateFull, RemoveMissing
<1>4. ASSUME NEW p \in Procs, NEW n \in Names, RemoveFile(p, n) PROVE Inv'
  BY <1>4, RemoveStep
<1>5. ASSUME NEW p \in Procs, NEW n \in Names, Open(p, n) \/ OpenNoPage(p, n) PROVE Inv'
  BY <1>5, OpenStep
<1>6. ASSUME NEW p \in Procs, NEW n \in Names, OpenMissing(p, n) PROVE Inv'
  BY <1>6, <1>s DEF OpenMissing, procVars
<1>7. ASSUME NEW p \in Procs, NEW fd \in Fds, NEW size \in Sizes,
             Read(p, fd, size) \/ Write(p, fd, size) PROVE Inv'
  BY <1>7, MoveStep, WriteStep
<1>8. ASSUME NEW p \in Procs, NEW fd \in Fds, NEW pos \in Positions, Seek(p, fd, pos) PROVE Inv'
  BY <1>8, MoveStep
<1>9. ASSUME NEW p \in Procs, NEW fd \in Fds, Close(p, fd) PROVE Inv'
  BY <1>9, CloseStep
<1>10. ASSUME NEW p \in Procs, NEW fd \in Fds, CloseMissing(p, fd) \/ NoSuchFd(p, fd) PROVE Inv'
  BY <1>10, <1>s DEF CloseMissing, NoSuchFd, procVars
<1>11. ASSUME NEW p \in Procs, Exit(p) PROVE Inv'
  BY <1>11, <1>s DEF Exit
<1>12. ASSUME NEW p \in Procs, ExitCloses(p) PROVE Inv'
  BY <1>12, CloseStep
<1>13. ASSUME NEW p, Reboot(p) PROVE Inv'
  <2>1. NothingOpen'
    BY <1>13 DEF Reboot, NothingOpen
  <2> QED  BY <2>1, NothingOpenNext
<1>14. ASSUME NEW p \in Procs, Halt(p) PROVE Inv'
  BY <1>13, <1>14 DEF Halt
<1>15. ASSUME NEW p \in Procs, NEW q \in Procs, NEW n \in Names,
              (\E size \in Sizes : CutCreate(p, q, n, size)) \/ CutRemove(p, q, n) PROVE Inv'
  BY <1>13, <1>15 DEF CutCreate, CutRemove, Cuts
<1>16. ASSUME NEW p \in Procs, NEW q \in Procs, NEW fd \in Fds, NEW size \in Sizes,
              CutWrite(p, q, fd, size) PROVE Inv'
  BY <1>13, <1>16 DEF CutWrite, Cuts
<1>17. ASSUME NEW p \in Procs, NEW q \in Procs, CutClose(p, q) PROVE Inv'
  BY <1>13, <1>17 DEF CutClose, Cuts
<1>18. ASSUME NEW p \in Procs, NEW q \in Procs, HaltAstray(p, q) PROVE Inv'
  BY <1>18, <1>s DEF HaltAstray, procVars
<1> QED
  BY <1>1, <1>2, <1>3, <1>4, <1>5, <1>6, <1>7, <1>8, <1>9, <1>10, <1>11, <1>12, <1>14,
     <1>15, <1>16, <1>17, <1>18 DEF Next

(***************************************************************************)
(* In every reachable state the lists of open files are well formed and    *)
(* the counters of struct inode are those of the files in them.            *)
(***************************************************************************)
THEOREM InvHolds == Spec => []Inv
<1>1. Init => Inv
  <2>1. Init => NothingOpen
    BY DEF Init, NothingOpen
  <2> QED  BY <2>1, NothingOpenInv
<1>2. Inv /\ [Next]_vars => Inv'
  BY InvStep
<1> QED  BY <1>1, <1>2, PTL DEF Spec

(***************************************************************************)
(* inode_open, inode_close, file_deny_write and file_allow_write keep      *)
(* open_cnt and deny_write_cnt equal to the number of open files and of    *)
(* deniers, whatever processes open, remove, close and exit in whatever    *)
(* order, with any number of processes, names and descriptors.             *)
(***************************************************************************)
THEOREM CountsHold == Spec => []CountsMatch
<1>1. Inv => CountsMatch
  <2> SUFFICES ASSUME Inv PROVE CountsMatch
    OBVIOUS
  <2>1. DOMAIN open_inodes = {FileAt(x).sector : x \in OpenFiles}
    <3>1. \A s : s \in DOMAIN open_inodes <=> \E x \in OpenFiles : FileAt(x).sector = s
      BY DEF Inv, Counts, On
    <3> QED  BY <3>1
  <2>2. \A s \in DOMAIN open_inodes :
          /\ open_inodes[s].open_cnt = Cardinality(On(s))
          /\ open_inodes[s].deny_write_cnt = Cardinality(Deniers(s))
    BY DEF Inv, Counts
  <2> QED  BY <2>1, <2>2 DEF CountsMatch, On, Deniers
<1> QED  BY <1>1, InvHolds, PTL

(* A file that denies writing is counted in its inode. *)
LEMMA DenierCounted ==
    ASSUME Inv, NEW x \in OpenFiles
    PROVE  /\ FileAt(x).sector \in DOMAIN open_inodes
           /\ FileAt(x).deny_write => open_inodes[FileAt(x).sector].deny_write_cnt > 0
<1>1. PICK s : s = FileAt(x).sector
  OBVIOUS
<1>2. x \in On(s)
  BY <1>1 DEF On
<1>3. s \in DOMAIN open_inodes
  BY <1>2 DEF Inv, Counts
<1>4. /\ IsFiniteSet(Deniers(s)) /\ Cardinality(Deniers(s)) \in Nat
      /\ open_inodes[s].deny_write_cnt = Cardinality(Deniers(s))
  BY <1>3, Finite DEF Inv, Counts
<1>5. ASSUME FileAt(x).deny_write PROVE open_inodes[s].deny_write_cnt > 0
  <2>1. x \in Deniers(s)
    BY <1>2, <1>5 DEF Deniers
  <2>2. Cardinality(Deniers(s)) # 0
    BY <1>4, <2>1, FS_EmptySet
  <2> QED  BY <1>4, <2>2
<1> QED  BY <1>1, <1>3, <1>5

(***************************************************************************)
(* No open inode is left without an opener, and what inode_deny_write,     *)
(* inode_allow_write and inode_close assert of deny_write_cnt holds of     *)
(* every open inode: a file that denies writing is counted there until it  *)
(* is closed, so the count never falls below zero.                         *)
(***************************************************************************)
THEOREM DenialsInRange ==
    Spec => []/\ \A s \in DOMAIN open_inodes :
                     open_inodes[s].open_cnt > 0 /\ DenyInRange(open_inodes[s])
              /\ \A x \in OpenFiles :
                     FileAt(x).deny_write => open_inodes[FileAt(x).sector].deny_write_cnt > 0
<1>1. Inv => \A s \in DOMAIN open_inodes :
                 open_inodes[s].open_cnt > 0 /\ DenyInRange(open_inodes[s])
  BY Numbers DEF Inv, DenyInRange
<1>2. Inv => \A x \in OpenFiles :
                 FileAt(x).deny_write => open_inodes[FileAt(x).sector].deny_write_cnt > 0
  BY DenierCounted
<1> QED  BY <1>1, <1>2, InvHolds, PTL

-----------------------------------------------------------------------------
(* Inodes and volumes.                                                     *)

(* The entries of an inode by place: row 0 has the doubly indirect entry and *)
(* the direct ones, rows 1 to INDIRECT_INDEX_SECTOR_NUM the index blocks     *)
(* under the doubly indirect one, and the last row the indirect one; a row   *)
(* has the sector of its index block at 0 and the entries of the block after *)
(* it.                                                                       *)
LastRow == INDIRECT_INDEX_SECTOR_NUM + 1
Rows == 0 .. LastRow
Cols == 0 .. DIRECT_INDEX_NUM + INDIRECT_INDEX_SECTOR_NUM
Entries == Rows \X Cols

(* The row of the index block in sector e. *)
RowEntry(v, e, b) ==
    IF b = 0 THEN e
    ELSE IF e = 0 \/ b > INDIRECT_INDEX_SECTOR_NUM THEN 0 ELSE IndexAt(v, e)[b]

Node(v, id, a) ==
    IF a = LastRow THEN id.indirect
    ELSE IF id.doubly = 0 THEN 0 ELSE IndexAt(v, id.doubly)[a]

TopEntry(id, b) ==
    IF b = 0 THEN id.doubly ELSE IF b > DIRECT_INDEX_NUM THEN 0 ELSE id.direct[b]

TreeEntry(v, id, a, b) ==
    IF a = 0 THEN TopEntry(id, b) ELSE RowEntry(v, Node(v, id, a), b)

Tree(v, id) == [x \in Entries |-> TreeEntry(v, id, x[1], x[2])]

(* How many of n sectors are under entry a of the doubly indirect block, and *)
(* which entries n sectors under that block need, itself included.           *)
Under(n, a) == Lesser(INDIRECT_INDEX_SECTOR_NUM, n - (a - 1) * INDIRECT_INDEX_SECTOR_NUM)
NeedsDeep(n, a, b) ==
    /\ n > 0
    /\ \/ a = 0 /\ b = 0
       \/ a \in 1 .. bytes_to_sectors(n, INDIRECT_INDEX_SECTOR_NUM) /\ b <= Under(n, a)

(* The entries that a file of n sectors needs. *)
Needs(n, x) ==
    \/ x[1] = 0 /\ x[2] \in 1 .. DirectPart(n)
    \/ x[1] = LastRow /\ IndirectPart(n) > 0 /\ x[2] <= IndirectPart(n)
    \/ NeedsDeep(DoublyPart(n), x[1], x[2])

(* The sectors of a file of its length; all the entries that n sectors need *)
(* are there; and no others are.                                            *)
Blocks(id) == bytes_to_sectors(id.length, BLOCK_SECTOR_SIZE)
Covered(v, id, n) ==
    n <= Capacity /\ \A x \in Entries : Needs(n, x) => Tree(v, id)[x] # 0
Exact(v, id, n) == \A x \in Entries : Tree(v, id)[x] # 0 => Needs(n, x)

(* Types. *)
IsInode(id) ==
    /\ id = InodeDisk(id.length, id.direct, id.indirect, id.doubly)
    /\ id.length \in Int
    /\ id.direct \in [1 .. DIRECT_INDEX_NUM -> Sectors]
    /\ id.indirect \in Sectors /\ id.doubly \in Sectors
SameEntries(id, jd) ==
    id.direct = jd.direct /\ id.indirect = jd.indirect /\ id.doubly = jd.doubly

IsVolume(v) ==
    /\ v = Volume(v.used, v.disk, v.full, v.failed)
    /\ v.used \subseteq Sectors /\ 0 \in v.used
    /\ DOMAIN v.disk = Sectors
    /\ \A s \in Sectors : IndexAt(v, s) \in [1 .. INDIRECT_INDEX_SECTOR_NUM -> Sectors]

(* The inodes ids on v, by sector: every sector of theirs is marked, and no *)
(* two of their entries have the same one.                                  *)
Sound(v, ids) ==
    /\ IsVolume(v)
    /\ DOMAIN ids \subseteq v.used
    /\ \A s \in DOMAIN ids : IsInode(ids[s])
    /\ \A s \in DOMAIN ids, x \in Entries :
          Tree(v, ids[s])[x] # 0 => Tree(v, ids[s])[x] \in v.used \ DOMAIN ids
    /\ \A s, t \in DOMAIN ids, x, y \in Entries :
          Tree(v, ids[s])[x] = Tree(v, ids[t])[y] /\ Tree(v, ids[s])[x] # 0 => s = t /\ x = y

-----------------------------------------------------------------------------
(* Loops and arithmetic.                                                   *)

(* Induction over the naturals, for a set. *)
LEMMA SetInduction ==
    ASSUME NEW S, 0 \in S, \A n \in Nat : n \in S => n + 1 \in S
    PROVE  Nat \subseteq S
<1> DEFINE T == Nat \ S
<1> SUFFICES ASSUME T # {} PROVE FALSE
  OBVIOUS
<1>1. PICK x \in T : \A y \in T : ~(<<y, x>> \in OpToRel(<, Nat))
  <2>1. \E x \in T : \A y \in T : ~(<<y, x>> \in OpToRel(<, Nat))
    BY WFMin, NatLessThanWellFounded
  <2> QED  BY <2>1
<1>2. x \in Nat /\ x # 0
  OBVIOUS
<1>3. x - 1 \in Nat /\ x - 1 < x /\ (x - 1) + 1 = x
  BY <1>2
<1>4. x - 1 \in T
  BY <1>2, <1>3
<1>5. <<x - 1, x>> \in OpToRel(<, Nat)
  BY <1>2, <1>3 DEF OpToRel
<1> QED  BY <1>1, <1>4, <1>5

(* A set of numbers has its minimum. *)
LEMMA Least ==
    ASSUME NEW S, S \subseteq Nat, S # {}
    PROVE  Min(S) \in S /\ \A y \in S : Min(S) <= y
<1>1. PICK x \in S : \A y \in S : ~(<<y, x>> \in OpToRel(<, Nat))
  <2>1. \E x \in S : \A y \in S : ~(<<y, x>> \in OpToRel(<, Nat))
    BY WFMin, NatLessThanWellFounded
  <2> QED  BY <2>1
<1>2. ASSUME NEW y \in S PROVE x <= y
  <2>1. y \in Nat /\ x \in Nat
    OBVIOUS
  <2>2. ~(y < x)
    BY <1>1, <2>1 DEF OpToRel
  <2> QED  BY <2>1, <2>2
<1> QED  BY <1>2 DEF Min

(* DIV_ROUND_UP. *)
LEMMA RoundUp ==
    ASSUME NEW n \in Int, NEW unit \in Nat \ {0}
    PROVE  /\ bytes_to_sectors(n, unit) \in Int
           /\ n <= bytes_to_sectors(n, unit) * unit
           /\ bytes_to_sectors(n, unit) * unit < n + unit
           /\ n >= 0 => bytes_to_sectors(n, unit) \in Nat
<1> DEFINE m == n + unit - 1
           q == m \div unit
<1>1. m \in Int
  OBVIOUS
<1> HIDE DEF m
<1>2. q \in Int /\ unit * q <= m /\ m < unit * q + unit /\ (m >= 0 => q >= 0)
  BY <1>1
<1>3. unit * q = q * unit
  BY <1>2
<1>4. bytes_to_sectors(n, unit) = q
  BY DEF bytes_to_sectors, m
<1> HIDE DEF q
<1> QED  BY <1>2, <1>3, <1>4 DEF m

(* One sector for each. *)
LEMMA RoundOne ==
    ASSUME NEW n \in Int
    PROVE  bytes_to_sectors(n, 1) = n
<1> DEFINE q == bytes_to_sectors(n, 1)
<1>1. q \in Int /\ n <= q * 1 /\ q * 1 < n + 1
  BY RoundUp
<1> HIDE DEF q
<1>2. q = n
  BY <1>1
<1> QED  BY <1>2 DEF q

(* The turns of the loop over blocks: entries that are sectors of data. *)
EntryTurns(f, m, v, blocks, n) ==
    f = [i \in 0 .. m |-> IF i = 0 THEN [vol |-> v, blocks |-> blocks]
                          ELSE AllocateTurn(f[i - 1], i, n, 1, AllocateEntry)]

(* The loop has a result. *)
LEMMA EntryTurnsRun ==
    ASSUME NEW v, NEW blocks, NEW n, NEW k \in Nat
    PROVE  \E f : EntryTurns(f, k, v, blocks, n)
<1> DEFINE start == [vol |-> v, blocks |-> blocks]
           Turn(acc, i) == AllocateTurn(acc, i, n, 1, AllocateEntry)
           S == { m \in Nat : \E f : EntryTurns(f, m, v, blocks, n) }
<1>0. \A f, m : EntryTurns(f, m, v, blocks, n) <=>
                    f = [i \in 0 .. m |-> IF i = 0 THEN start ELSE Turn(f[i - 1], i)]
  BY DEF EntryTurns
<1> HIDE DEF start, Turn
<1>1. 0 \in S
  <2> DEFINE g == [i \in 0 .. 0 |-> start]
  <2>1. g = [i \in 0 .. 0 |-> IF i = 0 THEN start ELSE Turn(g[i - 1], i)]
    OBVIOUS
  <2>2. EntryTurns(g, 0, v, blocks, n)
    BY <1>0, <2>1
  <2> QED  BY <2>2
<1>2. ASSUME NEW m \in Nat, m \in S PROVE m + 1 \in S
  <2>1. PICK f : EntryTurns(f, m, v, blocks, n)
    BY <1>2
  <2> DEFINE g == [i \in 0 .. m + 1 |-> IF i <= m THEN f[i] ELSE Turn(f[m], m + 1)]
  <2>2. ASSUME NEW i \in 0 .. m + 1
        PROVE  g[i] = IF i = 0 THEN start ELSE Turn(g[i - 1], i)
    <3>1. CASE i = 0
      BY <1>0, <2>1, <3>1
    <3>2. CASE i # 0 /\ i <= m
      <4>1. f[i] = Turn(f[i - 1], i)
        BY <1>0, <2>1, <3>2
      <4>2. g[i] = f[i] /\ g[i - 1] = f[i - 1]
        BY <3>2
      <4> QED  BY <3>2, <4>1, <4>2
    <3>3. CASE i = m + 1
      <4>1. g[i] = Turn(f[m], m + 1) /\ g[m] = f[m] /\ i - 1 = m /\ i # 0
        BY <3>3
      <4> QED  BY <3>3, <4>1
    <3>4. i = 0 \/ (i # 0 /\ i <= m) \/ i = m + 1
      OBVIOUS
    <3> QED  BY <3>1, <3>2, <3>3, <3>4
  <2>3. EntryTurns(g, m + 1, v, blocks, n)
    BY <1>0, <2>2
  <2> QED  BY <2>3
<1>3. Nat \subseteq S
  BY <1>1, <1>2, SetInduction
<1> QED  BY <1>3

(* AllocateBlocks is what the last turn leaves. *)
LEMMA EntryLoop ==
    ASSUME NEW v, NEW blocks, NEW n \in Nat
    PROVE  \E f : /\ f[0] = [vol |-> v, blocks |-> blocks]
                  /\ \A i \in 1 .. n : f[i] = AllocateTurn(f[i - 1], i, n, 1, AllocateEntry)
                  /\ AllocateBlocks(v, blocks, n, 1, AllocateEntry) = f[n]
<1> DEFINE best == CHOOSE f : EntryTurns(f, bytes_to_sectors(n, 1), v, blocks, n)
<1>0. bytes_to_sectors(n, 1) = n
  BY RoundOne
<1>1. EntryTurns(best, n, v, blocks, n)
  BY <1>0, EntryTurnsRun
<1>2. AllocateBlocks(v, blocks, n, 1, AllocateEntry) = best[bytes_to_sectors(n, 1)]
  BY DEF AllocateBlocks, EntryTurns
<1> HIDE DEF best
<1>3. /\ best[0] = [vol |-> v, blocks |-> blocks]
      /\ \A i \in 1 .. n : best[i] = AllocateTurn(best[i - 1], i, n, 1, AllocateEntry)
  <2>0. 0 \in 0 .. n /\ \A i \in 1 .. n : i \in 0 .. n /\ i # 0
    OBVIOUS
  <2>1. best = [i \in 0 .. n |-> IF i = 0 THEN [vol |-> v, blocks |-> blocks]
                          ELSE AllocateTurn(best[i - 1], i, n, 1, AllocateEntry)]
    BY <1>1 DEF EntryTurns
  <2> QED  BY <2>0, <2>1, Zenon
<1> QED  BY <1>0, <1>2, <1>3

(* The same for entries that are index blocks. *)
IndirectTurns(f, m, v, blocks, n) ==
    f = [i \in 0 .. m |-> IF i = 0 THEN [vol |-> v, blocks |-> blocks]
                          ELSE AllocateTurn(f[i - 1], i, n, INDIRECT_INDEX_SECTOR_NUM,
                                        AllocateIndirect)]

(* The loop has a result. *)
LEMMA IndirectTurnsRun ==
    ASSUME NEW v, NEW blocks, NEW n, NEW k \in Nat
    PROVE  \E f : IndirectTurns(f, k, v, blocks, n)
<1> DEFINE start == [vol |-> v, blocks |-> blocks]
           Turn(acc, i) == AllocateTurn(acc, i, n, INDIRECT_INDEX_SECTOR_NUM,
                                        AllocateIndirect)
           S == { m \in Nat : \E f : IndirectTurns(f, m, v, blocks, n) }
<1>0. \A f, m : IndirectTurns(f, m, v, blocks, n) <=>
                    f = [i \in 0 .. m |-> IF i = 0 THEN start ELSE Turn(f[i - 1], i)]
  BY DEF IndirectTurns
<1> HIDE DEF start, Turn
<1>1. 0 \in S
  <2> DEFINE g == [i \in 0 .. 0 |-> start]
  <2>1. g = [i \in 0 .. 0 |-> IF i = 0 THEN start ELSE Turn(g[i - 1], i)]
    OBVIOUS
  <2>2. IndirectTurns(g, 0, v, blocks, n)
    BY <1>0, <2>1
  <2> QED  BY <2>2
<1>2. ASSUME NEW m \in Nat, m \in S PROVE m + 1 \in S
  <2>1. PICK f : IndirectTurns(f, m, v, blocks, n)
    BY <1>2
  <2> DEFINE g == [i \in 0 .. m + 1 |-> IF i <= m THEN f[i] ELSE Turn(f[m], m + 1)]
  <2>2. ASSUME NEW i \in 0 .. m + 1
        PROVE  g[i] = IF i = 0 THEN start ELSE Turn(g[i - 1], i)
    <3>1. CASE i = 0
      BY <1>0, <2>1, <3>1
    <3>2. CASE i # 0 /\ i <= m
      <4>1. f[i] = Turn(f[i - 1], i)
        BY <1>0, <2>1, <3>2
      <4>2. g[i] = f[i] /\ g[i - 1] = f[i - 1]
        BY <3>2
      <4> QED  BY <3>2, <4>1, <4>2
    <3>3. CASE i = m + 1
      <4>1. g[i] = Turn(f[m], m + 1) /\ g[m] = f[m] /\ i - 1 = m /\ i # 0
        BY <3>3
      <4> QED  BY <3>3, <4>1
    <3>4. i = 0 \/ (i # 0 /\ i <= m) \/ i = m + 1
      OBVIOUS
    <3> QED  BY <3>1, <3>2, <3>3, <3>4
  <2>3. IndirectTurns(g, m + 1, v, blocks, n)
    BY <1>0, <2>2
  <2> QED  BY <2>3
<1>3. Nat \subseteq S
  BY <1>1, <1>2, SetInduction
<1> QED  BY <1>3

(* What its last turn leaves. *)
LEMMA IndirectLoop ==
    ASSUME NEW v, NEW blocks, NEW n \in Nat, NEW m,
           m = bytes_to_sectors(n, INDIRECT_INDEX_SECTOR_NUM)
    PROVE  \E f : /\ f[0] = [vol |-> v, blocks |-> blocks]
                  /\ \A i \in 1 .. m :
                        f[i] = AllocateTurn(f[i - 1], i, n, INDIRECT_INDEX_SECTOR_NUM,
                                            AllocateIndirect)
                  /\ AllocateBlocks(v, blocks, n, INDIRECT_INDEX_SECTOR_NUM, AllocateIndirect) = f[m]
<1> DEFINE best == CHOOSE f : IndirectTurns(f, m, v, blocks, n)
<1>0. m \in Nat
  BY RoundUp, SectorAssumption
<1>1. IndirectTurns(best, m, v, blocks, n)
  BY <1>0, IndirectTurnsRun
<1>2. AllocateBlocks(v, blocks, n, INDIRECT_INDEX_SECTOR_NUM, AllocateIndirect) = best[m]
  BY DEF AllocateBlocks, IndirectTurns
<1> HIDE DEF best
<1>3. /\ best[0] = [vol |-> v, blocks |-> blocks]
      /\ \A i \in 1 .. m :
            best[i] = AllocateTurn(best[i - 1], i, n, INDIRECT_INDEX_SECTOR_NUM, AllocateIndirect)
  <2>0. 0 \in 0 .. m /\ \A i \in 1 .. m : i \in 0 .. m /\ i # 0
    BY <1>0
  <2>1. best = [i \in 0 .. m |-> IF i = 0 THEN [vol |-> v, blocks |-> blocks]
                   ELSE AllocateTurn(best[i - 1], i, n, INDIRECT_INDEX_SECTOR_NUM, AllocateIndirect)]
    BY <1>1 DEF IndirectTurns
  <2> QED  BY <2>0, <2>1, Zenon
<1> QED  BY <1>2, <1>3

(* The loop that gives back the entries of a block. *)
FreeTurns(f, m, v, blocks, n) ==
    f = [i \in 0 .. m |-> IF i = 0 THEN v
                          ELSE ReleaseEntry(f[i - 1], blocks[i], Lesser(1, n - (i - 1) * 1))]

(* The loop has a result. *)
LEMMA FreeTurnsRun ==
    ASSUME NEW v, NEW blocks, NEW n, NEW k \in Nat
    PROVE  \E f : FreeTurns(f, k, v, blocks, n)
<1> DEFINE start == v
           Turn(acc, i) == ReleaseEntry(acc, blocks[i], Lesser(1, n - (i - 1) * 1))
           S == { m \in Nat : \E f : FreeTurns(f, m, v, blocks, n) }
<1>0. \A f, m : FreeTurns(f, m, v, blocks, n) <=>
                    f = [i \in 0 .. m |-> IF i = 0 THEN start ELSE Turn(f[i - 1], i)]
  BY DEF FreeTurns
<1> HIDE DEF start, Turn
<1>1. 0 \in S
  <2> DEFINE g == [i \in 0 .. 0 |-> start]
  <2>1. g = [i \in 0 .. 0 |-> IF i = 0 THEN start ELSE Turn(g[i - 1], i)]
    OBVIOUS
  <2>2. FreeTurns(g, 0, v, blocks, n)
    BY <1>0, <2>1
  <2> QED  BY <2>2
<1>2. ASSUME NEW m \in Nat, m \in S PROVE m + 1 \in S
  <2>1. PICK f : FreeTurns(f, m, v, blocks, n)
    BY <1>2
  <2> DEFINE g == [i \in 0 .. m + 1 |-> IF i <= m THEN f[i] ELSE Turn(f[m], m + 1)]
  <2>2. ASSUME NEW i \in 0 .. m + 1
        PROVE  g[i] = IF i = 0 THEN start ELSE Turn(g[i - 1], i)
    <3>1. CASE i = 0
      BY <1>0, <2>1, <3>1
    <3>2. CASE i # 0 /\ i <= m
      <4>1. f[i] = Turn(f[i - 1], i)
        BY <1>0, <2>1, <3>2
      <4>2. g[i] = f[i] /\ g[i - 1] = f[i - 1]
        BY <3>2
      <4> QED  BY <3>2, <4>1, <4>2
    <3>3. CASE i = m + 1
      <4>1. g[i] = Turn(f[m], m + 1) /\ g[m] = f[m] /\ i - 1 = m /\ i # 0
        BY <3>3
      <4> QED  BY <3>3, <4>1
    <3>4. i = 0 \/ (i # 0 /\ i <= m) \/ i = m + 1
      OBVIOUS
    <3> QED  BY <3>1, <3>2, <3>3, <3>4
  <2>3. FreeTurns(g, m + 1, v, blocks, n)
    BY <1>0, <2>2
  <2> QED  BY <2>3
<1>3. Nat \subseteq S
  BY <1>1, <1>2, SetInduction
<1> QED  BY <1>3

FreedEntries(v, blocks, n) == ReleaseBlocks(v, blocks, n, 1, ReleaseEntry)

(* What its last turn leaves. *)
LEMMA FreeLoop ==
    ASSUME NEW v, NEW blocks, NEW n \in Nat, NEW m,
           m = bytes_to_sectors(n, 1)
    PROVE  \E f : /\ f[0] = v
                  /\ \A i \in 1 .. m :
                         f[i] = ReleaseEntry(f[i - 1], blocks[i], Lesser(1, n - (i - 1) * 1))
                  /\ FreedEntries(v, blocks, n) = f[m]
<1> DEFINE best == CHOOSE f : FreeTurns(f, m, v, blocks, n)
<1>0. m \in Nat
  BY RoundUp, SectorAssumption
<1>1. FreeTurns(best, m, v, blocks, n)
  BY <1>0, FreeTurnsRun
<1>2. FreedEntries(v, blocks, n) = best[m]
  BY DEF FreedEntries, ReleaseBlocks, FreeTurns
<1> HIDE DEF best
<1>3. /\ best[0] = v
      /\ \A i \in 1 .. m : best[i] = ReleaseEntry(best[i - 1], blocks[i], Lesser(1, n - (i - 1) * 1))
  <2>0. 0 \in 0 .. m /\ \A i \in 1 .. m : i \in 0 .. m /\ i # 0
    BY <1>0
  <2>1. best = [i \in 0 .. m |-> IF i = 0 THEN v
                   ELSE ReleaseEntry(best[i - 1], blocks[i], Lesser(1, n - (i - 1) * 1))]
    BY <1>1 DEF FreeTurns
  <2> QED  BY <2>0, <2>1, Zenon
<1> QED  BY <1>2, <1>3

(* The loop that gives back the index blocks. *)
FreeIndirectTurns(f, m, v, blocks, n) ==
    f = [i \in 0 .. m |-> IF i = 0 THEN v
                          ELSE ReleaseIndirect(f[i - 1], blocks[i], Under(n, i))]

(* The loop has a result. *)
LEMMA FreeIndirectTurnsRun ==
    ASSUME NEW v, NEW blocks, NEW n, NEW k \in Nat
    PROVE  \E f : FreeIndirectTurns(f, k, v, blocks, n)
<1> DEFINE start == v
           Turn(acc, i) == ReleaseIndirect(acc, blocks[i], Under(n, i))
           S == { m \in Nat : \E f : FreeIndirectTurns(f, m, v, blocks, n) }
<1>0. \A f, m : FreeIndirectTurns(f, m, v, blocks, n) <=>
                    f = [i \in 0 .. m |-> IF i = 0 THEN start ELSE Turn(f[i - 1], i)]
  BY DEF FreeIndirectTurns
<1> HIDE DEF start, Turn
<1>1. 0 \in S
  <2> DEFINE g == [i \in 0 .. 0 |-> start]
  <2>1. g = [i \in 0 .. 0 |-> IF i = 0 THEN start ELSE Turn(g[i - 1], i)]
    OBVIOUS
  <2>2. FreeIndirectTurns(g, 0, v, blocks, n)
    BY <1>0, <2>1
  <2> QED  BY <2>2
<1>2. ASSUME NEW m \in Nat, m \in S PROVE m + 1 \in S
  <2>1. PICK f : FreeIndirectTurns(f, m, v, blocks, n)
    BY <1>2
  <2> DEFINE g == [i \in 0 .. m + 1 |-> IF i <= m THEN f[i] ELSE Turn(f[m], m + 1)]
  <2>2. ASSUME NEW i \in 0 .. m + 1
        PROVE  g[i] = IF i = 0 THEN start ELSE Turn(g[i - 1], i)
    <3>1. CASE i = 0
      BY <1>0, <2>1, <3>1
    <3>2. CASE i # 0 /\ i <= m
      <4>1. f[i] = Turn(f[i - 1], i)
        BY <1>0, <2>1, <3>2
      <4>2. g[i] = f[i] /\ g[i - 1] = f[i - 1]
        BY <3>2
      <4> QED  BY <3>2, <4>1, <4>2
    <3>3. CASE i = m + 1
      <4>1. g[i] = Turn(f[m], m + 1) /\ g[m] = f[m] /\ i - 1 = m /\ i # 0
        BY <3>3
      <4> QED  BY <3>3, <4>1
    <3>4. i = 0 \/ (i # 0 /\ i <= m) \/ i = m + 1
      OBVIOUS
    <3> QED  BY <3>1, <3>2, <3>3, <3>4
  <2>3. FreeIndirectTurns(g, m + 1, v, blocks, n)
    BY <1>0, <2>2
  <2> QED  BY <2>3
<1>3. Nat \subseteq S
  BY <1>1, <1>2, SetInduction
<1> QED  BY <1>3

FreedIndirects(v, blocks, n) ==
    ReleaseBlocks(v, blocks, n, INDIRECT_INDEX_SECTOR_NUM, ReleaseIndirect)

(* What its last turn leaves. *)
LEMMA FreeIndirectLoop ==
    ASSUME NEW v, NEW blocks, NEW n \in Nat, NEW m,
           m = bytes_to_sectors(n, INDIRECT_INDEX_SECTOR_NUM)
    PROVE  \E f : /\ f[0] = v
                  /\ \A i \in 1 .. m : f[i] = ReleaseIndirect(f[i - 1], blocks[i], Under(n, i))
                  /\ FreedIndirects(v, blocks, n) = f[m]
<1> DEFINE best == CHOOSE f : FreeIndirectTurns(f, m, v, blocks, n)
<1>0. m \in Nat
  BY RoundUp, SectorAssumption
<1>1. FreeIndirectTurns(best, m, v, blocks, n)
  BY <1>0, FreeIndirectTurnsRun
<1>2. FreedIndirects(v, blocks, n) = best[m]
  BY DEF FreedIndirects, ReleaseBlocks, FreeIndirectTurns, Under
<1> HIDE DEF best
<1>3. /\ best[0] = v
      /\ \A i \in 1 .. m : best[i] = ReleaseIndirect(best[i - 1], blocks[i], Under(n, i))
  <2>0. 0 \in 0 .. m /\ \A i \in 1 .. m : i \in 0 .. m /\ i # 0
    BY <1>0
  <2>1. best = [i \in 0 .. m |-> IF i = 0 THEN v
                   ELSE ReleaseIndirect(best[i - 1], blocks[i], Under(n, i))]
    BY <1>1 DEF FreeIndirectTurns
  <2> QED  BY <2>0, <2>1, Zenon
<1> QED  BY <1>2, <1>3

-----------------------------------------------------------------------------
(* What allocation does to any volume, full or not.                        *)

(* The lesser of two numbers is one of them. *)
LEMMA LesserIs ==
    ASSUME NEW a \in Int, NEW b \in Int
    PROVE  /\ Lesser(a, b) \in Int /\ Lesser(a, b) <= a /\ Lesser(a, b) <= b
           /\ Lesser(a, b) = a \/ Lesser(a, b) = b
BY DEF Lesser

(* The parts of n sectors. *)
LEMMA Parts ==
    ASSUME NEW n \in Nat
    PROVE  /\ DirectPart(n) \in 0 .. DIRECT_INDEX_NUM
           /\ IndirectPart(n) \in 0 .. INDIRECT_INDEX_SECTOR_NUM
           /\ DoublyPart(n) \in 0 .. DoublyNum
           /\ DoublyNum \in Nat
<1>0. DIRECT_INDEX_NUM \in Nat /\ INDIRECT_INDEX_SECTOR_NUM \in Nat
  BY SectorAssumption
<1>1. DoublyNum \in Nat
  BY <1>0 DEF DoublyNum
<1>2. DirectPart(n) \in 0 .. DIRECT_INDEX_NUM /\ DirectPart(n) <= n
  BY <1>0 DEF DirectPart, Lesser
<1>3. IndirectPart(n) \in 0 .. INDIRECT_INDEX_SECTOR_NUM /\ IndirectPart(n) <= n - DirectPart(n)
  BY <1>0, <1>2 DEF IndirectPart, Lesser
<1>4. DoublyPart(n) \in 0 .. DoublyNum
  BY <1>1, <1>2, <1>3 DEF DoublyPart, Lesser
<1> QED  BY <1>1, <1>2, <1>3, <1>4

(* Allocating marks sectors, fails no assertion and does not undo full. *)
Grows(v, w) == v.used \subseteq w.used /\ w.failed = v.failed /\ (v.full => w.full)

(* So does every sequence of steps that do. *)
LEMMA GrowsOn ==
    ASSUME NEW u, NEW v, NEW w, Grows(u, v), Grows(v, w)
    PROVE  Grows(u, w)
BY DEF Grows

(* The same for a loop. *)
LEMMA GrowsAlong ==
    ASSUME NEW f, NEW m \in Nat, \A i \in 1 .. m : Grows(f[i - 1].vol, f[i].vol)
    PROVE  \A i \in 0 .. m : Grows(f[i].vol, f[m].vol) /\ Grows(f[0].vol, f[i].vol)
<1> DEFINE S == { d \in Nat : \A i, j \in 0 .. m : j = i + d => Grows(f[i].vol, f[j].vol) }
<1>1. 0 \in S
  BY DEF Grows
<1>2. ASSUME NEW d \in Nat, d \in S PROVE d + 1 \in S
  <2> SUFFICES ASSUME NEW i \in 0 .. m, NEW j \in 0 .. m, j = i + (d + 1)
               PROVE  Grows(f[i].vol, f[j].vol)
    OBVIOUS
  <2>1. j - 1 \in 0 .. m /\ j - 1 = i + d /\ j \in 1 .. m
    OBVIOUS
  <2>2. Grows(f[i].vol, f[j - 1].vol) /\ Grows(f[j - 1].vol, f[j].vol)
    BY <1>2, <2>1
  <2> QED  BY <2>2, GrowsOn
<1>3. Nat \subseteq S
  BY <1>1, <1>2, SetInduction
<1> SUFFICES ASSUME NEW i \in 0 .. m
             PROVE  Grows(f[i].vol, f[m].vol) /\ Grows(f[0].vol, f[i].vol)
  OBVIOUS
<1>4. m - i \in Nat /\ m = i + (m - i) /\ i \in Nat /\ i = 0 + i /\ m \in 0 .. m /\ 0 \in 0 .. m
  OBVIOUS
<1> QED  BY <1>3, <1>4

(* Each level of the index. *)
LEMMA EntryGrows ==
    ASSUME NEW v, NEW e, NEW n
    PROVE  Grows(v, AllocateEntry(v, e, n).vol)
<1>1. CASE e # 0
  BY <1>1 DEF Grows, AllocateEntry
<1>2. CASE e = 0 /\ FreeSectors(v) = {}
  BY <1>2 DEF Grows, AllocateEntry, cache_write, Volume
<1>3. CASE e = 0 /\ FreeSectors(v) # {}
  BY <1>3 DEF Grows, AllocateEntry, cache_write, free_map_allocate, Volume
<1> QED  BY <1>1, <1>2, <1>3

(* Allocating the entries of a list of blocks only adds marks and fails no assertion. *)
LEMMA EntriesGrow ==
    ASSUME NEW v, NEW blocks, NEW n \in Nat
    PROVE  Grows(v, AllocateBlocks(v, blocks, n, 1, AllocateEntry).vol)
<1>1. PICK f : /\ f[0] = [vol |-> v, blocks |-> blocks]
               /\ \A i \in 1 .. n : f[i] = AllocateTurn(f[i - 1], i, n, 1, AllocateEntry)
               /\ AllocateBlocks(v, blocks, n, 1, AllocateEntry) = f[n]
  BY EntryLoop
<1>2. \A i \in 1 .. n : Grows(f[i - 1].vol, f[i].vol)
  <2> TAKE i \in 1 .. n
  <2>1. f[i].vol = AllocateEntry(f[i - 1].vol, f[i - 1].blocks[i], Lesser(1, n - (i - 1) * 1)).vol
    <3>1. f[i] = AllocateTurn(f[i - 1], i, n, 1, AllocateEntry)
      BY <1>1
    <3>2. PICK r : r = AllocateEntry(f[i - 1].vol, f[i - 1].blocks[i], Lesser(1, n - (i - 1) * 1))
      OBVIOUS
    <3>3. f[i] = Filled(f[i - 1].blocks, i, r)
      BY <3>1, <3>2 DEF AllocateTurn
    <3> QED  BY <3>2, <3>3 DEF Filled
  <2> QED  BY <2>1, EntryGrows
<1>3. Grows(f[0].vol, f[n].vol)
  BY <1>2, GrowsAlong
<1> QED  BY <1>1, <1>3

(* So does allocating an indirect block with n sectors under it. *)
LEMMA IndirectGrows ==
    ASSUME NEW v, NEW e, NEW n \in Nat
    PROVE  Grows(v, AllocateIndirect(v, e, n).vol)
<1> DEFINE a == AllocateEntry(v, e, n)
           b == AllocateBlocks(a.vol, IndexAt(a.vol, a.entry), n, 1, AllocateEntry)
<1>1. CASE n = 0
  BY <1>1 DEF AllocateIndirect, Grows
<1>2. CASE n # 0
  <2>1. AllocateIndirect(v, e, n).vol = cache_write(b.vol, a.entry, Index(b.blocks))
    BY <1>2 DEF AllocateIndirect, AllocateUnder, SaveIndex
  <2>2. Grows(v, a.vol) /\ Grows(a.vol, b.vol)
    BY EntryGrows, EntriesGrow
  <2> HIDE DEF a, b
  <2>3. Grows(b.vol, cache_write(b.vol, a.entry, Index(b.blocks)))
    BY DEF Grows, cache_write, Volume
  <2> QED  BY <2>1, <2>2, <2>3, GrowsOn
<1> QED  BY <1>1, <1>2

(* So does allocating a list of indirect blocks. *)
LEMMA IndirectsGrow ==
    ASSUME NEW v, NEW blocks, NEW n \in Nat
    PROVE  Grows(v, AllocateBlocks(v, blocks, n, INDIRECT_INDEX_SECTOR_NUM, AllocateIndirect).vol)
<1> DEFINE unit == INDIRECT_INDEX_SECTOR_NUM
           m == bytes_to_sectors(n, unit)
<1>0. m \in Nat /\ unit \in Nat \ {0} /\ m * unit < n + unit
  BY RoundUp, SectorAssumption
<1>1. PICK f : /\ f[0] = [vol |-> v, blocks |-> blocks]
               /\ \A i \in 1 .. m : f[i] = AllocateTurn(f[i - 1], i, n, unit, AllocateIndirect)
               /\ AllocateBlocks(v, blocks, n, unit, AllocateIndirect) = f[m]
  BY IndirectLoop
<1> HIDE DEF unit, m
<1>2. \A i \in 1 .. m : Grows(f[i - 1].vol, f[i].vol)
  <2> TAKE i \in 1 .. m
  <2> DEFINE k == Lesser(unit, n - (i - 1) * unit)
  <2>1. f[i].vol = AllocateIndirect(f[i - 1].vol, f[i - 1].blocks[i], k).vol
    <3>1. f[i] = AllocateTurn(f[i - 1], i, n, unit, AllocateIndirect)
      BY <1>1
    <3>2. PICK r : r = AllocateIndirect(f[i - 1].vol, f[i - 1].blocks[i], k)
      OBVIOUS
    <3>3. f[i] = Filled(f[i - 1].blocks, i, r)
      BY <3>1, <3>2 DEF AllocateTurn
    <3> QED  BY <3>2, <3>3 DEF Filled
  <2>2. k \in Nat
    <3>1. /\ i * unit <= m * unit /\ (i - 1) * unit = i * unit - unit
          /\ i * unit \in Int /\ m * unit \in Int
      BY <1>0
    <3>2. n - (i - 1) * unit > 0
      BY <1>0, <3>1
    <3> QED  BY <1>0, <3>1, <3>2 DEF Lesser
  <2> QED  BY <2>1, <2>2, IndirectGrows
<1>3. Grows(f[0].vol, f[m].vol)
  BY <1>0, <1>2, GrowsAlong
<1> QED  BY <1>1, <1>3 DEF unit

(* So does allocating a doubly indirect block. *)
LEMMA DoublyGrows ==
    ASSUME NEW v, NEW e, NEW n \in Nat
    PROVE  Grows(v, AllocateDoubly(v, e, n).vol)
<1> DEFINE a == AllocateEntry(v, e, n)
           b == AllocateBlocks(a.vol, IndexAt(a.vol, a.entry), n, INDIRECT_INDEX_SECTOR_NUM,
                               AllocateIndirect)
<1>1. CASE n = 0
  BY <1>1 DEF AllocateDoubly, Grows
<1>2. CASE n # 0
  <2>1. AllocateDoubly(v, e, n).vol = cache_write(b.vol, a.entry, Index(b.blocks))
    BY <1>2 DEF AllocateDoubly, AllocateUnder, SaveIndex
  <2>2. Grows(v, a.vol) /\ Grows(a.vol, b.vol)
    BY EntryGrows, IndirectsGrow
  <2> HIDE DEF a, b
  <2>3. Grows(b.vol, cache_write(b.vol, a.entry, Index(b.blocks)))
    BY DEF Grows, cache_write, Volume
  <2> QED  BY <2>1, <2>2, <2>3, GrowsOn
<1> QED  BY <1>1, <1>2

-----------------------------------------------------------------------------
(* Entries that are added to entries that stay.                            *)

(* From f to g entries are filled with sectors that were not marked in U: *)
(* each with one of its own, and there are no others in W.                *)
Extended(U, f, W, g) ==
    /\ DOMAIN g = DOMAIN f /\ 0 \in U /\ U \subseteq W
    /\ \A k \in DOMAIN f : f[k] # 0 => g[k] = f[k]
    /\ \A k \in DOMAIN f : f[k] = 0 /\ g[k] # 0 => g[k] \in W /\ g[k] \notin U
    /\ \A k, l \in DOMAIN f : f[k] = 0 /\ f[l] = 0 /\ g[k] # 0 /\ g[k] = g[l] => k = l
    /\ \A x \in W : x \notin U => \E k \in DOMAIN f : f[k] = 0 /\ g[k] = x

(* The entries that are filled are marked, and differ from each other. *)
Proper(U, f) ==
    /\ \A k \in DOMAIN f : f[k] # 0 => f[k] \in U
    /\ \A k, l \in DOMAIN f : f[k] # 0 /\ f[k] = f[l] => k = l

(* Nothing is added. *)
LEMMA ExtendedSame ==
    ASSUME NEW U, NEW f, NEW g, 0 \in U,
           DOMAIN g = DOMAIN f, \A k \in DOMAIN f : g[k] = f[k]
    PROVE  Extended(U, f, U, g)
BY DEF Extended

(* One entry is added. *)
LEMMA ExtendedOne ==
    ASSUME NEW U, NEW f, NEW g, NEW k \in DOMAIN f, NEW x, 0 \in U, x \notin U,
           f[k] = 0, g[k] = x, DOMAIN g = DOMAIN f,
           \A l \in DOMAIN f : l # k => g[l] = f[l]
    PROVE  Extended(U, f, U \cup {x}, g)
BY DEF Extended

(* One addition after another. *)
LEMMA ExtendedOn ==
    ASSUME NEW U, NEW V, NEW W, NEW f, NEW g, NEW h, Extended(U, f, V, g), Extended(V, g, W, h)
    PROVE  Extended(U, f, W, h)
<1>1. DOMAIN h = DOMAIN f /\ 0 \in U /\ U \subseteq W
  BY DEF Extended
<1>2. \A k \in DOMAIN f : f[k] # 0 => h[k] = f[k]
  BY DEF Extended
<1>3. \A k \in DOMAIN f : f[k] = 0 /\ h[k] # 0 => h[k] \in W /\ h[k] \notin U
  <2> TAKE k \in DOMAIN f
  <2>1. CASE g[k] # 0
    BY <2>1 DEF Extended
  <2>2. CASE g[k] = 0
    BY <2>2 DEF Extended
  <2> QED  BY <2>1, <2>2
<1>4. ASSUME NEW k \in DOMAIN f, NEW l \in DOMAIN f, f[k] = 0, f[l] = 0, h[k] # 0, h[k] = h[l]
      PROVE  k = l
  <2>0. k \in DOMAIN g /\ l \in DOMAIN g
    BY DEF Extended
  <2>1. CASE g[k] # 0 /\ g[l] # 0
    <3>1. h[k] = g[k] /\ h[l] = g[l]
      BY <2>0, <2>1 DEF Extended
    <3> QED  BY <1>4, <2>1, <3>1 DEF Extended
  <2>2. CASE g[k] # 0 /\ g[l] = 0
    <3>1. h[k] = g[k] /\ g[k] \in V /\ h[l] \notin V
      BY <1>4, <2>0, <2>2 DEF Extended
    <3> QED  BY <1>4, <3>1
  <2>3. CASE g[k] = 0 /\ g[l] # 0
    <3>1. h[l] = g[l] /\ g[l] \in V /\ h[k] \notin V
      BY <1>4, <2>0, <2>3 DEF Extended
    <3> QED  BY <1>4, <3>1
  <2>4. CASE g[k] = 0 /\ g[l] = 0
    BY <1>4, <2>0, <2>4 DEF Extended
  <2> QED  BY <2>1, <2>2, <2>3, <2>4
<1>5. ASSUME NEW x \in W, x \notin U PROVE \E k \in DOMAIN f : f[k] = 0 /\ h[k] = x
  <2>1. CASE x \in V
    <3>1. PICK k \in DOMAIN f : f[k] = 0 /\ g[k] = x
      BY <1>5, <2>1 DEF Extended
    <3>2. x # 0 /\ k \in DOMAIN g
      BY <1>5 DEF Extended
    <3>3. h[k] = g[k]
      BY <3>1, <3>2 DEF Extended
    <3> QED  BY <3>1, <3>3
  <2>2. CASE x \notin V
    <3>1. PICK k \in DOMAIN g : g[k] = 0 /\ h[k] = x
      BY <1>5, <2>2 DEF Extended
    <3>2. k \in DOMAIN f /\ f[k] = 0
      BY <3>1 DEF Extended
    <3> QED  BY <3>1, <3>2
  <2> QED  BY <2>1, <2>2
<1> QED  BY <1>1, <1>2, <1>3, <1>4, <1>5 DEF Extended

(* Additions to a part of the entries, the one that j places in the whole. *)
LEMMA ExtendedWhole ==
    ASSUME NEW U, NEW W, NEW f, NEW g, Extended(U, f, W, g), NEW F, NEW G, NEW j,
           DOMAIN G = DOMAIN F,
           \A k \in DOMAIN f : j[k] \in DOMAIN F /\ F[j[k]] = f[k] /\ G[j[k]] = g[k],
           \A k, l \in DOMAIN f : j[k] = j[l] => k = l,
           \A y \in DOMAIN F : G[y] = F[y] \/ \E k \in DOMAIN f : y = j[k]
    PROVE  Extended(U, F, W, G)
<1>0. /\ 0 \in U /\ U \subseteq W
      /\ \A k \in DOMAIN f : f[k] # 0 => g[k] = f[k]
      /\ \A k \in DOMAIN f : f[k] = 0 /\ g[k] # 0 => g[k] \in W /\ g[k] \notin U
      /\ \A k, l \in DOMAIN f : f[k] = 0 /\ f[l] = 0 /\ g[k] # 0 /\ g[k] = g[l] => k = l
      /\ \A x \in W : x \notin U => \E k \in DOMAIN f : f[k] = 0 /\ g[k] = x
  BY DEF Extended
<1>1. ASSUME NEW y \in DOMAIN F
      PROVE  /\ F[y] # 0 => G[y] = F[y]
             /\ F[y] = 0 /\ G[y] # 0 => /\ G[y] \in W /\ G[y] \notin U
                                        /\ \E k \in DOMAIN f : y = j[k] /\ f[k] = 0 /\ g[k] = G[y]
  BY <1>0
<1>2. ASSUME NEW y \in DOMAIN F, NEW z \in DOMAIN F, F[y] = 0, F[z] = 0, G[y] # 0, G[y] = G[z]
      PROVE  y = z
  <2>1. PICK k \in DOMAIN f : y = j[k] /\ f[k] = 0 /\ g[k] = G[y]
    BY <1>1, <1>2
  <2>2. PICK l \in DOMAIN f : z = j[l] /\ f[l] = 0 /\ g[l] = G[z]
    BY <1>1, <1>2
  <2>3. k = l
    BY <1>0, <1>2, <2>1, <2>2
  <2> QED  BY <2>1, <2>2, <2>3
<1>3. \A x \in W : x \notin U => \E y \in DOMAIN F : F[y] = 0 /\ G[y] = x
  <2> TAKE x \in W
  <2> HAVE x \notin U
  <2>1. PICK k \in DOMAIN f : f[k] = 0 /\ g[k] = x
    BY <1>0
  <2> QED  BY <2>1
<1> QED  BY <1>0, <1>1, <1>2, <1>3 DEF Extended

(* What was proper stays so. *)
LEMMA ExtendedProper ==
    ASSUME NEW U, NEW W, NEW f, NEW g, Extended(U, f, W, g), Proper(U, f)
    PROVE  Proper(W, g)
<1>1. ASSUME NEW k \in DOMAIN g, g[k] # 0 PROVE g[k] \in W
  BY <1>1 DEF Extended, Proper
<1>2. ASSUME NEW k \in DOMAIN g, NEW l \in DOMAIN g, g[k] # 0, g[k] = g[l] PROVE k = l
  <2>0. k \in DOMAIN f /\ l \in DOMAIN f
    BY DEF Extended
  <2>1. CASE f[k] # 0 /\ f[l] # 0
    <3>1. g[k] = f[k] /\ g[l] = f[l]
      BY <2>0, <2>1 DEF Extended
    <3> QED  BY <1>2, <2>0, <3>1 DEF Proper
  <2>2. CASE f[k] # 0 /\ f[l] = 0
    <3>1. g[k] = f[k] /\ f[k] \in U /\ g[l] \notin U
      BY <1>2, <2>0, <2>2 DEF Extended, Proper
    <3> QED  BY <1>2, <3>1
  <2>3. CASE f[k] = 0 /\ f[l] # 0
    <3>1. g[l] = f[l] /\ f[l] \in U /\ g[k] \notin U
      BY <1>2, <2>0, <2>3 DEF Extended, Proper
    <3> QED  BY <1>2, <3>1
  <2>4. CASE f[k] = 0 /\ f[l] = 0
    BY <1>2, <2>0, <2>4 DEF Extended
  <2> QED  BY <2>1, <2>2, <2>3, <2>4
<1> QED  BY <1>1, <1>2 DEF Proper

-----------------------------------------------------------------------------
(* What allocation does to a volume that does not become full.             *)

(* w is v with c in sector s. *)
Written(v, s, c, w) ==
    /\ IsVolume(w) /\ w.used = v.used /\ w.failed = v.failed /\ w.full = v.full
    /\ w.disk[s] = c
    /\ \A t \in Sectors : t # s => w.disk[t] = v.disk[t] /\ IndexAt(w, t) = IndexAt(v, t)

(* cache_write. *)
LEMMA Writes ==
    ASSUME NEW v, IsVolume(v), NEW s \in Sectors, NEW c, NEW w, w = cache_write(v, s, c),
           c.kind # "index" \/ c.blocks \in [1 .. INDIRECT_INDEX_SECTOR_NUM -> Sectors]
    PROVE  Written(v, s, c, w)
<1>1. w = Volume(v.used, [t \in Sectors |-> IF t = s THEN c ELSE v.disk[t]], v.full, v.failed)
  BY DEF cache_write
<1>2. /\ w.used = v.used /\ w.failed = v.failed /\ w.full = v.full
      /\ w.disk = [t \in Sectors |-> IF t = s THEN c ELSE v.disk[t]]
      /\ w = Volume(w.used, w.disk, w.full, w.failed)
  BY <1>1 DEF Volume
<1>3. w.disk[s] = c /\ \A t \in Sectors : t # s => w.disk[t] = v.disk[t]
  BY <1>2
<1>4. \A t \in Sectors : t # s => IndexAt(w, t) = IndexAt(v, t)
  BY <1>3 DEF IndexAt
<1>5. /\ 0 \in Sectors
      /\ NoBlocks(INDIRECT_INDEX_SECTOR_NUM) \in [1 .. INDIRECT_INDEX_SECTOR_NUM -> Sectors]
  BY SectorAssumption DEF NoBlocks, Sectors
<1>6. IndexAt(w, s) \in [1 .. INDIRECT_INDEX_SECTOR_NUM -> Sectors]
  BY <1>3, <1>5 DEF IndexAt
<1>7. IsVolume(w)
  BY <1>2, <1>4, <1>6 DEF IsVolume
<1> QED  BY <1>2, <1>3, <1>4, <1>7 DEF Written

(* w is v with sector s marked. *)
Marked(v, s, w) ==
    /\ s \in Sectors /\ s # 0 /\ s \notin v.used
    /\ IsVolume(w) /\ w.used = v.used \cup {s} /\ w.disk = v.disk
    /\ w.failed = v.failed /\ w.full = v.full

(* free_map_allocate. *)
LEMMA Marks ==
    ASSUME NEW v, IsVolume(v), FreeSectors(v) # {}
    PROVE  Marked(v, Min(FreeSectors(v)), free_map_allocate(v))
<1>0. PICK s : s = Min(FreeSectors(v))
  OBVIOUS
<1>w. PICK w : w = free_map_allocate(v)
  OBVIOUS
<1>1. FreeSectors(v) \subseteq Nat
  BY SectorAssumption DEF FreeSectors, Sectors
<1>2. s \in FreeSectors(v)
  BY <1>0, <1>1, Least
<1>3. s \in Sectors /\ s # 0 /\ s \notin v.used
  BY <1>2 DEF FreeSectors, IsVolume
<1>4. w = Volume(v.used \cup {s}, v.disk, v.full, v.failed)
  BY <1>0, <1>w DEF free_map_allocate
<1>5. /\ w.used = v.used \cup {s} /\ w.disk = v.disk /\ w.failed = v.failed /\ w.full = v.full
      /\ w = Volume(w.used, w.disk, w.full, w.failed)
  BY <1>4 DEF Volume
<1>6. \A t : IndexAt(w, t) = IndexAt(v, t)
  BY <1>5 DEF IndexAt
<1>7. IsVolume(w)
  BY <1>3, <1>5, <1>6 DEF IsVolume
<1> QED  BY <1>0, <1>w, <1>3, <1>5, <1>7 DEF Marked

(* An entry is there, or has become a new sector of zeros. *)
EntryDone(v, e, r) ==
    /\ IsVolume(r.vol) /\ r.entry \in Sectors /\ r.entry # 0
    /\ e # 0 => r.entry = e /\ r.vol = v
    /\ e = 0 => /\ r.entry \notin v.used
                /\ r.vol.used = v.used \cup {r.entry}
                /\ r.vol.disk[r.entry] = Zeros
                /\ \A t \in Sectors : t # r.entry => r.vol.disk[t] = v.disk[t]

(* Level 0. *)
LEMMA EntryAllocated ==
    ASSUME NEW v, IsVolume(v), NEW e \in Sectors, NEW n, NEW r, r = AllocateEntry(v, e, n),
           ~r.vol.full
    PROVE  EntryDone(v, e, r)
<1>1. CASE e # 0
  BY <1>1 DEF AllocateEntry, EntryDone
<1>2. CASE e = 0 /\ FreeSectors(v) = {}
  BY <1>2 DEF AllocateEntry, cache_write, Volume
<1>3. CASE e = 0 /\ FreeSectors(v) # {}
  <2>1. PICK s : s = Min(FreeSectors(v))
    OBVIOUS
  <2>2. PICK w : w = free_map_allocate(v)
    OBVIOUS
  <2>3. PICK x : x = cache_write(w, s, Zeros)
    OBVIOUS
  <2>4. r.vol = x /\ r.entry = s
    BY <1>3, <2>1, <2>2, <2>3 DEF AllocateEntry
  <2>5. Marked(v, s, w)
    BY <1>3, <2>1, <2>2, Marks
  <2>6. Zeros.kind # "index"
    BY DEF Zeros
  <2>7. Written(w, s, Zeros, x)
    BY <2>3, <2>5, <2>6, Writes DEF Marked
  <2> QED  BY <1>3, <2>4, <2>5, <2>7 DEF Marked, Written, EntryDone
<1> QED  BY <1>1, <1>2, <1>3

(* The first n of the entries have sectors, the others are as they were, and *)
(* nothing is written to a sector that was marked.                           *)
EntriesDone(v, blocks, m, n, r) ==
    /\ IsVolume(r.vol) /\ r.blocks \in [1 .. m -> Sectors]
    /\ Extended(v.used, blocks, r.vol.used, r.blocks)
    /\ \A i \in 1 .. n : r.blocks[i] # 0
    /\ \A i \in 1 .. m : i > n => r.blocks[i] = blocks[i]
    /\ \A s \in v.used : r.vol.disk[s] = v.disk[s]

(* One turn of the loop. *)
LEMMA EntriesTurn ==
    ASSUME NEW v, IsVolume(v), NEW m \in Nat, NEW blocks \in [1 .. m -> Sectors],
           NEW n \in Nat, n + 1 <= m, NEW acc, EntriesDone(v, blocks, m, n, acc),
           NEW k, NEW r, r = AllocateEntry(acc.vol, acc.blocks[n + 1], k), ~r.vol.full,
           NEW next, next = Filled(acc.blocks, n + 1, r)
    PROVE  EntriesDone(v, blocks, m, n + 1, next)
<1> DEFINE e == acc.blocks[n + 1]
<1>1. /\ IsVolume(acc.vol) /\ acc.blocks \in [1 .. m -> Sectors] /\ n + 1 \in 1 .. m
      /\ Extended(v.used, blocks, acc.vol.used, acc.blocks)
      /\ \A i \in 1 .. n : acc.blocks[i] # 0
      /\ \A i \in 1 .. m : i > n => acc.blocks[i] = blocks[i]
      /\ \A s \in v.used : acc.vol.disk[s] = v.disk[s]
  BY DEF EntriesDone
<1>2. e \in Sectors
  BY <1>1
<1>3. EntryDone(acc.vol, e, r)
  BY <1>1, <1>2, EntryAllocated
<1>4. /\ next.vol = r.vol
      /\ next.blocks = [j \in DOMAIN acc.blocks |-> IF j = n + 1 THEN r.entry ELSE acc.blocks[j]]
  BY DEF Filled
<1> HIDE DEF e
<1>5. IsVolume(next.vol) /\ next.blocks \in [1 .. m -> Sectors]
  <2>1. IsVolume(r.vol) /\ r.entry \in Sectors
    BY <1>3 DEF EntryDone
  <2>2. DOMAIN acc.blocks = 1 .. m /\ \A j \in 1 .. m : acc.blocks[j] \in Sectors
    BY <1>1
  <2>3. \A j \in 1 .. m : (IF j = n + 1 THEN r.entry ELSE acc.blocks[j]) \in Sectors
    BY <2>1, <2>2
  <2> QED  BY <1>4, <2>1, <2>2, <2>3
<1>6. /\ next.blocks[n + 1] = r.entry /\ r.entry # 0
      /\ \A j \in 1 .. m : j # n + 1 => next.blocks[j] = acc.blocks[j]
      /\ DOMAIN next.blocks = DOMAIN acc.blocks /\ DOMAIN acc.blocks = 1 .. m
  BY <1>1, <1>3, <1>4 DEF EntryDone
<1>7. Extended(acc.vol.used, acc.blocks, next.vol.used, next.blocks)
  <2>0. 0 \in acc.vol.used
    BY <1>1 DEF IsVolume
  <2>1. CASE e # 0
    <3>1. next.vol = acc.vol /\ r.entry = e
      BY <1>3, <1>4, <2>1 DEF EntryDone
    <3>2. \A j \in DOMAIN acc.blocks : next.blocks[j] = acc.blocks[j]
      BY <1>6, <3>1 DEF e
    <3> QED  BY <1>6, <2>0, <3>1, <3>2, ExtendedSame
  <2>2. CASE e = 0
    <3>1. r.entry \notin acc.vol.used /\ next.vol.used = acc.vol.used \cup {r.entry}
      BY <1>3, <1>4, <2>2 DEF EntryDone
    <3>2. acc.blocks[n + 1] = 0 /\ n + 1 \in DOMAIN acc.blocks
      BY <1>1, <1>6, <2>2 DEF e
    <3> QED  BY <1>6, <2>0, <3>1, <3>2, ExtendedOne
  <2> QED  BY <2>1, <2>2
<1>8. Extended(v.used, blocks, next.vol.used, next.blocks)
  BY <1>1, <1>7, ExtendedOn
<1>9. \A i \in 1 .. n + 1 : next.blocks[i] # 0
  BY <1>1, <1>6
<1>10. \A i \in 1 .. m : i > n + 1 => next.blocks[i] = blocks[i]
  BY <1>1, <1>6
<1>11. ASSUME NEW s \in v.used PROVE next.vol.disk[s] = v.disk[s]
  <2>1. s \in Sectors /\ s \in acc.vol.used /\ acc.vol.disk[s] = v.disk[s]
    BY <1>1, <1>11 DEF IsVolume, Extended
  <2>2. r.vol.disk[s] = acc.vol.disk[s]
    BY <1>3, <2>1 DEF EntryDone
  <2> QED  BY <1>4, <2>1, <2>2
<1> QED  BY <1>5, <1>8, <1>9, <1>10, <1>11 DEF EntriesDone

(* The loop. *)
LEMMA EntriesAllocated ==
    ASSUME NEW v, IsVolume(v), NEW m \in Nat, NEW blocks \in [1 .. m -> Sectors],
           NEW n \in 0 .. m, NEW r, r = AllocateBlocks(v, blocks, n, 1, AllocateEntry), ~r.vol.full
    PROVE  EntriesDone(v, blocks, m, n, r)
<1>1. PICK f : /\ f[0] = [vol |-> v, blocks |-> blocks]
               /\ \A i \in 1 .. n : f[i] = AllocateTurn(f[i - 1], i, n, 1, AllocateEntry)
               /\ AllocateBlocks(v, blocks, n, 1, AllocateEntry) = f[n]
  BY EntryLoop
<1> DEFINE k(i) == Lesser(1, n - (i - 1) * 1)
           turn(i) == AllocateEntry(f[i - 1].vol, f[i - 1].blocks[i], k(i))
<1>2. \A i \in 1 .. n : f[i] = Filled(f[i - 1].blocks, i, turn(i))
  <2> TAKE i \in 1 .. n
  <2>1. f[i] = AllocateTurn(f[i - 1], i, n, 1, AllocateEntry)
    BY <1>1
  <2> QED  BY <2>1 DEF AllocateTurn
<1> HIDE DEF k
<1>3. \A i \in 1 .. n : f[i].vol = turn(i).vol
  <2> TAKE i \in 1 .. n
  <2>1. PICK t : t = turn(i)
    OBVIOUS
  <2>2. f[i] = Filled(f[i - 1].blocks, i, t)
    BY <1>2, <2>1
  <2>3. f[i].vol = t.vol
    BY <2>2 DEF Filled
  <2> QED  BY <2>1, <2>3
<1>4. \A i \in 1 .. n : Grows(f[i - 1].vol, f[i].vol)
  BY <1>3, EntryGrows
<1>5. \A i \in 1 .. n : ~turn(i).vol.full
  <2> TAKE i \in 1 .. n
  <2>1. Grows(f[i].vol, f[n].vol)
    BY <1>4, GrowsAlong
  <2> QED  BY <1>1, <1>3, <2>1 DEF Grows
<1> DEFINE S == { i \in Nat : i <= n => EntriesDone(v, blocks, m, i, f[i]) }
<1>6. 0 \in S
  <2>1. f[0].vol = v /\ f[0].blocks = blocks /\ 0 \in v.used
    BY <1>1 DEF IsVolume
  <2>2. Extended(v.used, blocks, v.used, blocks)
    BY <2>1, ExtendedSame
  <2> QED  BY <2>1, <2>2 DEF EntriesDone
<1>7. ASSUME NEW i \in Nat, i \in S PROVE i + 1 \in S
  <2> SUFFICES ASSUME i + 1 <= n PROVE EntriesDone(v, blocks, m, i + 1, f[i + 1])
    OBVIOUS
  <2>1. EntriesDone(v, blocks, m, i, f[i]) /\ i + 1 \in 1 .. n /\ (i + 1) - 1 = i /\ i + 1 <= m
    BY <1>7
  <2>2. /\ f[i + 1] = Filled(f[i].blocks, i + 1, turn(i + 1)) /\ ~turn(i + 1).vol.full
        /\ turn(i + 1) = AllocateEntry(f[i].vol, f[i].blocks[i + 1], k(i + 1))
    BY <1>2, <1>5, <2>1
  <2> HIDE DEF turn
  <2> QED  BY <2>1, <2>2, EntriesTurn
<1>8. Nat \subseteq S
  BY <1>6, <1>7, SetInduction
<1> QED  BY <1>1, <1>8

-----------------------------------------------------------------------------
(* Level 1.                                                                *)

(* The row of the index block in sector e. *)
Row(v, e) == [b \in Cols |-> RowEntry(v, e, b)]

(* An index block has its sector and its first n entries have theirs, the  *)
(* others are as they were, and of the sectors that were marked only that  *)
(* of the index block is written.                                          *)
IndirectDone(v, e, n, r) ==
    /\ IsVolume(r.vol) /\ r.entry \in Sectors
    /\ Extended(v.used, Row(v, e), r.vol.used, Row(r.vol, r.entry))
    /\ \A b \in Cols : IF n > 0 /\ b <= n THEN RowEntry(r.vol, r.entry, b) # 0
                       ELSE RowEntry(r.vol, r.entry, b) = RowEntry(v, e, b)
    /\ \A s \in v.used : s # e \/ e = 0 => r.vol.disk[s] = v.disk[s]

(* The columns. *)
LEMMA ColsAre ==
    /\ Cols \subseteq Nat /\ 0 \in Cols
    /\ 0 .. INDIRECT_INDEX_SECTOR_NUM \subseteq Cols
    /\ 0 .. DIRECT_INDEX_NUM \subseteq Cols
    /\ INDIRECT_INDEX_SECTOR_NUM \in Nat /\ INDIRECT_INDEX_SECTOR_NUM > 0
    /\ DIRECT_INDEX_NUM \in Nat /\ DIRECT_INDEX_NUM > 0
    /\ 0 \in Sectors /\ Sectors \subseteq Nat
BY SectorAssumption DEF Cols, Sectors

(* The allocation of the index block itself. *)
LEMMA RowBegun ==
    ASSUME NEW v, IsVolume(v), NEW e \in Sectors, NEW a, EntryDone(v, e, a)
    PROVE  Extended(v.used, Row(v, e), a.vol.used, Row(a.vol, a.entry))
<1>0. 0 \in v.used /\ DOMAIN Row(v, e) = Cols /\ DOMAIN Row(a.vol, a.entry) = Cols
  BY DEF IsVolume, Row
<1>1. CASE e # 0
  <2>1. a.vol = v /\ a.entry = e
    BY <1>1 DEF EntryDone
  <2> QED  BY <1>0, <2>1, ExtendedSame
<1>2. CASE e = 0
  <2>1. /\ a.entry \in Sectors /\ a.entry # 0 /\ a.entry \notin v.used
        /\ a.vol.used = v.used \cup {a.entry} /\ a.vol.disk[a.entry] = Zeros
    BY <1>2 DEF EntryDone
  <2>2. IndexAt(a.vol, a.entry) = NoBlocks(INDIRECT_INDEX_SECTOR_NUM)
    BY <2>1 DEF IndexAt, Zeros
  <2>3. \A b \in Cols : Row(v, e)[b] = 0
    BY <1>2 DEF Row, RowEntry
  <2>4. ASSUME NEW b \in Cols, b # 0 PROVE Row(a.vol, a.entry)[b] = 0
    <3>1. CASE b > INDIRECT_INDEX_SECTOR_NUM
      BY <2>4, <3>1 DEF Row, RowEntry
    <3>2. CASE ~(b > INDIRECT_INDEX_SECTOR_NUM)
      <4>1. b \in 1 .. INDIRECT_INDEX_SECTOR_NUM
        BY <2>4, <3>2, ColsAre
      <4>2. NoBlocks(INDIRECT_INDEX_SECTOR_NUM)[b] = 0
        BY <4>1 DEF NoBlocks
      <4> QED  BY <2>1, <2>2, <2>4, <3>2, <4>2 DEF Row, RowEntry
    <3> QED  BY <3>1, <3>2
  <2>5. Row(a.vol, a.entry)[0] = a.entry /\ 0 \in Cols
    BY ColsAre DEF Row, RowEntry
  <2> QED  BY <1>0, <2>1, <2>3, <2>4, <2>5, ExtendedOne
<1> QED  BY <1>1, <1>2

(* The entries below it. *)
LEMMA RowFilled ==
    ASSUME NEW u, IsVolume(u), NEW e \in Sectors, e # 0, NEW n \in 0 .. INDIRECT_INDEX_SECTOR_NUM,
           NEW b, EntriesDone(u, IndexAt(u, e), INDIRECT_INDEX_SECTOR_NUM, n, b),
           NEW w, w = cache_write(b.vol, e, Index(b.blocks))
    PROVE  /\ Written(b.vol, e, Index(b.blocks), w)
           /\ \A k \in Cols : RowEntry(w, e, k) = IF k \in 1 .. INDIRECT_INDEX_SECTOR_NUM
                                                  THEN b.blocks[k] ELSE RowEntry(u, e, k)
           /\ Extended(u.used, Row(u, e), w.used, Row(w, e))
<1> DEFINE I == INDIRECT_INDEX_SECTOR_NUM
<1>0. /\ IsVolume(b.vol) /\ b.blocks \in [1 .. I -> Sectors]
      /\ Extended(u.used, IndexAt(u, e), b.vol.used, b.blocks)
      /\ IndexAt(u, e) \in [1 .. I -> Sectors]
  BY DEF EntriesDone, IsVolume
<1>1. PICK c : c = Index(b.blocks)
  OBVIOUS
<1>2. c.kind = "index" /\ c.blocks = b.blocks
  BY <1>1 DEF Index
<1>3. Written(b.vol, e, c, w)
  BY <1>0, <1>1, <1>2, Writes
<1>4. IndexAt(w, e) = b.blocks /\ w.used = b.vol.used
  BY <1>2, <1>3 DEF Written, IndexAt
<1>5. ASSUME NEW k \in Cols
      PROVE  RowEntry(w, e, k) = IF k \in 1 .. I THEN b.blocks[k] ELSE RowEntry(u, e, k)
  <2>1. k \in Nat /\ I \in Nat
    BY ColsAre
  <2>2. CASE k = 0
    BY <2>1, <2>2 DEF RowEntry
  <2>3. CASE k > I
    BY <2>1, <2>3 DEF RowEntry
  <2>4. CASE k \in 1 .. I
    BY <1>4, <2>4, <2>1 DEF RowEntry
  <2> QED  BY <2>1, <2>2, <2>3, <2>4
<1>6. \A k \in 1 .. I : RowEntry(u, e, k) = IndexAt(u, e)[k]
  BY ColsAre DEF RowEntry
<1>7. Extended(u.used, Row(u, e), w.used, Row(w, e))
  <2> DEFINE j == [k \in 1 .. I |-> k]
             F == Row(u, e)
             G == Row(w, e)
  <2>1. DOMAIN F = Cols /\ DOMAIN G = Cols /\ 1 .. I \subseteq Cols
        /\ DOMAIN IndexAt(u, e) = 1 .. I
    BY <1>0, ColsAre DEF Row
  <2>2. \A k \in 1 .. I : j[k] = k /\ F[k] = IndexAt(u, e)[k] /\ G[k] = b.blocks[k]
    BY <1>5, <1>6, <2>1 DEF Row
  <2>3. \A k \in Cols : k \notin 1 .. I => G[k] = F[k]
    BY <1>5 DEF Row
  <2>f. PICK f : f = IndexAt(u, e)
    OBVIOUS
  <2> HIDE DEF j, F, G
  <2>4. /\ \A k \in DOMAIN f : j[k] \in DOMAIN F /\ F[j[k]] = f[k] /\ G[j[k]] = b.blocks[k]
        /\ \A k, l \in DOMAIN f : j[k] = j[l] => k = l
        /\ \A y \in DOMAIN F : G[y] = F[y] \/ \E k \in DOMAIN f : y = j[k]
        /\ DOMAIN G = DOMAIN F
        /\ Extended(u.used, f, b.vol.used, b.blocks)
    BY <1>0, <2>f, <2>1, <2>2, <2>3
  <2>5. Extended(u.used, F, b.vol.used, G)
    BY <2>4, ExtendedWhole
  <2> QED  BY <1>4, <2>5 DEF F, G
<1> QED  BY <1>1, <1>3, <1>5, <1>7

(* AllocateIndirect. *)
LEMMA IndirectAllocated ==
    ASSUME NEW v, IsVolume(v), NEW e \in v.used, NEW n \in 0 .. INDIRECT_INDEX_SECTOR_NUM,
           NEW r, r = AllocateIndirect(v, e, n), ~r.vol.full
    PROVE  IndirectDone(v, e, n, r)
<1>0. e \in Sectors /\ n \in Nat /\ 0 \in v.used
  BY DEF IsVolume
<1>1. CASE n = 0
  <2>1. r.vol = v /\ r.entry = e
    BY <1>1 DEF AllocateIndirect
  <2>2. Extended(v.used, Row(v, e), v.used, Row(v, e))
    BY <1>0, ExtendedSame
  <2> QED  BY <1>0, <1>1, <2>1, <2>2 DEF IndirectDone
<1>2. CASE n # 0
  <2>1. PICK a : a = AllocateEntry(v, e, n)
    OBVIOUS
  <2>2. PICK b : b = AllocateBlocks(a.vol, IndexAt(a.vol, a.entry), n, 1, AllocateEntry)
    OBVIOUS
  <2>3. PICK w : w = cache_write(b.vol, a.entry, Index(b.blocks))
    OBVIOUS
  <2>4. r.vol = w /\ r.entry = a.entry
    BY <1>2, <2>1, <2>2, <2>3 DEF AllocateIndirect, AllocateUnder, SaveIndex
  <2>5. w.full = b.vol.full
    BY <2>3 DEF cache_write, Volume
  <2>6. Grows(a.vol, b.vol)
    BY <1>0, <2>2, EntriesGrow
  <2>7. ~a.vol.full /\ ~b.vol.full
    BY <2>4, <2>5, <2>6 DEF Grows
  <2>8. EntryDone(v, e, a)
    BY <1>0, <2>1, <2>7, EntryAllocated
  <2>9. IsVolume(a.vol) /\ a.entry \in Sectors /\ a.entry # 0
    BY <2>8 DEF EntryDone
  <2>10. IndexAt(a.vol, a.entry) \in [1 .. INDIRECT_INDEX_SECTOR_NUM -> Sectors]
    BY <2>9 DEF IsVolume
  <2>11. EntriesDone(a.vol, IndexAt(a.vol, a.entry), INDIRECT_INDEX_SECTOR_NUM, n, b)
    BY <2>2, <2>7, <2>9, <2>10, EntriesAllocated, ColsAre
  <2>12. /\ Written(b.vol, a.entry, Index(b.blocks), w)
         /\ \A k \in Cols : RowEntry(w, a.entry, k) =
                               IF k \in 1 .. INDIRECT_INDEX_SECTOR_NUM
                               THEN b.blocks[k] ELSE RowEntry(a.vol, a.entry, k)
         /\ Extended(a.vol.used, Row(a.vol, a.entry), w.used, Row(w, a.entry))
    BY <2>3, <2>9, <2>11, RowFilled
  <2>13. Extended(v.used, Row(v, e), a.vol.used, Row(a.vol, a.entry))
    BY <1>0, <2>8, RowBegun
  <2>14. Extended(v.used, Row(v, e), w.used, Row(w, a.entry))
    BY <2>12, <2>13, ExtendedOn
  <2>15. ASSUME NEW k \in Cols
         PROVE  IF n > 0 /\ k <= n THEN RowEntry(w, a.entry, k) # 0
                ELSE RowEntry(w, a.entry, k) = RowEntry(v, e, k)
    <3>0. k \in Nat /\ n \in Nat /\ n > 0 /\ INDIRECT_INDEX_SECTOR_NUM \in Nat
      BY <1>2, ColsAre
    <3>1. CASE k = 0
      <4>1. RowEntry(w, a.entry, k) = a.entry
        BY <3>1 DEF RowEntry
      <4> QED  BY <2>9, <3>0, <3>1, <4>1
    <3>2. CASE k \in 1 .. n
      BY <2>11, <2>12, <3>0, <3>2 DEF EntriesDone
    <3>3. CASE k > n
      <4>1. RowEntry(w, a.entry, k) = RowEntry(a.vol, a.entry, k)
        <5>1. CASE k \in 1 .. INDIRECT_INDEX_SECTOR_NUM
          <6>1. b.blocks[k] = IndexAt(a.vol, a.entry)[k]
            BY <2>11, <3>3, <5>1 DEF EntriesDone
          <6>2. RowEntry(a.vol, a.entry, k) = IndexAt(a.vol, a.entry)[k]
            BY <2>9, <3>0, <5>1 DEF RowEntry
          <6> QED  BY <2>12, <5>1, <6>1, <6>2
        <5>2. CASE k \notin 1 .. INDIRECT_INDEX_SECTOR_NUM
          BY <2>12, <5>2
        <5> QED  BY <5>1, <5>2
      <4>2. RowEntry(a.vol, a.entry, k) = RowEntry(v, e, k)
        <5>1. CASE e # 0
          BY <2>8, <5>1 DEF EntryDone
        <5>2. CASE e = 0
          <6>1. a.vol.disk[a.entry] = Zeros
            BY <2>8, <5>2 DEF EntryDone
          <6>2. IndexAt(a.vol, a.entry) = NoBlocks(INDIRECT_INDEX_SECTOR_NUM)
            BY <6>1 DEF IndexAt, Zeros
          <6>3. k \in 1 .. INDIRECT_INDEX_SECTOR_NUM => NoBlocks(INDIRECT_INDEX_SECTOR_NUM)[k] = 0
            BY DEF NoBlocks
          <6> QED  BY <3>0, <3>3, <5>2, <6>2, <6>3 DEF RowEntry
        <5> QED  BY <5>1, <5>2
      <4> QED  BY <3>0, <3>3, <4>1, <4>2
    <3> QED  BY <3>0, <3>1, <3>2, <3>3
  <2>16. ASSUME NEW s \in v.used, s # e \/ e = 0 PROVE w.disk[s] = v.disk[s]
    <3>0. s \in Sectors
      BY DEF IsVolume
    <3>1. s \in a.vol.used /\ s # a.entry /\ a.vol.disk[s] = v.disk[s]
      BY <2>8, <2>16, <3>0 DEF EntryDone
    <3>2. b.vol.disk[s] = a.vol.disk[s]
      BY <2>11, <3>1 DEF EntriesDone
    <3> QED  BY <2>12, <3>0, <3>1, <3>2 DEF Written
  <2>17. IsVolume(w)
    BY <2>12 DEF Written
  <2> QED  BY <2>4, <2>9, <2>14, <2>15, <2>16, <2>17 DEF IndirectDone
<1> QED  BY <1>1, <1>2

-----------------------------------------------------------------------------
(* Level 2.                                                                *)

(* The rows of a block of index blocks. *)
Table(v, blocks) ==
    [x \in (1 .. INDIRECT_INDEX_SECTOR_NUM) \X Cols |-> RowEntry(v, blocks[x[1]], x[2])]

(* The first i rows have what n sectors need, everything else is as it was *)
(* and no marked sector but those of the rows is written.                  *)
TableDone(v, blocks, n, i, r) ==
    /\ IsVolume(r.vol) /\ r.blocks \in [1 .. INDIRECT_INDEX_SECTOR_NUM -> Sectors]
    /\ Extended(v.used, Table(v, blocks), r.vol.used, Table(r.vol, r.blocks))
    /\ \A a \in 1 .. INDIRECT_INDEX_SECTOR_NUM, b \in Cols :
          IF a <= i /\ b <= Under(n, a) THEN RowEntry(r.vol, r.blocks[a], b) # 0
          ELSE RowEntry(r.vol, r.blocks[a], b) = RowEntry(v, blocks[a], b)
    /\ \A s \in v.used :
          (\A a \in 1 .. INDIRECT_INDEX_SECTOR_NUM : s # blocks[a] \/ blocks[a] = 0)
             => r.vol.disk[s] = v.disk[s]

(* The entries of a table. *)
LEMMA TableAt ==
    ASSUME NEW v, NEW blocks
    PROVE  /\ DOMAIN Table(v, blocks) = (1 .. INDIRECT_INDEX_SECTOR_NUM) \X Cols
           /\ \A a \in 1 .. INDIRECT_INDEX_SECTOR_NUM, b \in Cols :
                 /\ <<a, b>> \in DOMAIN Table(v, blocks)
                 /\ Table(v, blocks)[<<a, b>>] = RowEntry(v, blocks[a], b)
           /\ \A a \in 1 .. INDIRECT_INDEX_SECTOR_NUM :
                 /\ <<a, 0>> \in DOMAIN Table(v, blocks)
                 /\ Table(v, blocks)[<<a, 0>>] = blocks[a]
<1>1. \A a \in 1 .. INDIRECT_INDEX_SECTOR_NUM, b \in Cols :
                 /\ <<a, b>> \in DOMAIN Table(v, blocks)
                 /\ Table(v, blocks)[<<a, b>>] = RowEntry(v, blocks[a], b)
  BY DEF Table
<1>2. \A e : RowEntry(v, e, 0) = e
  BY DEF RowEntry
<1>3. 0 \in Cols
  BY ColsAre
<1>4. DOMAIN Table(v, blocks) = (1 .. INDIRECT_INDEX_SECTOR_NUM) \X Cols
  BY DEF Table
<1> QED  BY <1>1, <1>2, <1>3, <1>4

(* The rows of a proper table have marked sectors of their own. *)
LEMMA TableProper ==
    ASSUME NEW v, NEW blocks, 0 \in v.used, Proper(v.used, Table(v, blocks))
    PROVE  \A a, c \in 1 .. INDIRECT_INDEX_SECTOR_NUM :
              /\ blocks[a] \in v.used
              /\ a # c => blocks[a] # blocks[c] \/ blocks[c] = 0
<1> SUFFICES ASSUME NEW a \in 1 .. INDIRECT_INDEX_SECTOR_NUM, NEW c \in 1 .. INDIRECT_INDEX_SECTOR_NUM
             PROVE  /\ blocks[a] \in v.used
                    /\ a # c => blocks[a] # blocks[c] \/ blocks[c] = 0
  OBVIOUS
<1>1. PICK f : f = Table(v, blocks)
  OBVIOUS
<1>2. /\ <<a, 0>> \in DOMAIN f /\ f[<<a, 0>>] = blocks[a]
      /\ <<c, 0>> \in DOMAIN f /\ f[<<c, 0>>] = blocks[c]
  BY <1>1, TableAt
<1>3. <<a, 0>> = <<c, 0>> => a = c
  OBVIOUS
<1> QED  BY <1>1, <1>2, <1>3 DEF Proper

(* A sector that holds the same has the same row. *)
LEMMA SameRow ==
    ASSUME NEW v, NEW w, NEW e, e # 0 => w.disk[e] = v.disk[e]
    PROVE  \A b : RowEntry(w, e, b) = RowEntry(v, e, b)
<1>1. CASE e = 0
  BY <1>1 DEF RowEntry
<1>2. CASE e # 0
  <2>1. IndexAt(w, e) = IndexAt(v, e)
    BY <1>2 DEF IndexAt
  <2> QED  BY <2>1 DEF RowEntry
<1> QED  BY <1>1, <1>2

(* One turn of the loop. *)
LEMMA TableTurn ==
    ASSUME NEW v, IsVolume(v), NEW blocks, Proper(v.used, Table(v, blocks)),
           NEW n \in Nat, NEW i \in Nat, i + 1 <= INDIRECT_INDEX_SECTOR_NUM,
           Under(n, i + 1) \in 1 .. INDIRECT_INDEX_SECTOR_NUM,
           NEW acc, TableDone(v, blocks, n, i, acc),
           NEW r, r = AllocateIndirect(acc.vol, acc.blocks[i + 1], Under(n, i + 1)), ~r.vol.full,
           NEW next, next = Filled(acc.blocks, i + 1, r)
    PROVE  TableDone(v, blocks, n, i + 1, next)
<1> DEFINE I == INDIRECT_INDEX_SECTOR_NUM
           e == acc.blocks[i + 1]
           m == Under(n, i + 1)
<1>1. /\ IsVolume(acc.vol) /\ acc.blocks \in [1 .. I -> Sectors] /\ i + 1 \in 1 .. I
      /\ Extended(v.used, Table(v, blocks), acc.vol.used, Table(acc.vol, acc.blocks))
      /\ I \in Nat
  BY ColsAre DEF TableDone
<1>2. Proper(acc.vol.used, Table(acc.vol, acc.blocks)) /\ 0 \in acc.vol.used
  BY <1>1, ExtendedProper DEF IsVolume
<1>3. /\ \A a \in 1 .. I : acc.blocks[a] \in acc.vol.used
      /\ \A a, c \in 1 .. I : a # c => acc.blocks[a] # acc.blocks[c] \/ acc.blocks[c] = 0
  BY <1>2, TableProper
<1>4. e \in acc.vol.used
  BY <1>1, <1>3
<1>5. IndirectDone(acc.vol, e, m, r)
  BY <1>1, <1>4, IndirectAllocated
<1>6. /\ IsVolume(r.vol) /\ r.entry \in Sectors
      /\ Extended(acc.vol.used, Row(acc.vol, e), r.vol.used, Row(r.vol, r.entry))
      /\ \A b \in Cols : IF m > 0 /\ b <= m THEN RowEntry(r.vol, r.entry, b) # 0
                         ELSE RowEntry(r.vol, r.entry, b) = RowEntry(acc.vol, e, b)
      /\ \A s \in acc.vol.used : s # e \/ e = 0 => r.vol.disk[s] = acc.vol.disk[s]
  BY <1>5 DEF IndirectDone
<1>7. /\ next.vol = r.vol
      /\ next.blocks = [j \in DOMAIN acc.blocks |-> IF j = i + 1 THEN r.entry ELSE acc.blocks[j]]
  BY DEF Filled
<1>8. /\ next.blocks \in [1 .. I -> Sectors] /\ next.blocks[i + 1] = r.entry
      /\ \A a \in 1 .. I : a # i + 1 => next.blocks[a] = acc.blocks[a]
  <2>1. DOMAIN acc.blocks = 1 .. I /\ \A a \in 1 .. I : acc.blocks[a] \in Sectors
    BY <1>1
  <2>2. r.entry \in Sectors /\ i + 1 \in 1 .. I
    BY <1>1, <1>6
  <2>3. \A a \in 1 .. I : (IF a = i + 1 THEN r.entry ELSE acc.blocks[a]) \in Sectors
    BY <2>1, <2>2
  <2> QED  BY <1>7, <2>1, <2>2, <2>3
<1> HIDE DEF e, m
<1>9. ASSUME NEW a \in 1 .. I, a # i + 1
      PROVE  \A b : RowEntry(next.vol, next.blocks[a], b) = RowEntry(acc.vol, acc.blocks[a], b)
  <2>1. acc.blocks[a] \in acc.vol.used /\ (acc.blocks[a] # e \/ e = 0)
    BY <1>1, <1>3, <1>9 DEF e
  <2>2. acc.blocks[a] # 0 => next.vol.disk[acc.blocks[a]] = acc.vol.disk[acc.blocks[a]]
    BY <1>6, <1>7, <2>1
  <2>3. \A b : RowEntry(next.vol, acc.blocks[a], b) = RowEntry(acc.vol, acc.blocks[a], b)
    <3>1. PICK d, w, u : d = acc.blocks[a] /\ w = next.vol /\ u = acc.vol
      OBVIOUS
    <3>2. \A b : RowEntry(w, d, b) = RowEntry(u, d, b)
      BY <2>2, <3>1, SameRow
    <3> QED  BY <3>1, <3>2
  <2> QED  BY <1>8, <1>9, <2>3
<1>10. Extended(acc.vol.used, Table(acc.vol, acc.blocks), next.vol.used, Table(next.vol, next.blocks))
  <2>1. PICK f : f = Row(acc.vol, e)
    OBVIOUS
  <2>2. PICK g : g = Row(r.vol, r.entry)
    OBVIOUS
  <2>3. PICK F : F = Table(acc.vol, acc.blocks)
    OBVIOUS
  <2>4. PICK G : G = Table(next.vol, next.blocks)
    OBVIOUS
  <2>5. PICK j : j = [b \in Cols |-> <<i + 1, b>>]
    OBVIOUS
  <2>6. /\ DOMAIN f = Cols /\ \A b \in Cols : f[b] = RowEntry(acc.vol, e, b)
        /\ \A b \in Cols : g[b] = RowEntry(r.vol, r.entry, b)
    BY <2>1, <2>2 DEF Row
  <2>7. /\ DOMAIN F = (1 .. I) \X Cols
        /\ \A a \in 1 .. I, b \in Cols : F[<<a, b>>] = RowEntry(acc.vol, acc.blocks[a], b)
    BY <2>3 DEF Table
  <2>8. /\ DOMAIN G = (1 .. I) \X Cols
        /\ \A a \in 1 .. I, b \in Cols : G[<<a, b>>] = RowEntry(next.vol, next.blocks[a], b)
    BY <2>4 DEF Table
  <2>9. \A b \in Cols : j[b] = <<i + 1, b>> /\ <<i + 1, b>> \in (1 .. I) \X Cols
    BY <1>1, <2>5
  <2>10. \A k \in DOMAIN f : j[k] \in DOMAIN F /\ F[j[k]] = f[k] /\ G[j[k]] = g[k]
    <3> TAKE k \in DOMAIN f
    <3>1. k \in Cols /\ j[k] = <<i + 1, k>> /\ j[k] \in DOMAIN F /\ i + 1 \in 1 .. I
      BY <1>1, <2>6, <2>7, <2>9
    <3>2. F[<<i + 1, k>>] = RowEntry(acc.vol, e, k)
      BY <2>7, <3>1 DEF e
    <3>3. G[<<i + 1, k>>] = RowEntry(r.vol, r.entry, k)
      BY <1>7, <1>8, <2>8, <3>1
    <3> QED  BY <2>6, <3>1, <3>2, <3>3
  <2>11. \A k, l \in DOMAIN f : j[k] = j[l] => k = l
    <3> TAKE k, l \in DOMAIN f
    <3>1. j[k] = <<i + 1, k>> /\ j[l] = <<i + 1, l>>
      BY <2>6, <2>9
    <3> QED  BY <3>1
  <2>12. \A y \in DOMAIN F : G[y] = F[y] \/ \E k \in DOMAIN f : y = j[k]
    <3> TAKE y \in DOMAIN F
    <3>1. PICK a \in 1 .. I, b \in Cols : y = <<a, b>>
      BY <2>7
    <3>2. CASE a = i + 1
      BY <2>6, <2>9, <3>1, <3>2
    <3>3. CASE a # i + 1
      BY <1>9, <2>7, <2>8, <3>1, <3>3
    <3> QED  BY <3>2, <3>3
  <2>13. Extended(acc.vol.used, f, r.vol.used, g) /\ DOMAIN G = DOMAIN F
    BY <1>6, <2>1, <2>2, <2>7, <2>8
  <2>14. Extended(acc.vol.used, F, r.vol.used, G)
    BY <2>10, <2>11, <2>12, <2>13, ExtendedWhole
  <2> QED  BY <1>7, <2>3, <2>4, <2>14
<1>11. Extended(v.used, Table(v, blocks), next.vol.used, Table(next.vol, next.blocks))
  BY <1>1, <1>10, ExtendedOn
<1>12. ASSUME NEW a \in 1 .. I, NEW b \in Cols
       PROVE  IF a <= i + 1 /\ b <= Under(n, a) THEN RowEntry(next.vol, next.blocks[a], b) # 0
              ELSE RowEntry(next.vol, next.blocks[a], b) = RowEntry(v, blocks[a], b)
  <2>0. IF a <= i /\ b <= Under(n, a) THEN RowEntry(acc.vol, acc.blocks[a], b) # 0
        ELSE RowEntry(acc.vol, acc.blocks[a], b) = RowEntry(v, blocks[a], b)
    BY DEF TableDone
  <2>1. CASE a # i + 1
    <3>1. a <= i + 1 <=> a <= i
      BY <1>1, <2>1
    <3> QED  BY <1>9, <2>0, <2>1, <3>1
  <2>2. CASE a = i + 1
    <3>1. ~(a <= i) /\ a <= i + 1 /\ m > 0 /\ m = Under(n, a)
      BY <1>1, <2>2 DEF m
    <3>2. RowEntry(acc.vol, e, b) = RowEntry(v, blocks[a], b)
      BY <2>0, <2>2, <3>1 DEF e
    <3> QED  BY <1>6, <1>7, <1>8, <2>2, <3>1, <3>2
  <2> QED  BY <2>1, <2>2
<1>13. ASSUME NEW s \in v.used, \A a \in 1 .. I : s # blocks[a] \/ blocks[a] = 0
       PROVE  next.vol.disk[s] = v.disk[s]
  <2>1. acc.vol.disk[s] = v.disk[s] /\ s \in acc.vol.used
    BY <1>1, <1>13 DEF TableDone, Extended
  <2>2. s # e \/ e = 0
    <3>1. RowEntry(acc.vol, e, 0) = RowEntry(v, blocks[i + 1], 0)
      <4>1. i + 1 \in 1 .. I /\ 0 \in Cols /\ ~(i + 1 <= i)
        BY <1>1, ColsAre
      <4> QED  BY <4>1 DEF TableDone, e
    <3>2. e = blocks[i + 1]
      BY <3>1 DEF RowEntry
    <3> QED  BY <1>1, <1>13, <3>2
  <2> QED  BY <1>6, <1>7, <2>1, <2>2
<1> QED  BY <1>6, <1>7, <1>8, <1>11, <1>12, <1>13 DEF TableDone

(* How n sectors divide over the rows. *)
LEMMA UnderTurns ==
    ASSUME NEW n \in 0 .. DoublyNum, NEW m, m = bytes_to_sectors(n, INDIRECT_INDEX_SECTOR_NUM)
    PROVE  /\ m \in 0 .. INDIRECT_INDEX_SECTOR_NUM
           /\ \A i \in 1 .. m : Under(n, i) \in 1 .. INDIRECT_INDEX_SECTOR_NUM
           /\ n > 0 => m > 0
<1>1. PICK I : I = INDIRECT_INDEX_SECTOR_NUM
  OBVIOUS
<1>2. I \in Nat \ {0} /\ DoublyNum = I * I /\ I * I \in Nat
  BY <1>1, SectorAssumption DEF DoublyNum
<1>3. n \in Nat /\ n <= I * I
  BY <1>2
<1>4. m \in Nat /\ n <= m * I /\ m * I < n + I
  BY <1>1, <1>2, <1>3, RoundUp
<1>5. m <= I
  <2> SUFFICES ASSUME m >= I + 1 PROVE FALSE
    BY <1>2, <1>4
  <2>1. m * I >= (I + 1) * I /\ (I + 1) * I = I * I + I
    BY <1>2, <1>4
  <2> QED  BY <1>2, <1>3, <1>4, <2>1
<1>6. ASSUME NEW i \in 1 .. m PROVE Under(n, i) \in 1 .. I
  <2>1. i * I <= m * I /\ (i - 1) * I = i * I - I /\ i * I \in Int /\ m * I \in Int
    BY <1>2, <1>4
  <2>2. n - (i - 1) * I > 0 /\ n - (i - 1) * I \in Int
    BY <1>2, <1>3, <1>4, <2>1
  <2>3. PICK k : k = n - (i - 1) * I
    OBVIOUS
  <2>4. Under(n, i) = Lesser(I, k)
    BY <1>1, <2>3 DEF Under
  <2> QED  BY <1>2, <2>2, <2>3, <2>4 DEF Lesser
<1> QED  BY <1>1, <1>2, <1>3, <1>4, <1>5, <1>6

(* The loop. *)
LEMMA TableAllocated ==
    ASSUME NEW v, IsVolume(v), NEW blocks \in [1 .. INDIRECT_INDEX_SECTOR_NUM -> Sectors],
           Proper(v.used, Table(v, blocks)), NEW n \in 0 .. DoublyNum,
           NEW r, r = AllocateBlocks(v, blocks, n, INDIRECT_INDEX_SECTOR_NUM, AllocateIndirect),
           ~r.vol.full
    PROVE  TableDone(v, blocks, n, bytes_to_sectors(n, INDIRECT_INDEX_SECTOR_NUM), r)
<1> DEFINE I == INDIRECT_INDEX_SECTOR_NUM
<1>m. PICK m : m = bytes_to_sectors(n, I)
  OBVIOUS
<1>0. n \in Nat /\ m \in 0 .. I /\ I \in Nat /\ \A i \in 1 .. m : Under(n, i) \in 1 .. I
  BY <1>m, UnderTurns, ColsAre, Parts
<1>1. PICK f : /\ f[0] = [vol |-> v, blocks |-> blocks]
               /\ \A i \in 1 .. m : f[i] = AllocateTurn(f[i - 1], i, n, I, AllocateIndirect)
               /\ AllocateBlocks(v, blocks, n, I, AllocateIndirect) = f[m]
  BY <1>0, <1>m, IndirectLoop
<1> DEFINE turn(i) == AllocateIndirect(f[i - 1].vol, f[i - 1].blocks[i], Under(n, i))
<1>2. \A i \in 1 .. m : f[i] = Filled(f[i - 1].blocks, i, turn(i))
  <2> TAKE i \in 1 .. m
  <2>1. f[i] = AllocateTurn(f[i - 1], i, n, I, AllocateIndirect)
    BY <1>1
  <2> QED  BY <2>1 DEF AllocateTurn, Under
<1>3. \A i \in 1 .. m : f[i].vol = turn(i).vol
  <2> TAKE i \in 1 .. m
  <2>1. PICK t : t = turn(i)
    OBVIOUS
  <2>2. f[i] = Filled(f[i - 1].blocks, i, t)
    BY <1>2, <2>1
  <2>3. f[i].vol = t.vol
    BY <2>2 DEF Filled
  <2> QED  BY <2>1, <2>3
<1>4. \A i \in 1 .. m : Grows(f[i - 1].vol, f[i].vol)
  <2> TAKE i \in 1 .. m
  <2>1. Under(n, i) \in Nat
    BY <1>0
  <2> QED  BY <1>3, <2>1, IndirectGrows
<1>5. \A i \in 1 .. m : ~turn(i).vol.full
  <2> TAKE i \in 1 .. m
  <2>0. m \in Nat /\ i \in 0 .. m
    BY <1>0
  <2>1. Grows(f[i].vol, f[m].vol)
    BY <1>4, <2>0, GrowsAlong
  <2> QED  BY <1>1, <1>3, <2>1 DEF Grows
<1> DEFINE S == { i \in Nat : i <= m => TableDone(v, blocks, n, i, f[i]) }
<1>6. 0 \in S
  <2>1. f[0].vol = v /\ f[0].blocks = blocks /\ 0 \in v.used
    BY <1>1 DEF IsVolume
  <2>2. Extended(v.used, Table(v, blocks), v.used, Table(v, blocks))
    BY <2>1, ExtendedSame
  <2>3. \A a \in 1 .. I : ~(a <= 0)
    BY <1>0
  <2>4. TableDone(v, blocks, n, 0, f[0])
    BY <2>1, <2>2, <2>3 DEF TableDone
  <2> QED  BY <2>4
<1>7. ASSUME NEW i \in Nat, i \in S PROVE i + 1 \in S
  <2> SUFFICES ASSUME i + 1 <= m PROVE TableDone(v, blocks, n, i + 1, f[i + 1])
    OBVIOUS
  <2>1. /\ TableDone(v, blocks, n, i, f[i]) /\ i + 1 \in 1 .. m /\ (i + 1) - 1 = i /\ i + 1 <= I
        /\ Under(n, i + 1) \in 1 .. I
    BY <1>0, <1>7
  <2>2. /\ f[i + 1] = Filled(f[i].blocks, i + 1, turn(i + 1)) /\ ~turn(i + 1).vol.full
        /\ turn(i + 1) = AllocateIndirect(f[i].vol, f[i].blocks[i + 1], Under(n, i + 1))
    BY <1>2, <1>5, <2>1
  <2> HIDE DEF turn
  <2> QED  BY <1>0, <2>1, <2>2, TableTurn
<1>8. Nat \subseteq S
  BY <1>6, <1>7, SetInduction
<1> QED  BY <1>0, <1>1, <1>8, <1>m

(* The entry for the index blocks, at <<0, 0>>, and their rows. *)
Child(v, e, a) == IF e = 0 THEN 0 ELSE IndexAt(v, e)[a]
DeepEntry(v, e, a, b) ==
    IF a = 0 THEN (IF b = 0 THEN e ELSE 0) ELSE RowEntry(v, Child(v, e, a), b)
Deep(v, e) ==
    [x \in (0 .. INDIRECT_INDEX_SECTOR_NUM) \X Cols |-> DeepEntry(v, e, x[1], x[2])]

(* Those that n sectors need have sectors, the others are as they were, and *)
(* of the sectors that were marked only those of index blocks are written.  *)
DoublyDone(v, e, n, r) ==
    /\ IsVolume(r.vol) /\ r.entry \in Sectors
    /\ Extended(v.used, Deep(v, e), r.vol.used, Deep(r.vol, r.entry))
    /\ \A a \in 0 .. INDIRECT_INDEX_SECTOR_NUM, b \in Cols :
          IF NeedsDeep(n, a, b) THEN DeepEntry(r.vol, r.entry, a, b) # 0
          ELSE DeepEntry(r.vol, r.entry, a, b) = DeepEntry(v, e, a, b)
    /\ \A s \in v.used :
          (\A a \in 0 .. INDIRECT_INDEX_SECTOR_NUM :
              s # DeepEntry(v, e, a, 0) \/ DeepEntry(v, e, a, 0) = 0)
             => r.vol.disk[s] = v.disk[s]

(* The entries of Deep. *)
LEMMA DeepAt ==
    ASSUME NEW v, NEW e
    PROVE  /\ DOMAIN Deep(v, e) = (0 .. INDIRECT_INDEX_SECTOR_NUM) \X Cols
           /\ \A a \in 0 .. INDIRECT_INDEX_SECTOR_NUM, b \in Cols :
                 /\ <<a, b>> \in DOMAIN Deep(v, e)
                 /\ Deep(v, e)[<<a, b>>] = DeepEntry(v, e, a, b)
BY DEF Deep

(* The rows of an index block are those of its table. *)
LEMMA DeepRows ==
    ASSUME NEW v, NEW e, e # 0, NEW a, a # 0, NEW b
    PROVE  DeepEntry(v, e, a, b) = RowEntry(v, IndexAt(v, e)[a], b)
BY DEF DeepEntry, Child

(* The allocation of the block itself. *)
LEMMA DeepBegun ==
    ASSUME NEW v, IsVolume(v), NEW e \in Sectors, NEW r, EntryDone(v, e, r)
    PROVE  /\ Extended(v.used, Deep(v, e), r.vol.used, Deep(r.vol, r.entry))
           /\ \A a \in 0 .. INDIRECT_INDEX_SECTOR_NUM, b \in Cols :
                 a # 0 \/ b # 0 => DeepEntry(r.vol, r.entry, a, b) = DeepEntry(v, e, a, b)
<1>1. CASE e # 0
  <2>1. r.vol = v /\ r.entry = e /\ 0 \in v.used
    BY <1>1 DEF EntryDone, IsVolume
  <2> QED  BY <2>1, ExtendedSame
<1>2. CASE e = 0
  <2>1. /\ r.entry \in Sectors /\ r.entry # 0 /\ r.entry \notin v.used /\ 0 \in v.used
        /\ r.vol.used = v.used \cup {r.entry} /\ r.vol.disk[r.entry] = Zeros
    BY <1>2 DEF EntryDone, IsVolume
  <2>2. IndexAt(r.vol, r.entry) = NoBlocks(INDIRECT_INDEX_SECTOR_NUM)
    BY <2>1 DEF IndexAt, Zeros
  <2>3. \A a \in 1 .. INDIRECT_INDEX_SECTOR_NUM : Child(r.vol, r.entry, a) = 0
    BY <2>1, <2>2 DEF Child, NoBlocks
  <2>4. \A u, b : RowEntry(u, 0, b) = 0
    BY DEF RowEntry
  <2>5. \A a, b : DeepEntry(v, e, a, b) = 0
    BY <1>2, <2>4 DEF DeepEntry, Child
  <2>6. ASSUME NEW a \in 0 .. INDIRECT_INDEX_SECTOR_NUM, NEW b \in Cols, a # 0 \/ b # 0
        PROVE  DeepEntry(r.vol, r.entry, a, b) = 0
    <3>1. CASE a = 0
      BY <2>6, <3>1 DEF DeepEntry
    <3>2. CASE a # 0
      <4>1. a \in 1 .. INDIRECT_INDEX_SECTOR_NUM
        BY <3>2, ColsAre
      <4> QED  BY <2>3, <2>4, <3>2, <4>1 DEF DeepEntry
    <3> QED  BY <3>1, <3>2
  <2>7. DeepEntry(r.vol, r.entry, 0, 0) = r.entry
    BY DEF DeepEntry
  <2>8. PICK f, g, k : f = Deep(v, e) /\ g = Deep(r.vol, r.entry) /\ k = <<0, 0>>
    OBVIOUS
  <2>9. DOMAIN f = (0 .. INDIRECT_INDEX_SECTOR_NUM) \X Cols /\ DOMAIN g = DOMAIN f
    BY <2>8 DEF Deep
  <2>10. k \in DOMAIN f /\ f[k] = 0 /\ g[k] = r.entry
    <3>1. 0 \in 0 .. INDIRECT_INDEX_SECTOR_NUM /\ 0 \in Cols
      BY ColsAre
    <3> QED  BY <2>5, <2>7, <2>8, <2>9, <3>1, DeepAt
  <2>11. \A l \in DOMAIN f : l # k => g[l] = f[l]
    <3> SUFFICES ASSUME NEW l \in DOMAIN f, l # k PROVE g[l] = f[l]
      OBVIOUS
    <3>1. PICK a \in 0 .. INDIRECT_INDEX_SECTOR_NUM, b \in Cols : l = <<a, b>>
      BY <2>9
    <3>2. a # 0 \/ b # 0
      BY <2>8, <3>1
    <3>3. f[l] = DeepEntry(v, e, a, b) /\ g[l] = DeepEntry(r.vol, r.entry, a, b)
      BY <2>8, <3>1, DeepAt
    <3> QED  BY <2>5, <2>6, <3>2, <3>3
  <2>12. Extended(v.used, f, v.used \cup {r.entry}, g)
    BY <2>1, <2>9, <2>10, <2>11, ExtendedOne
  <2> QED  BY <2>1, <2>5, <2>6, <2>8, <2>12
<1> QED  BY <1>1, <1>2

(* A proper part of entries: the table below an index block, given the block *)
(* and its table, is proper and without the block itself.                    *)
LEMMA DeepTable ==
    ASSUME NEW u, IsVolume(u), NEW e \in Sectors, e # 0, Proper(u.used, Deep(u, e))
    PROVE  /\ Proper(u.used, Table(u, IndexAt(u, e)))
           /\ e \in u.used
           /\ \A x \in (1 .. INDIRECT_INDEX_SECTOR_NUM) \X Cols : Table(u, IndexAt(u, e))[x] # e
<1> DEFINE I == INDIRECT_INDEX_SECTOR_NUM
<1>1. PICK f, g : f = Deep(u, e) /\ g = Table(u, IndexAt(u, e))
  OBVIOUS
<1>2. DOMAIN f = (0 .. I) \X Cols /\ DOMAIN g = (1 .. I) \X Cols /\ I \in Nat /\ 0 \in Cols
  BY <1>1, ColsAre DEF Deep, Table
<1>3. ASSUME NEW x \in DOMAIN g PROVE x \in DOMAIN f /\ x # <<0, 0>> /\ g[x] = f[x]
  <2>1. PICK a \in 1 .. I, b \in Cols : x = <<a, b>>
    BY <1>2
  <2>2. a \in 0 .. I /\ a # 0
    BY <1>2
  <2>3. f[x] = DeepEntry(u, e, a, b)
    BY <1>1, <2>1, <2>2, DeepAt
  <2>4. g[x] = RowEntry(u, IndexAt(u, e)[a], b)
    BY <1>1, <2>1 DEF Table
  <2>5. f[x] = g[x]
    BY <2>2, <2>3, <2>4, DeepRows
  <2> QED  BY <1>2, <2>1, <2>2, <2>5
<1>4. <<0, 0>> \in DOMAIN f /\ f[<<0, 0>>] = e
  <2>1. 0 \in 0 .. I /\ 0 \in Cols
    BY <1>2
  <2>2. f[<<0, 0>>] = DeepEntry(u, e, 0, 0)
    BY <1>1, <2>1, DeepAt
  <2> QED  BY <1>2, <2>1, <2>2 DEF DeepEntry
<1>5. Proper(u.used, f)
  BY <1>1
<1>6. Proper(u.used, g)
  BY <1>3, <1>5 DEF Proper
<1>7. e \in u.used /\ \A x \in DOMAIN g : g[x] # e
  BY <1>3, <1>4, <1>5 DEF Proper
<1> QED  BY <1>1, <1>2, <1>6, <1>7

(* The table below the block. *)
LEMMA DeepFilled ==
    ASSUME NEW u, IsVolume(u), NEW e \in Sectors, e # 0, Proper(u.used, Deep(u, e)),
           NEW n, NEW m, NEW r, TableDone(u, IndexAt(u, e), n, m, r),
           NEW w, w = cache_write(r.vol, e, Index(r.blocks))
    PROVE  /\ Written(r.vol, e, Index(r.blocks), w)
           /\ \A a \in 1 .. INDIRECT_INDEX_SECTOR_NUM, b \in Cols :
                 DeepEntry(w, e, a, b) = RowEntry(r.vol, r.blocks[a], b)
           /\ Extended(u.used, Deep(u, e), w.used, Deep(w, e))
<1> DEFINE I == INDIRECT_INDEX_SECTOR_NUM
<1>0. /\ IsVolume(r.vol) /\ r.blocks \in [1 .. I -> Sectors]
      /\ Extended(u.used, Table(u, IndexAt(u, e)), r.vol.used, Table(r.vol, r.blocks))
      /\ I \in Nat
  BY ColsAre DEF TableDone
<1>1. PICK c : c = Index(r.blocks)
  OBVIOUS
<1>2. c.kind = "index" /\ c.blocks = r.blocks
  BY <1>1 DEF Index
<1>3. Written(r.vol, e, c, w)
  BY <1>0, <1>1, <1>2, Writes
<1>4. IndexAt(w, e) = r.blocks /\ w.used = r.vol.used
  BY <1>2, <1>3 DEF Written, IndexAt
<1>5. PICK f, g : f = Table(u, IndexAt(u, e)) /\ g = Table(r.vol, r.blocks)
  OBVIOUS
<1>6. /\ Extended(u.used, f, r.vol.used, g) /\ e \in u.used
      /\ DOMAIN f = (1 .. I) \X Cols
      /\ \A x \in DOMAIN f : f[x] # e
  <2>1. DOMAIN f = (1 .. I) \X Cols
    BY <1>5 DEF Table
  <2> QED  BY <1>0, <1>5, <2>1, DeepTable
<1>7. \A x \in DOMAIN f : g[x] # e
  BY <1>6 DEF Extended
<1>8. ASSUME NEW a \in 1 .. I PROVE r.blocks[a] # e
  <2>1. <<a, 0>> \in DOMAIN f /\ g[<<a, 0>>] = r.blocks[a]
    BY <1>5, TableAt
  <2> QED  BY <1>7, <2>1
<1>9. ASSUME NEW a \in 1 .. I, NEW b \in Cols
      PROVE  DeepEntry(w, e, a, b) = RowEntry(r.vol, r.blocks[a], b)
  <2>1. a # 0
    BY <1>0
  <2>2. DeepEntry(w, e, a, b) = RowEntry(w, r.blocks[a], b)
    BY <1>4, <2>1, DeepRows
  <2>3. PICK d : d = r.blocks[a]
    OBVIOUS
  <2>4. d \in Sectors /\ d # e
    BY <1>0, <1>8, <2>3
  <2>5. w.disk[d] = r.vol.disk[d]
    BY <1>3, <2>4 DEF Written
  <2>6. \A k : RowEntry(w, d, k) = RowEntry(r.vol, d, k)
    BY <2>5, SameRow
  <2> QED  BY <2>2, <2>3, <2>6
<1>10. Extended(u.used, Deep(u, e), w.used, Deep(w, e))
  <2>1. PICK F, G, j : F = Deep(u, e) /\ G = Deep(w, e) /\ j = [x \in DOMAIN f |-> x]
    OBVIOUS
  <2>2. DOMAIN F = (0 .. I) \X Cols /\ DOMAIN G = DOMAIN F
    BY <2>1 DEF Deep
  <2>3. \A k \in DOMAIN f : j[k] \in DOMAIN F /\ F[j[k]] = f[k] /\ G[j[k]] = g[k]
    <3> TAKE k \in DOMAIN f
    <3>1. PICK a \in 1 .. I, b \in Cols : k = <<a, b>>
      BY <1>6
    <3>2. j[k] = k /\ a \in 0 .. I /\ a # 0 /\ k \in DOMAIN F
      BY <1>0, <2>1, <2>2, <3>1
    <3>3. F[k] = DeepEntry(u, e, a, b) /\ G[k] = DeepEntry(w, e, a, b)
      BY <2>1, <3>1, <3>2, DeepAt
    <3>4. f[k] = RowEntry(u, IndexAt(u, e)[a], b) /\ g[k] = RowEntry(r.vol, r.blocks[a], b)
      BY <1>5, <3>1 DEF Table
    <3>5. DeepEntry(u, e, a, b) = RowEntry(u, IndexAt(u, e)[a], b)
      BY <3>2, DeepRows
    <3> QED  BY <1>9, <3>2, <3>3, <3>4, <3>5
  <2>4. \A k, l \in DOMAIN f : j[k] = j[l] => k = l
    BY <2>1
  <2>5. \A y \in DOMAIN F : G[y] = F[y] \/ \E k \in DOMAIN f : y = j[k]
    <3> TAKE y \in DOMAIN F
    <3>1. PICK a \in 0 .. I, b \in Cols : y = <<a, b>>
      BY <2>2
    <3>2. F[y] = DeepEntry(u, e, a, b) /\ G[y] = DeepEntry(w, e, a, b)
      BY <2>1, <3>1, DeepAt
    <3>3. CASE a = 0
      BY <3>2, <3>3 DEF DeepEntry
    <3>4. CASE a # 0
      <4>1. y \in DOMAIN f
        BY <1>0, <1>6, <3>1, <3>4
      <4>2. j[y] = y
        BY <2>1, <4>1
      <4> QED  BY <4>1, <4>2
    <3> QED  BY <3>3, <3>4
  <2>6. Extended(u.used, f, r.vol.used, g) /\ DOMAIN G = DOMAIN F
    BY <1>6, <2>2
  <2>7. Extended(u.used, F, r.vol.used, G)
    BY <2>3, <2>4, <2>5, <2>6, ExtendedWhole
  <2> QED  BY <1>4, <2>1, <2>7
<1> QED  BY <1>1, <1>3, <1>9, <1>10

(* AllocateDoubly. *)
LEMMA DoublyAllocated ==
    ASSUME NEW v, IsVolume(v), NEW e \in v.used, Proper(v.used, Deep(v, e)),
           NEW n \in 0 .. DoublyNum, NEW r, r = AllocateDoubly(v, e, n), ~r.vol.full
    PROVE  DoublyDone(v, e, n, r)
<1> DEFINE I == INDIRECT_INDEX_SECTOR_NUM
<1>0. e \in Sectors /\ n \in Nat /\ 0 \in v.used /\ I \in Nat
  BY ColsAre DEF IsVolume
<1>1. CASE n = 0
  <2>1. r.vol = v /\ r.entry = e
    BY <1>1 DEF AllocateDoubly
  <2>2. Extended(v.used, Deep(v, e), v.used, Deep(v, e))
    BY <1>0, ExtendedSame
  <2>3. \A a, b : ~NeedsDeep(n, a, b)
    BY <1>1 DEF NeedsDeep
  <2> QED  BY <1>0, <2>1, <2>2, <2>3 DEF DoublyDone
<1>2. CASE n # 0
  <2>1. PICK a : a = AllocateEntry(v, e, n)
    OBVIOUS
  <2>2. PICK b : b = AllocateBlocks(a.vol, IndexAt(a.vol, a.entry), n, I, AllocateIndirect)
    OBVIOUS
  <2>3. PICK w : w = cache_write(b.vol, a.entry, Index(b.blocks))
    OBVIOUS
  <2>4. r.vol = w /\ r.entry = a.entry
    BY <1>2, <2>1, <2>2, <2>3 DEF AllocateDoubly, AllocateUnder, SaveIndex
  <2>5. w.full = b.vol.full
    BY <2>3 DEF cache_write, Volume
  <2>6. Grows(a.vol, b.vol)
    BY <1>0, <2>2, IndirectsGrow
  <2>7. ~a.vol.full /\ ~b.vol.full
    BY <2>4, <2>5, <2>6 DEF Grows
  <2>8. EntryDone(v, e, a)
    BY <1>0, <2>1, <2>7, EntryAllocated
  <2>9. IsVolume(a.vol) /\ a.entry \in Sectors /\ a.entry # 0
    BY <2>8 DEF EntryDone
  <2>10. PICK idx : idx = IndexAt(a.vol, a.entry)
    OBVIOUS
  <2>11. idx \in [1 .. I -> Sectors]
    BY <2>9, <2>10 DEF IsVolume
  <2>12. /\ Extended(v.used, Deep(v, e), a.vol.used, Deep(a.vol, a.entry))
         /\ \A x \in 0 .. I, y \in Cols :
               x # 0 \/ y # 0 => DeepEntry(a.vol, a.entry, x, y) = DeepEntry(v, e, x, y)
    BY <1>0, <2>8, DeepBegun
  <2>13. Proper(a.vol.used, Deep(a.vol, a.entry))
    BY <2>12, ExtendedProper
  <2>14. Proper(a.vol.used, Table(a.vol, idx))
    BY <2>9, <2>10, <2>13, DeepTable
  <2>m. PICK m : m = bytes_to_sectors(n, I)
    OBVIOUS
  <2>15. TableDone(a.vol, idx, n, m, b)
    BY <2>2, <2>7, <2>9, <2>10, <2>11, <2>14, <2>m, TableAllocated
  <2>16. /\ Written(b.vol, a.entry, Index(b.blocks), w)
         /\ \A x \in 1 .. I, y \in Cols : DeepEntry(w, a.entry, x, y) = RowEntry(b.vol, b.blocks[x], y)
         /\ Extended(a.vol.used, Deep(a.vol, a.entry), w.used, Deep(w, a.entry))
    BY <2>3, <2>9, <2>10, <2>13, <2>15, DeepFilled
  <2>17. Extended(v.used, Deep(v, e), w.used, Deep(w, a.entry))
    BY <2>12, <2>16, ExtendedOn
  <2>18. ASSUME NEW x \in 0 .. I, NEW y \in Cols
         PROVE  IF NeedsDeep(n, x, y) THEN DeepEntry(w, a.entry, x, y) # 0
                ELSE DeepEntry(w, a.entry, x, y) = DeepEntry(v, e, x, y)
    <3>1. CASE x = 0
      <4>0. x \notin 1 .. m
        BY <3>1
      <4>1. NeedsDeep(n, x, y) => y = 0
        BY <2>m, <3>1, <4>0 DEF NeedsDeep
      <4>2. y = 0 => NeedsDeep(n, x, y) /\ DeepEntry(w, a.entry, x, y) # 0
        BY <1>0, <1>2, <2>9, <3>1 DEF NeedsDeep, DeepEntry
      <4>3. y # 0 => DeepEntry(w, a.entry, x, y) = DeepEntry(v, e, x, y)
        BY <3>1 DEF DeepEntry
      <4> QED  BY <4>1, <4>2, <4>3
    <3>2. CASE x # 0
      <4>1. x \in 1 .. I /\ m \in 0 .. I
        BY <1>0, <2>m, <3>2, UnderTurns
      <4>2. NeedsDeep(n, x, y) <=> x <= m /\ y <= Under(n, x)
        BY <1>0, <1>2, <2>m, <3>2, <4>1 DEF NeedsDeep
      <4>3. IF x <= m /\ y <= Under(n, x) THEN RowEntry(b.vol, b.blocks[x], y) # 0
            ELSE RowEntry(b.vol, b.blocks[x], y) = RowEntry(a.vol, idx[x], y)
        BY <2>15, <4>1 DEF TableDone
      <4>4. DeepEntry(a.vol, a.entry, x, y) = RowEntry(a.vol, idx[x], y)
        BY <2>9, <2>10, <3>2, DeepRows
      <4>5. DeepEntry(a.vol, a.entry, x, y) = DeepEntry(v, e, x, y)
        BY <2>12, <3>2
      <4>6. DeepEntry(w, a.entry, x, y) = RowEntry(b.vol, b.blocks[x], y)
        BY <2>16, <4>1
      <4> QED  BY <4>2, <4>3, <4>4, <4>5, <4>6
    <3> QED  BY <3>1, <3>2
  <2>19. ASSUME NEW s \in v.used,
                \A x \in 0 .. I : s # DeepEntry(v, e, x, 0) \/ DeepEntry(v, e, x, 0) = 0
         PROVE  w.disk[s] = v.disk[s]
    <3>0. s \in Sectors
      BY DEF IsVolume
    <3>1. s # e \/ e = 0
      <4>1. DeepEntry(v, e, 0, 0) = e /\ 0 \in 0 .. I
        BY <1>0 DEF DeepEntry
      <4> QED  BY <2>19, <4>1
    <3>2. s \in a.vol.used /\ s # a.entry /\ a.vol.disk[s] = v.disk[s]
      BY <2>8, <3>0, <3>1 DEF EntryDone
    <3>3. \A x \in 1 .. I : s # idx[x] \/ idx[x] = 0
      <4> TAKE x \in 1 .. I
      <4>1. x \in 0 .. I /\ x # 0 /\ 0 \in Cols
        BY <1>0, ColsAre
      <4>2. DeepEntry(a.vol, a.entry, x, 0) = RowEntry(a.vol, idx[x], 0)
        BY <2>9, <2>10, <4>1, DeepRows
      <4>3. RowEntry(a.vol, idx[x], 0) = idx[x]
        BY DEF RowEntry
      <4>4. DeepEntry(a.vol, a.entry, x, 0) = DeepEntry(v, e, x, 0)
        BY <2>12, <4>1
      <4> QED  BY <2>19, <4>1, <4>2, <4>3, <4>4
    <3>4. b.vol.disk[s] = a.vol.disk[s]
      BY <2>15, <3>2, <3>3 DEF TableDone
    <3> QED  BY <2>16, <3>0, <3>2, <3>4 DEF Written
  <2>20. IsVolume(w)
    BY <2>16 DEF Written
  <2> QED  BY <2>4, <2>9, <2>17, <2>18, <2>19, <2>20 DEF DoublyDone
<1> QED  BY <1>1, <1>2

-----------------------------------------------------------------------------
(* inode_allocate.                                                         *)

(* Additions to a part of the entries that keep their places. *)
LEMMA ExtendedWithin ==
    ASSUME NEW U, NEW W, NEW f, NEW g, Extended(U, f, W, g), NEW F, NEW G,
           DOMAIN G = DOMAIN F,
           \A k \in DOMAIN f : f[k] # g[k] => k \in DOMAIN F /\ F[k] = f[k] /\ G[k] = g[k],
           \A k \in DOMAIN F : F[k] # G[k] => k \in DOMAIN f /\ f[k] # g[k]
    PROVE  Extended(U, F, W, G)
<1>1. DOMAIN G = DOMAIN F /\ 0 \in U /\ U \subseteq W
  BY DEF Extended
<1>2. \A k \in DOMAIN F : F[k] # 0 => G[k] = F[k]
  BY DEF Extended
<1>3. \A k \in DOMAIN F : F[k] = 0 /\ G[k] # 0 => G[k] \in W /\ G[k] \notin U
  BY DEF Extended
<1>4. ASSUME NEW k \in DOMAIN F, NEW l \in DOMAIN F, F[k] = 0, F[l] = 0, G[k] # 0, G[k] = G[l]
      PROVE  k = l
  <2>1. k \in DOMAIN f /\ l \in DOMAIN f /\ f[k] = 0 /\ f[l] = 0 /\ g[k] = G[k] /\ g[l] = G[l]
    BY <1>4
  <2> QED  BY <1>4, <2>1 DEF Extended
<1>5. ASSUME NEW x \in W, x \notin U PROVE \E k \in DOMAIN F : F[k] = 0 /\ G[k] = x
  <2>1. PICK k \in DOMAIN f : f[k] = 0 /\ g[k] = x
    BY <1>5 DEF Extended
  <2>2. x # 0
    BY <1>1, <1>5
  <2> QED  BY <2>1, <2>2
<1> QED  BY <1>1, <1>2, <1>3, <1>4, <1>5 DEF Extended

(* The rows. *)
LEMMA RowsAre ==
    /\ LastRow = INDIRECT_INDEX_SECTOR_NUM + 1 /\ LastRow \in Nat
    /\ Rows = 0 .. LastRow /\ Entries = Rows \X Cols
    /\ 0 \in Rows /\ LastRow \in Rows /\ 1 .. INDIRECT_INDEX_SECTOR_NUM \subseteq Rows
    /\ 0 .. INDIRECT_INDEX_SECTOR_NUM \subseteq Rows
    /\ \A a \in Rows : a = 0 \/ a = LastRow \/ a \in 1 .. INDIRECT_INDEX_SECTOR_NUM
    /\ LastRow \notin 0 .. INDIRECT_INDEX_SECTOR_NUM /\ LastRow # 0
    /\ INDIRECT_INDEX_SECTOR_NUM \in Nat
BY ColsAre DEF Rows, LastRow, Entries

(* The entries of a tree. *)
LEMMA TreeAt ==
    ASSUME NEW v, NEW id
    PROVE  /\ DOMAIN Tree(v, id) = Entries
           /\ \A a \in Rows, b \in Cols :
                 /\ <<a, b>> \in Entries
                 /\ Tree(v, id)[<<a, b>>] = TreeEntry(v, id, a, b)
BY DEF Tree, Entries

(* The index blocks of a tree. *)
LEMMA TreeNodes ==
    ASSUME NEW v, NEW id
    PROVE  /\ TreeEntry(v, id, 0, 0) = id.doubly
           /\ \A a \in 1 .. LastRow : TreeEntry(v, id, a, 0) = Node(v, id, a)
           /\ Node(v, id, LastRow) = id.indirect
           /\ \A a \in 1 .. INDIRECT_INDEX_SECTOR_NUM : Node(v, id, a) = Child(v, id.doubly, a)
           /\ \A a \in 1 .. INDIRECT_INDEX_SECTOR_NUM : \A b :
                 TreeEntry(v, id, a, b) = DeepEntry(v, id.doubly, a, b)
<1>1. \A a \in 1 .. INDIRECT_INDEX_SECTOR_NUM : Node(v, id, a) = Child(v, id.doubly, a)
  BY RowsAre DEF Node, Child
<1>2. \A a \in 1 .. LastRow : TreeEntry(v, id, a, 0) = Node(v, id, a)
  BY DEF TreeEntry, RowEntry
<1> QED  BY <1>1, <1>2 DEF TreeEntry, TopEntry, DeepEntry, Node

(* Those of a proper tree are marked and differ from each other. *)
LEMMA NodesProper ==
    ASSUME NEW v, NEW id, 0 \in v.used, Proper(v.used, Tree(v, id))
    PROVE  /\ id.doubly \in v.used /\ id.indirect \in v.used
           /\ \A a \in 1 .. LastRow : Node(v, id, a) \in v.used
           /\ \A a, c \in 1 .. LastRow :
                 a # c => Node(v, id, a) # Node(v, id, c) \/ Node(v, id, c) = 0
           /\ \A a \in 1 .. LastRow : Node(v, id, a) # id.doubly \/ id.doubly = 0
<1>1. PICK f : f = Tree(v, id)
  OBVIOUS
<1>2. ASSUME NEW a \in 1 .. LastRow PROVE <<a, 0>> \in DOMAIN f /\ f[<<a, 0>>] = Node(v, id, a)
  <2>1. a \in Rows /\ 0 \in Cols
    BY RowsAre, ColsAre
  <2>2. <<a, 0>> \in DOMAIN f /\ f[<<a, 0>>] = TreeEntry(v, id, a, 0)
    BY <1>1, <2>1, TreeAt
  <2> QED  BY <2>2, TreeNodes
<1>3. <<0, 0>> \in DOMAIN f /\ f[<<0, 0>>] = id.doubly
  <2>1. 0 \in Rows /\ 0 \in Cols
    BY RowsAre, ColsAre
  <2>2. <<0, 0>> \in DOMAIN f /\ f[<<0, 0>>] = TreeEntry(v, id, 0, 0)
    BY <1>1, <2>1, TreeAt
  <2> QED  BY <2>2, TreeNodes
<1>4. Proper(v.used, f)
  BY <1>1
<1>5. \A a \in 1 .. LastRow : Node(v, id, a) \in v.used
  BY <1>2, <1>4 DEF Proper
<1>6. id.doubly \in v.used
  BY <1>3, <1>4 DEF Proper
<1>7. id.indirect \in v.used
  <2>1. LastRow \in 1 .. LastRow
    BY RowsAre
  <2> QED  BY <1>5, <2>1, TreeNodes
<1>8. ASSUME NEW a \in 1 .. LastRow, NEW c \in 1 .. LastRow, a # c
      PROVE  Node(v, id, a) # Node(v, id, c) \/ Node(v, id, c) = 0
  <2>1. <<a, 0>> # <<c, 0>>
    BY <1>8
  <2> QED  BY <1>2, <1>4, <2>1 DEF Proper
<1>9. ASSUME NEW a \in 1 .. LastRow PROVE Node(v, id, a) # id.doubly \/ id.doubly = 0
  <2>1. <<a, 0>> # <<0, 0>>
    BY RowsAre
  <2> QED  BY <1>2, <1>3, <1>4, <2>1 DEF Proper
<1> QED  BY <1>5, <1>6, <1>7, <1>8, <1>9

(* A row whose index block stays and is not written. *)
LEMMA SameTreeRow ==
    ASSUME NEW v, NEW id, NEW w, NEW jd, NEW a, a # 0, NEW e, Node(v, id, a) = e, Node(w, jd, a) = e,
           e # 0 => w.disk[e] = v.disk[e]
    PROVE  \A b : TreeEntry(w, jd, a, b) = TreeEntry(v, id, a, b)
<1>1. \A b : RowEntry(w, e, b) = RowEntry(v, e, b)
  BY SameRow
<1> QED  BY <1>1 DEF TreeEntry

(* A step of the allocation that provides for the entries in X. *)
StepDone(v, id, w, jd, X) ==
    /\ IsVolume(w) /\ IsInode(jd) /\ jd.length = id.length
    /\ Extended(v.used, Tree(v, id), w.used, Tree(w, jd))
    /\ \A x \in Entries : IF x \in X THEN Tree(w, jd)[x] # 0 ELSE Tree(w, jd)[x] = Tree(v, id)[x]
    /\ \A s \in v.used :
          (\A x \in Entries : s # Tree(v, id)[x] \/ s = 0) => w.disk[s] = v.disk[s]

(* One step after another. *)
LEMMA StepsDone ==
    ASSUME NEW u, NEW id, NEW v, NEW jd, NEW w, NEW kd, NEW X, NEW Y,
           StepDone(u, id, v, jd, X), StepDone(v, jd, w, kd, Y)
    PROVE  StepDone(u, id, w, kd, X \cup Y)
<1>1. PICK f, g, h : f = Tree(u, id) /\ g = Tree(v, jd) /\ h = Tree(w, kd)
  OBVIOUS
<1>2. DOMAIN f = Entries /\ DOMAIN g = Entries /\ DOMAIN h = Entries
  BY <1>1 DEF Tree
<1>3. Extended(u.used, f, v.used, g) /\ Extended(v.used, g, w.used, h)
  BY <1>1 DEF StepDone
<1>4. Extended(u.used, f, w.used, h)
  BY <1>3, ExtendedOn
<1>5. \A x \in Entries : IF x \in X THEN g[x] # 0 ELSE g[x] = f[x]
  BY <1>1 DEF StepDone
<1>6. \A x \in Entries : IF x \in Y THEN h[x] # 0 ELSE h[x] = g[x]
  BY <1>1 DEF StepDone
<1>7. \A x \in Entries : IF x \in X \cup Y THEN h[x] # 0 ELSE h[x] = f[x]
  BY <1>5, <1>6
<1>8. ASSUME NEW s \in u.used, \A x \in Entries : s # f[x] \/ s = 0
      PROVE  w.disk[s] = u.disk[s]
  <2>1. v.disk[s] = u.disk[s]
    BY <1>1, <1>8 DEF StepDone
  <2>2. s \in v.used /\ \A x \in Entries : s # g[x] \/ s = 0
    BY <1>2, <1>3, <1>8 DEF Extended
  <2>3. w.disk[s] = v.disk[s]
    BY <1>1, <2>2 DEF StepDone
  <2> QED  BY <2>1, <2>3
<1>9. IsVolume(w) /\ IsInode(kd) /\ kd.length = id.length
  BY DEF StepDone
<1> QED  BY <1>1, <1>4, <1>7, <1>8, <1>9 DEF StepDone

(* An inode put together. *)
LEMMA InodeMade ==
    ASSUME NEW length \in Int, NEW direct \in [1 .. DIRECT_INDEX_NUM -> Sectors],
           NEW indirect \in Sectors, NEW doubly \in Sectors, NEW id,
           id = InodeDisk(length, direct, indirect, doubly)
    PROVE  /\ IsInode(id) /\ id.length = length /\ id.direct = direct
           /\ id.indirect = indirect /\ id.doubly = doubly /\ id.kind = "inode"
BY DEF IsInode, InodeDisk

(* DirectStep. *)
LEMMA DirectAllocated ==
    ASSUME NEW v, IsVolume(v), NEW id, IsInode(id), Proper(v.used, Tree(v, id)), NEW n \in Nat,
           NEW r, r = DirectStep(v, id, n), ~r.vol.full
    PROVE  StepDone(v, id, r.vol, r.id, {0} \X (1 .. DirectPart(n)))
<1> DEFINE D == DIRECT_INDEX_NUM
<1>0. PICK m : m = DirectPart(n)
  OBVIOUS
<1>1. m \in 0 .. D /\ D \in Nat /\ 0 \in v.used
  BY <1>0, Parts, ColsAre DEF IsVolume
<1>2. PICK b : b = AllocateBlocks(v, id.direct, m, 1, AllocateEntry)
  OBVIOUS
<1>3. r = Direct(b, id)
  BY <1>0, <1>2 DEF DirectStep
<1>4. /\ id.length \in Int /\ id.direct \in [1 .. D -> Sectors]
      /\ id.indirect \in Sectors /\ id.doubly \in Sectors
  BY DEF IsInode
<1>w. PICK w, jd : w = r.vol /\ jd = r.id
  OBVIOUS
<1>5. w = b.vol /\ jd = InodeDisk(id.length, b.blocks, id.indirect, id.doubly)
  BY <1>3, <1>w DEF Direct
<1>6. EntriesDone(v, id.direct, D, m, b)
  BY <1>1, <1>2, <1>4, <1>5, <1>w, EntriesAllocated
<1>7. /\ IsVolume(w) /\ b.blocks \in [1 .. D -> Sectors]
      /\ Extended(v.used, id.direct, w.used, b.blocks)
      /\ \A i \in 1 .. m : b.blocks[i] # 0
      /\ \A i \in 1 .. D : i > m => b.blocks[i] = id.direct[i]
      /\ \A s \in v.used : w.disk[s] = v.disk[s]
  BY <1>5, <1>6 DEF EntriesDone
<1>8. /\ IsInode(jd) /\ jd.length = id.length /\ jd.direct = b.blocks
      /\ jd.indirect = id.indirect /\ jd.doubly = id.doubly
  BY <1>4, <1>5, <1>7, InodeMade
<1>9. ASSUME NEW a \in 1 .. LastRow PROVE \A k : TreeEntry(w, jd, a, k) = TreeEntry(v, id, a, k)
  <2>1. Node(v, id, a) \in v.used /\ id.doubly \in v.used
    BY <1>1, NodesProper
  <2>2. w.disk[Node(v, id, a)] = v.disk[Node(v, id, a)] /\ w.disk[id.doubly] = v.disk[id.doubly]
    BY <1>7, <2>1
  <2>3. IndexAt(w, id.doubly) = IndexAt(v, id.doubly)
    BY <2>2 DEF IndexAt
  <2>4. Node(w, jd, a) = Node(v, id, a)
    BY <1>8, <2>3 DEF Node
  <2>5. a # 0
    BY RowsAre
  <2>6. PICK e : e = Node(v, id, a)
    OBVIOUS
  <2>7. Node(v, id, a) = e /\ Node(w, jd, a) = e /\ w.disk[e] = v.disk[e]
    BY <2>2, <2>4, <2>6
  <2> QED  BY <2>5, <2>7, SameTreeRow
<1>10. ASSUME NEW k \in Cols
       PROVE  /\ k \in 1 .. D => /\ TreeEntry(w, jd, 0, k) = b.blocks[k]
                                 /\ TreeEntry(v, id, 0, k) = id.direct[k]
              /\ k \notin 1 .. D => TreeEntry(w, jd, 0, k) = TreeEntry(v, id, 0, k)
  <2>1. k \in Nat
    BY ColsAre
  <2> QED  BY <1>1, <1>8, <2>1 DEF TreeEntry, TopEntry
<1>11. PICK f, g, F, G, j : /\ f = id.direct /\ g = b.blocks /\ F = Tree(v, id) /\ G = Tree(w, jd)
                            /\ j = [k \in 1 .. D |-> <<0, k>>]
  OBVIOUS
<1>12. DOMAIN F = Entries /\ DOMAIN G = Entries /\ DOMAIN f = 1 .. D
  BY <1>4, <1>11 DEF Tree
<1>13. ASSUME NEW k \in DOMAIN f
       PROVE  j[k] = <<0, k>> /\ j[k] \in DOMAIN F /\ F[j[k]] = f[k] /\ G[j[k]] = g[k]
  <2>1. k \in Cols /\ 0 \in Rows
    BY <1>12, ColsAre, RowsAre
  <2>2. j[k] = <<0, k>>
    BY <1>11, <1>12
  <2>3. /\ <<0, k>> \in Entries
        /\ F[<<0, k>>] = TreeEntry(v, id, 0, k) /\ G[<<0, k>>] = TreeEntry(w, jd, 0, k)
    BY <1>11, <2>1, TreeAt
  <2> QED  BY <1>10, <1>11, <1>12, <2>1, <2>2, <2>3
<1>14. \A k, l \in DOMAIN f : j[k] = j[l] => k = l
  BY <1>13
<1>15. ASSUME NEW y \in Entries
       PROVE  \/ \E k \in DOMAIN f : y = <<0, k>> /\ y = j[k]
              \/ G[y] = F[y] /\ \A k \in DOMAIN f : y # <<0, k>>
  <2>1. PICK a \in Rows, k \in Cols : y = <<a, k>>
    BY RowsAre
  <2>2. F[y] = TreeEntry(v, id, a, k) /\ G[y] = TreeEntry(w, jd, a, k)
    BY <1>11, <2>1, TreeAt
  <2>3. CASE a # 0
    <3>1. a \in 1 .. LastRow
      BY <2>3, RowsAre
    <3> QED  BY <1>9, <2>1, <2>2, <2>3, <3>1
  <2>4. CASE a = 0 /\ k \in 1 .. D
    BY <1>12, <1>13, <2>1, <2>4
  <2>5. CASE a = 0 /\ k \notin 1 .. D
    BY <1>10, <1>12, <2>1, <2>2, <2>5
  <2> QED  BY <2>3, <2>4, <2>5
<1>16. Extended(v.used, F, w.used, G)
  <2>1. Extended(v.used, f, w.used, g) /\ DOMAIN G = DOMAIN F
    BY <1>7, <1>11, <1>12
  <2>2. \A y \in DOMAIN F : G[y] = F[y] \/ \E k \in DOMAIN f : y = j[k]
    BY <1>12, <1>15
  <2>3. \A k \in DOMAIN f : j[k] \in DOMAIN F /\ F[j[k]] = f[k] /\ G[j[k]] = g[k]
    BY <1>13
  <2> QED  BY <1>14, <2>1, <2>2, <2>3, ExtendedWhole
<1>17. ASSUME NEW x \in Entries
       PROVE  IF x \in {0} \X (1 .. m) THEN G[x] # 0 ELSE G[x] = F[x]
  <2>1. CASE \E k \in DOMAIN f : x = <<0, k>> /\ x = j[k]
    <3>1. PICK k \in DOMAIN f : x = <<0, k>> /\ x = j[k]
      BY <2>1
    <3>2. F[x] = id.direct[k] /\ G[x] = b.blocks[k] /\ k \in 1 .. D
      BY <1>11, <1>12, <1>13, <3>1
    <3>3. x \in {0} \X (1 .. m) <=> k \in 1 .. m
      BY <3>1
    <3> QED  BY <1>1, <1>7, <3>2, <3>3
  <2>2. CASE G[x] = F[x] /\ \A k \in DOMAIN f : x # <<0, k>>
    <3>1. x \notin {0} \X (1 .. m)
      <4> SUFFICES ASSUME x \in {0} \X (1 .. m) PROVE FALSE
        OBVIOUS
      <4>1. PICK k \in 1 .. m : x = <<0, k>>
        OBVIOUS
      <4>2. k \in 1 .. D
        BY <1>1, <4>1
      <4> QED  BY <1>12, <2>2, <4>1, <4>2
    <3> QED  BY <2>2, <3>1
  <2> QED  BY <1>15, <2>1, <2>2
<1>18. StepDone(v, id, w, jd, {0} \X (1 .. m))
  BY <1>7, <1>8, <1>11, <1>16, <1>17 DEF StepDone
<1> QED  BY <1>0, <1>18, <1>w

(* The entries of the last row that n sectors need. *)
NeedsLast(n) == {x \in Entries : x[1] = LastRow /\ n > 0 /\ x[2] <= n}

(* IndirectStep. *)
LEMMA IndirectStepDone ==
    ASSUME NEW v, IsVolume(v), NEW id, IsInode(id), Proper(v.used, Tree(v, id)),
           NEW n \in 0 .. INDIRECT_INDEX_SECTOR_NUM,
           NEW a, a = AllocateIndirect(v, id.indirect, n), ~a.vol.full,
           NEW r, r = Indirect(a, id)
    PROVE  StepDone(v, id, r.vol, r.id, NeedsLast(n))
<1> DEFINE e == id.indirect
<1>1. 0 \in v.used /\ e \in v.used /\ id.doubly \in v.used
  <2>1. 0 \in v.used
    BY DEF IsVolume
  <2> QED  BY <2>1, NodesProper
<1>2. IndirectDone(v, e, n, a)
  BY <1>1, IndirectAllocated
<1>4. /\ id.length \in Int /\ id.direct \in [1 .. DIRECT_INDEX_NUM -> Sectors]
      /\ id.doubly \in Sectors
  BY DEF IsInode
<1>w. PICK w, jd : w = r.vol /\ jd = r.id
  OBVIOUS
<1>5. w = a.vol /\ jd = InodeDisk(id.length, id.direct, a.entry, id.doubly)
  BY <1>w DEF Indirect
<1>6. /\ IsVolume(w) /\ a.entry \in Sectors
      /\ Extended(v.used, Row(v, e), w.used, Row(w, a.entry))
      /\ \A b \in Cols : IF n > 0 /\ b <= n THEN RowEntry(w, a.entry, b) # 0
                         ELSE RowEntry(w, a.entry, b) = RowEntry(v, e, b)
      /\ \A s \in v.used : s # e \/ e = 0 => w.disk[s] = v.disk[s]
  BY <1>2, <1>5 DEF IndirectDone
<1>8. /\ IsInode(jd) /\ jd.length = id.length /\ jd.direct = id.direct
      /\ jd.indirect = a.entry /\ jd.doubly = id.doubly
  BY <1>4, <1>5, <1>6, InodeMade
<1> HIDE DEF e
<1>9. ASSUME NEW c \in 1 .. INDIRECT_INDEX_SECTOR_NUM
      PROVE  \A k : TreeEntry(w, jd, c, k) = TreeEntry(v, id, c, k)
  <2>0. c \in 1 .. LastRow /\ c # LastRow /\ LastRow \in 1 .. LastRow /\ c # 0
    BY RowsAre
  <2>1. /\ Node(v, id, c) \in v.used /\ id.doubly \in v.used /\ Node(v, id, LastRow) = e
        /\ Node(v, id, c) # Node(v, id, LastRow) \/ Node(v, id, LastRow) = 0
        /\ Node(v, id, LastRow) # id.doubly \/ id.doubly = 0
    BY <1>1, <2>0, NodesProper, TreeNodes DEF e
  <2>2. /\ w.disk[Node(v, id, c)] = v.disk[Node(v, id, c)]
        /\ id.doubly # 0 => w.disk[id.doubly] = v.disk[id.doubly]
    BY <1>6, <2>1
  <2>3. id.doubly # 0 => IndexAt(w, id.doubly) = IndexAt(v, id.doubly)
    BY <2>2 DEF IndexAt
  <2>4. Node(w, jd, c) = Node(v, id, c)
    BY <1>8, <2>0, <2>3 DEF Node
  <2>6. PICK d : d = Node(v, id, c)
    OBVIOUS
  <2>7. Node(v, id, c) = d /\ Node(w, jd, c) = d /\ w.disk[d] = v.disk[d]
    BY <2>2, <2>4, <2>6
  <2> QED  BY <2>0, <2>7, SameTreeRow
<1>10. \A k : TreeEntry(w, jd, 0, k) = TreeEntry(v, id, 0, k)
  BY <1>8 DEF TreeEntry, TopEntry
<1>l. /\ \A k : TreeEntry(v, id, LastRow, k) = RowEntry(v, e, k)
      /\ \A k : TreeEntry(w, jd, LastRow, k) = RowEntry(w, a.entry, k)
  BY <1>8, RowsAre DEF TreeEntry, Node, e
<1>11. PICK f, g, F, G, j : /\ f = Row(v, e) /\ g = Row(w, a.entry) /\ F = Tree(v, id) /\ G = Tree(w, jd)
                            /\ j = [k \in Cols |-> <<LastRow, k>>]
  OBVIOUS
<1>12. DOMAIN F = Entries /\ DOMAIN G = Entries /\ DOMAIN f = Cols
  BY <1>11 DEF Tree, Row
<1>13. ASSUME NEW k \in DOMAIN f
       PROVE  /\ j[k] = <<LastRow, k>> /\ j[k] \in DOMAIN F /\ F[j[k]] = f[k] /\ G[j[k]] = g[k]
              /\ f[k] = RowEntry(v, e, k) /\ g[k] = RowEntry(w, a.entry, k)
  <2>1. k \in Cols /\ LastRow \in Rows
    BY <1>12, RowsAre
  <2>2. j[k] = <<LastRow, k>>
    BY <1>11, <1>12
  <2>3. /\ <<LastRow, k>> \in Entries /\ F[<<LastRow, k>>] = TreeEntry(v, id, LastRow, k)
        /\ G[<<LastRow, k>>] = TreeEntry(w, jd, LastRow, k)
    BY <1>11, <2>1, TreeAt
  <2>4. f[k] = RowEntry(v, e, k) /\ g[k] = RowEntry(w, a.entry, k)
    BY <1>11, <2>1 DEF Row
  <2> QED  BY <1>l, <1>12, <2>2, <2>3, <2>4
<1>14. \A k, l \in DOMAIN f : j[k] = j[l] => k = l
  BY <1>13
<1>15. ASSUME NEW y \in Entries
       PROVE  \/ \E k \in DOMAIN f : y = <<LastRow, k>> /\ y = j[k]
              \/ G[y] = F[y] /\ y[1] # LastRow
  <2>1. PICK c \in Rows, k \in Cols : y = <<c, k>>
    BY RowsAre
  <2>2. F[y] = TreeEntry(v, id, c, k) /\ G[y] = TreeEntry(w, jd, c, k)
    BY <1>11, <2>1, TreeAt
  <2>3. CASE c = 0
    BY <1>10, <2>1, <2>2, <2>3, RowsAre
  <2>4. CASE c = LastRow
    BY <1>12, <1>13, <2>1, <2>4
  <2>5. CASE c \in 1 .. INDIRECT_INDEX_SECTOR_NUM
    <3>1. c # LastRow
      BY <2>5, RowsAre
    <3> QED  BY <1>9, <2>1, <2>2, <2>5, <3>1
  <2> QED  BY <2>3, <2>4, <2>5, RowsAre
<1>16. Extended(v.used, F, w.used, G)
  <2>1. Extended(v.used, f, w.used, g) /\ DOMAIN G = DOMAIN F
    BY <1>6, <1>11, <1>12
  <2>2. \A y \in DOMAIN F : G[y] = F[y] \/ \E k \in DOMAIN f : y = j[k]
    BY <1>12, <1>15
  <2>3. \A k \in DOMAIN f : j[k] \in DOMAIN F /\ F[j[k]] = f[k] /\ G[j[k]] = g[k]
    BY <1>13
  <2> QED  BY <1>14, <2>1, <2>2, <2>3, ExtendedWhole
<1>17. ASSUME NEW x \in Entries
       PROVE  IF x \in NeedsLast(n) THEN G[x] # 0 ELSE G[x] = F[x]
  <2>1. CASE \E k \in DOMAIN f : x = <<LastRow, k>> /\ x = j[k]
    <3>1. PICK k \in DOMAIN f : x = <<LastRow, k>> /\ x = j[k]
      BY <2>1
    <3>2. F[x] = RowEntry(v, e, k) /\ G[x] = RowEntry(w, a.entry, k) /\ k \in Cols
      BY <1>12, <1>13, <3>1
    <3>3. x \in NeedsLast(n) <=> n > 0 /\ k <= n
      BY <3>1 DEF NeedsLast
    <3> QED  BY <1>6, <3>2, <3>3
  <2>2. CASE G[x] = F[x] /\ x[1] # LastRow
    BY <2>2 DEF NeedsLast
  <2> QED  BY <1>15, <2>1, <2>2
<1>18. ASSUME NEW s \in v.used, \A x \in Entries : s # F[x] \/ s = 0 PROVE w.disk[s] = v.disk[s]
  <2>1. <<LastRow, 0>> \in Entries /\ F[<<LastRow, 0>>] = e
    <3>1. LastRow \in Rows /\ 0 \in Cols
      BY RowsAre, ColsAre
    <3>2. <<LastRow, 0>> \in Entries /\ F[<<LastRow, 0>>] = TreeEntry(v, id, LastRow, 0)
      BY <1>11, <3>1, TreeAt
    <3> QED  BY <1>l, <3>2 DEF RowEntry
  <2>2. s # e \/ e = 0
    BY <1>18, <2>1
  <2> QED  BY <1>6, <2>2
<1>19. StepDone(v, id, w, jd, NeedsLast(n))
  BY <1>6, <1>8, <1>11, <1>16, <1>17, <1>18 DEF StepDone
<1> QED  BY <1>19, <1>w

(* The entries under the doubly indirect one, and itself, that n sectors need. *)
NeedsDoubly(n) ==
    {x \in Entries : x[1] \in 0 .. INDIRECT_INDEX_SECTOR_NUM /\ NeedsDeep(n, x[1], x[2])}

(* DoublyStep. *)
LEMMA DoublyStepDone ==
    ASSUME NEW v, IsVolume(v), NEW id, IsInode(id), Proper(v.used, Tree(v, id)),
           NEW n \in 0 .. DoublyNum,
           NEW a, a = AllocateDoubly(v, id.doubly, n), ~a.vol.full,
           NEW r, r = Doubly(a, id)
    PROVE  StepDone(v, id, r.vol, r.id, NeedsDoubly(n))
<1> DEFINE I == INDIRECT_INDEX_SECTOR_NUM
           e == id.doubly
<1>1. 0 \in v.used /\ e \in v.used /\ id.indirect \in v.used
  <2>1. 0 \in v.used
    BY DEF IsVolume
  <2> QED  BY <2>1, NodesProper
<1> HIDE DEF e
<1>t. ASSUME NEW u, NEW kd, NEW c \in 0 .. I, NEW b \in Cols, c # 0 \/ b = 0
      PROVE  TreeEntry(u, kd, c, b) = DeepEntry(u, kd.doubly, c, b)
  <2>1. CASE c = 0
    BY <1>t, <2>1 DEF TreeEntry, TopEntry, DeepEntry
  <2>2. CASE c # 0
    <3>1. c \in 1 .. I
      BY <2>2, RowsAre
    <3> QED  BY <3>1, TreeNodes
  <2> QED  BY <2>1, <2>2
<1>2. PICK f, F : f = Deep(v, e) /\ F = Tree(v, id)
  OBVIOUS
<1>3. DOMAIN f = (0 .. I) \X Cols /\ DOMAIN F = Entries
  BY <1>2 DEF Deep, Tree
<1>f. ASSUME NEW c \in 0 .. I, NEW b \in Cols
      PROVE  /\ <<c, b>> \in DOMAIN f /\ <<c, b>> \in DOMAIN F
             /\ f[<<c, b>>] = DeepEntry(v, e, c, b)
             /\ c # 0 \/ b = 0 => F[<<c, b>>] = f[<<c, b>>]
             /\ c = 0 /\ b # 0 => f[<<c, b>>] = 0
  <2>1. c \in Rows
    BY RowsAre
  <2>2. <<c, b>> \in DOMAIN F /\ F[<<c, b>>] = TreeEntry(v, id, c, b)
    BY <1>2, <1>3, <2>1, TreeAt
  <2>3. <<c, b>> \in DOMAIN f /\ f[<<c, b>>] = DeepEntry(v, e, c, b)
    BY <1>2, <1>3, DeepAt
  <2>4. c # 0 \/ b = 0 => TreeEntry(v, id, c, b) = DeepEntry(v, e, c, b)
    BY <1>t DEF e
  <2>5. c = 0 /\ b # 0 => DeepEntry(v, e, c, b) = 0
    BY DEF DeepEntry
  <2> QED  BY <2>2, <2>3, <2>4, <2>5
<1>4. Proper(v.used, f)
  <2>1. \A k \in DOMAIN f : f[k] # 0 => k \in DOMAIN F /\ F[k] = f[k]
    <3> TAKE k \in DOMAIN f
    <3>1. PICK c \in 0 .. I, b \in Cols : k = <<c, b>>
      BY <1>3
    <3> QED  BY <1>f, <3>1
  <2>2. Proper(v.used, F)
    BY <1>2
  <2> QED  BY <2>1, <2>2 DEF Proper
<1>5. DoublyDone(v, e, n, a)
  BY <1>1, <1>2, <1>4, DoublyAllocated DEF e
<1>6. /\ id.length \in Int /\ id.direct \in [1 .. DIRECT_INDEX_NUM -> Sectors]
      /\ id.indirect \in Sectors
  BY DEF IsInode
<1>w. PICK w, jd : w = r.vol /\ jd = r.id
  OBVIOUS
<1>7. w = a.vol /\ jd = InodeDisk(id.length, id.direct, id.indirect, a.entry)
  BY <1>w DEF Doubly
<1>8. /\ IsVolume(w) /\ a.entry \in Sectors
      /\ Extended(v.used, Deep(v, e), w.used, Deep(w, a.entry))
      /\ \A c \in 0 .. I, b \in Cols :
            IF NeedsDeep(n, c, b) THEN DeepEntry(w, a.entry, c, b) # 0
            ELSE DeepEntry(w, a.entry, c, b) = DeepEntry(v, e, c, b)
      /\ \A s \in v.used :
            (\A c \in 0 .. I : s # DeepEntry(v, e, c, 0) \/ DeepEntry(v, e, c, 0) = 0)
               => w.disk[s] = v.disk[s]
  BY <1>5, <1>7 DEF DoublyDone
<1>9. /\ IsInode(jd) /\ jd.length = id.length /\ jd.direct = id.direct
      /\ jd.indirect = id.indirect /\ jd.doubly = a.entry
  BY <1>6, <1>7, <1>8, InodeMade
<1>10. PICK g, G : g = Deep(w, a.entry) /\ G = Tree(w, jd)
  OBVIOUS
<1>11. DOMAIN g = DOMAIN f /\ DOMAIN G = Entries
  BY <1>2, <1>10 DEF Deep, Tree
<1>g. ASSUME NEW c \in 0 .. I, NEW b \in Cols
      PROVE  /\ g[<<c, b>>] = DeepEntry(w, a.entry, c, b)
             /\ c # 0 \/ b = 0 => G[<<c, b>>] = g[<<c, b>>]
             /\ c = 0 /\ b # 0 => g[<<c, b>>] = 0 /\ G[<<c, b>>] = F[<<c, b>>]
  <2>1. c \in Rows
    BY RowsAre
  <2>2. F[<<c, b>>] = TreeEntry(v, id, c, b) /\ G[<<c, b>>] = TreeEntry(w, jd, c, b)
    BY <1>2, <1>10, <2>1, TreeAt
  <2>3. g[<<c, b>>] = DeepEntry(w, a.entry, c, b)
    BY <1>10, DeepAt
  <2>4. c # 0 \/ b = 0 => TreeEntry(w, jd, c, b) = DeepEntry(w, a.entry, c, b)
    BY <1>9, <1>t
  <2>5. c = 0 /\ b # 0 => /\ DeepEntry(w, a.entry, c, b) = 0
                          /\ TreeEntry(w, jd, c, b) = TreeEntry(v, id, c, b)
    BY <1>9 DEF DeepEntry, TreeEntry, TopEntry
  <2> QED  BY <2>2, <2>3, <2>4, <2>5
<1>12. \A k : TreeEntry(w, jd, LastRow, k) = TreeEntry(v, id, LastRow, k)
  <2>0. LastRow \in 1 .. LastRow /\ LastRow # 0
    BY RowsAre
  <2>1. PICK d : d = id.indirect
    OBVIOUS
  <2>2. Node(v, id, LastRow) = d /\ Node(w, jd, LastRow) = d /\ d \in v.used
    BY <1>1, <1>9, <2>1 DEF Node
  <2>3. ASSUME NEW c \in 0 .. I PROVE d # DeepEntry(v, e, c, 0) \/ DeepEntry(v, e, c, 0) = 0
    <3>1. 0 \in Cols /\ LastRow \in Rows /\ c # LastRow
      BY ColsAre, RowsAre
    <3>2. <<LastRow, 0>> \in DOMAIN F /\ F[<<LastRow, 0>>] = TreeEntry(v, id, LastRow, 0)
      BY <1>2, <1>3, <3>1, TreeAt
    <3>3. TreeEntry(v, id, LastRow, 0) = d
      BY <2>0, <2>2, TreeNodes
    <3>4. <<c, 0>> \in DOMAIN F /\ F[<<c, 0>>] = DeepEntry(v, e, c, 0)
      BY <1>f, <3>1
    <3>5. Proper(v.used, F) /\ <<c, 0>> # <<LastRow, 0>>
      BY <1>2, <3>1
    <3> QED  BY <3>2, <3>3, <3>4, <3>5 DEF Proper
  <2>4. w.disk[d] = v.disk[d]
    BY <1>8, <2>2, <2>3
  <2> QED  BY <2>0, <2>2, <2>4, SameTreeRow
<1>13. \A k \in DOMAIN f : f[k] # g[k] => k \in DOMAIN F /\ F[k] = f[k] /\ G[k] = g[k]
  <2> TAKE k \in DOMAIN f
  <2>1. PICK c \in 0 .. I, b \in Cols : k = <<c, b>>
    BY <1>3
  <2> QED  BY <1>f, <1>g, <2>1
<1>14. ASSUME NEW k \in Entries
       PROVE  /\ F[k] # G[k] => k \in DOMAIN f /\ f[k] # g[k]
              /\ IF k \in NeedsDoubly(n) THEN G[k] # 0 ELSE G[k] = F[k]
  <2>1. PICK c \in Rows, b \in Cols : k = <<c, b>>
    BY RowsAre
  <2>2. CASE c \in 0 .. I
    <3>1. k \in NeedsDoubly(n) <=> NeedsDeep(n, c, b)
      BY <2>1, <2>2 DEF NeedsDoubly
    <3>2. CASE c = 0 /\ b # 0
      <4>1. ~NeedsDeep(n, c, b)
        BY <3>2 DEF NeedsDeep
      <4> QED  BY <1>g, <2>1, <2>2, <3>1, <3>2, <4>1
    <3>3. CASE c # 0 \/ b = 0
      <4>1. k \in DOMAIN f /\ F[k] = DeepEntry(v, e, c, b) /\ G[k] = DeepEntry(w, a.entry, c, b)
            /\ f[k] = F[k] /\ g[k] = G[k]
        BY <1>f, <1>g, <2>1, <2>2, <3>3
      <4>2. IF NeedsDeep(n, c, b) THEN G[k] # 0 ELSE G[k] = F[k]
        BY <1>8, <2>2, <4>1
      <4> QED  BY <3>1, <4>1, <4>2
    <3> QED  BY <3>2, <3>3
  <2>3. CASE c \notin 0 .. I
    <3>1. c = LastRow
      BY <2>3, RowsAre
    <3>2. F[k] = TreeEntry(v, id, c, b) /\ G[k] = TreeEntry(w, jd, c, b)
      BY <1>2, <1>10, <2>1, TreeAt
    <3>3. k \notin NeedsDoubly(n)
      BY <2>1, <2>3 DEF NeedsDoubly
    <3> QED  BY <1>12, <3>1, <3>2, <3>3
  <2> QED  BY <2>2, <2>3
<1>15. Extended(v.used, F, w.used, G)
  <2>1. Extended(v.used, f, w.used, g) /\ DOMAIN G = DOMAIN F
    BY <1>2, <1>3, <1>8, <1>10, <1>11
  <2>2. \A k \in DOMAIN F : F[k] # G[k] => k \in DOMAIN f /\ f[k] # g[k]
    BY <1>3, <1>14
  <2> QED  BY <1>13, <2>1, <2>2, ExtendedWithin
<1>16. ASSUME NEW s \in v.used, \A x \in Entries : s # F[x] \/ s = 0 PROVE w.disk[s] = v.disk[s]
  <2>1. \A c \in 0 .. I : s # DeepEntry(v, e, c, 0) \/ DeepEntry(v, e, c, 0) = 0
    <3> TAKE c \in 0 .. I
    <3>1. 0 \in Cols
      BY ColsAre
    <3>2. <<c, 0>> \in Entries /\ F[<<c, 0>>] = DeepEntry(v, e, c, 0)
      BY <1>3, <1>f, <3>1
    <3> QED  BY <1>16, <3>2
  <2> QED  BY <1>8, <2>1
<1>17. StepDone(v, id, w, jd, NeedsDoubly(n))
  BY <1>2, <1>8, <1>9, <1>10, <1>14, <1>15, <1>16 DEF StepDone
<1> QED  BY <1>17, <1>w

(* The parts of inode_allocate grow the volume and keep the length, whether *)
(* the device is full or not.                                               *)
LEMMA StepsGrow ==
    ASSUME NEW v, NEW id, NEW n \in Nat, NEW r, NEW s, NEW t, r = DirectStep(v, id, n),
           s = IndirectStep(r, n), t = DoublyStep(s, n)
    PROVE  /\ Grows(v, r.vol) /\ r.id.length = id.length
           /\ Grows(r.vol, s.vol) /\ s.id.length = id.length
           /\ Grows(s.vol, t.vol) /\ t.id.length = id.length
<1>0. DirectPart(n) \in Nat /\ IndirectPart(n) \in Nat /\ DoublyPart(n) \in Nat
  BY Parts
<1>1. Grows(v, r.vol) /\ r.id.length = id.length
  <2>1. PICK b : b = AllocateBlocks(v, id.direct, DirectPart(n), 1, AllocateEntry)
    OBVIOUS
  <2>2. r = Direct(b, id)
    BY <2>1 DEF DirectStep
  <2>3. r.vol = b.vol /\ r.id.length = id.length
    BY <2>2 DEF Direct, InodeDisk
  <2> QED  BY <1>0, <2>1, <2>3, EntriesGrow
<1>2. Grows(r.vol, s.vol) /\ s.id.length = id.length
  <2>1. PICK b : b = AllocateIndirect(r.vol, r.id.indirect, IndirectPart(n))
    OBVIOUS
  <2>2. s = Indirect(b, r.id)
    BY <2>1 DEF IndirectStep
  <2>3. s.vol = b.vol /\ s.id.length = r.id.length
    BY <2>2 DEF Indirect, InodeDisk
  <2> QED  BY <1>0, <1>1, <2>1, <2>3, IndirectGrows
<1>3. Grows(s.vol, t.vol) /\ t.id.length = id.length
  <2>1. PICK b : b = AllocateDoubly(s.vol, s.id.doubly, DoublyPart(n))
    OBVIOUS
  <2>2. t = Doubly(b, s.id)
    BY <2>1 DEF DoublyStep
  <2>3. t.vol = b.vol /\ t.id.length = s.id.length
    BY <2>2 DEF Doubly, InodeDisk
  <2> QED  BY <1>0, <1>2, <2>1, <2>3, DoublyGrows
<1> QED  BY <1>1, <1>2, <1>3

(* What inode_allocate does on every volume: its only assertion is its own. *)
Kept(v, id, r) ==
    /\ v.used \subseteq r.vol.used
    /\ r.vol.failed = v.failed \/ r.vol.failed = v.failed \cup {"inode_allocate"}
    /\ v.full => r.vol.full
    /\ r.id.length = id.length
    /\ id.length < 0 => r.vol = v /\ r.id = id /\ r.success = FALSE
    /\ id.length >= 0 => r.success = TRUE

(* inode_allocate. *)
LEMMA AllocateKeeps ==
    ASSUME NEW v, NEW id, id.length \in Int, NEW r, r = inode_allocate(v, id)
    PROVE  Kept(v, id, r)
<1>1. CASE id.length < 0
  <2>1. r = [vol |-> v, id |-> id, success |-> FALSE]
    BY <1>1 DEF inode_allocate
  <2>2. ~(id.length >= 0)
    BY <1>1
  <2>3. r.vol = v /\ r.id = id /\ r.success = FALSE
    BY <2>1
  <2> QED  BY <2>2, <2>3 DEF Kept
<1>2. CASE ~(id.length < 0)
  <2>0. id.length >= 0 /\ BLOCK_SECTOR_SIZE \in Nat \ {0}
    BY <1>2, SectorAssumption
  <2>1. PICK n : n = Blocks(id)
    OBVIOUS
  <2>2. n \in Nat
    BY <2>0, <2>1, RoundUp DEF Blocks
  <2>3. r = AllocateSectors(v, id, n)
    BY <1>2, <2>1 DEF inode_allocate, Blocks
  <2>4. PICK a, b, c : a = DirectStep(v, id, n) /\ b = IndirectStep(a, n) /\ c = DoublyStep(b, n)
    OBVIOUS
  <2>5. /\ Grows(v, a.vol) /\ Grows(a.vol, b.vol) /\ Grows(b.vol, c.vol) /\ c.id.length = id.length
    BY <2>2, <2>4, StepsGrow
  <2>6. Grows(v, c.vol)
    BY <2>5, GrowsOn
  <2>7. r = WithinCapacity(c, n)
    BY <2>3, <2>4 DEF AllocateSectors
  <2>8. /\ r.id = c.id /\ r.success = TRUE
        /\ r.vol = IF n <= Capacity THEN c.vol ELSE AssertFails(c.vol, "inode_allocate")
    BY <2>7 DEF WithinCapacity
  <2>9. CASE n <= Capacity
    BY <1>2, <2>5, <2>6, <2>8, <2>9 DEF Kept, Grows
  <2>10. CASE ~(n <= Capacity)
    <3>1. /\ r.vol.used = c.vol.used /\ r.vol.full = c.vol.full
          /\ r.vol.failed = c.vol.failed \cup {"inode_allocate"}
      BY <2>8, <2>10 DEF AssertFails, Volume
    <3> QED  BY <1>2, <2>5, <2>6, <2>8, <3>1 DEF Kept, Grows
  <2> QED  BY <2>9, <2>10
<1> QED  BY <1>1, <1>2

(* A file of n sectors needs what its three parts need. *)
LEMMA NeedsParts ==
    ASSUME NEW n \in Nat, NEW x \in Entries
    PROVE  Needs(n, x) <=> \/ x \in {0} \X (1 .. DirectPart(n))
                           \/ x \in NeedsLast(IndirectPart(n))
                           \/ x \in NeedsDoubly(DoublyPart(n))
<1>1. PICK a \in Rows, b \in Cols : x = <<a, b>>
  BY RowsAre
<1>2. x \in {0} \X (1 .. DirectPart(n)) <=> a = 0 /\ b \in 1 .. DirectPart(n)
  BY <1>1
<1>3. x \in NeedsLast(IndirectPart(n)) <=> a = LastRow /\ IndirectPart(n) > 0 /\ b <= IndirectPart(n)
  BY <1>1 DEF NeedsLast
<1>4. x \in NeedsDoubly(DoublyPart(n)) <=> NeedsDeep(DoublyPart(n), a, b)
  <2>1. PICK k, m : k = DoublyPart(n) /\ m = bytes_to_sectors(k, INDIRECT_INDEX_SECTOR_NUM)
    OBVIOUS
  <2>2. k \in 0 .. DoublyNum
    BY <2>1, Parts
  <2>3. m \in 0 .. INDIRECT_INDEX_SECTOR_NUM
    BY <2>1, <2>2, UnderTurns
  <2>4. NeedsDeep(k, a, b) => a \in 0 .. INDIRECT_INDEX_SECTOR_NUM
    BY <2>1, <2>3, RowsAre DEF NeedsDeep
  <2> QED  BY <1>1, <2>1, <2>4 DEF NeedsDoubly
<1> QED  BY <1>1, <1>2, <1>3, <1>4 DEF Needs

(* An allocation of id that succeeds provides for its length. *)
Allocated(v, id, r) == StepDone(v, id, r.vol, r.id, {x \in Entries : Needs(Blocks(id), x)})

(* inode_allocate, on a device that does not become full. *)
LEMMA AllocateDone ==
    ASSUME NEW v, IsVolume(v), v.failed = {}, NEW id, IsInode(id), Proper(v.used, Tree(v, id)),
           id.length >= 0, NEW r, r = inode_allocate(v, id), ~r.vol.full, r.vol.failed = {}
    PROVE  Allocated(v, id, r)
<1>1. PICK n : n = Blocks(id)
  OBVIOUS
<1>2. n \in Nat /\ id.length \in Int
  BY <1>1, RoundUp, SectorAssumption DEF Blocks, IsInode
<1>3. r = AllocateSectors(v, id, n)
  BY <1>1, <1>2 DEF inode_allocate, Blocks
<1>4. PICK a, b, c : a = DirectStep(v, id, n) /\ b = IndirectStep(a, n) /\ c = DoublyStep(b, n)
  OBVIOUS
<1>5. Grows(v, a.vol) /\ Grows(a.vol, b.vol) /\ Grows(b.vol, c.vol)
  BY <1>2, <1>4, StepsGrow
<1>6. r = WithinCapacity(c, n)
  BY <1>3, <1>4 DEF AllocateSectors
<1>7. r.id = c.id /\ r.vol = IF n <= Capacity THEN c.vol ELSE AssertFails(c.vol, "inode_allocate")
  BY <1>6 DEF WithinCapacity
<1>8. n <= Capacity
  <2> SUFFICES ASSUME ~(n <= Capacity) PROVE FALSE
    OBVIOUS
  <2>1. "inode_allocate" \in r.vol.failed
    BY <1>7 DEF AssertFails, Volume
  <2> QED  BY <2>1
<1>9. r.vol = c.vol /\ ~a.vol.full /\ ~b.vol.full /\ ~c.vol.full
  BY <1>5, <1>7, <1>8 DEF Grows
<1> DEFINE X == {0} \X (1 .. DirectPart(n))
           Y == NeedsLast(IndirectPart(n))
           Z == NeedsDoubly(DoublyPart(n))
<1>10. /\ DirectPart(n) \in 0 .. DIRECT_INDEX_NUM
       /\ IndirectPart(n) \in 0 .. INDIRECT_INDEX_SECTOR_NUM
       /\ DoublyPart(n) \in 0 .. DoublyNum
  BY <1>2, Parts
<1>11. StepDone(v, id, a.vol, a.id, X)
  BY <1>2, <1>4, <1>9, DirectAllocated
<1>12. IsVolume(a.vol) /\ IsInode(a.id) /\ Proper(a.vol.used, Tree(a.vol, a.id))
  BY <1>11, ExtendedProper DEF StepDone
<1>13. StepDone(a.vol, a.id, b.vol, b.id, Y)
  <2>1. PICK k : k = AllocateIndirect(a.vol, a.id.indirect, IndirectPart(n))
    OBVIOUS
  <2>2. b = Indirect(k, a.id)
    BY <1>4, <2>1 DEF IndirectStep
  <2>3. b.vol = k.vol
    BY <2>2 DEF Indirect
  <2> QED  BY <1>9, <1>10, <1>12, <2>1, <2>2, <2>3, IndirectStepDone
<1>14. IsVolume(b.vol) /\ IsInode(b.id) /\ Proper(b.vol.used, Tree(b.vol, b.id))
  BY <1>12, <1>13, ExtendedProper DEF StepDone
<1>15. StepDone(b.vol, b.id, c.vol, c.id, Z)
  <2>1. PICK k : k = AllocateDoubly(b.vol, b.id.doubly, DoublyPart(n))
    OBVIOUS
  <2>2. c = Doubly(k, b.id)
    BY <1>4, <2>1 DEF DoublyStep
  <2>3. c.vol = k.vol
    BY <2>2 DEF Doubly
  <2> QED  BY <1>9, <1>10, <1>14, <2>1, <2>2, <2>3, DoublyStepDone
<1> HIDE DEF X, Y, Z
<1>16. StepDone(v, id, b.vol, b.id, X \cup Y)
  BY <1>11, <1>13, StepsDone
<1>17. StepDone(v, id, c.vol, c.id, (X \cup Y) \cup Z)
  BY <1>15, <1>16, StepsDone
<1>18. \A x \in Entries : x \in (X \cup Y) \cup Z <=> x \in {y \in Entries : Needs(n, y)}
  BY <1>2, NeedsParts DEF X, Y, Z
<1>19. StepDone(v, id, c.vol, c.id, {y \in Entries : Needs(n, y)})
  BY <1>17, <1>18 DEF StepDone
<1> QED  BY <1>1, <1>7, <1>9, <1>19 DEF Allocated

(* The assertion at the end of inode_allocate. *)
LEMMA AllocateWithin ==
    ASSUME NEW v, NEW id, id.length \in Int, id.length >= 0, NEW r, r = inode_allocate(v, id),
           r.vol.failed = {}
    PROVE  Blocks(id) <= Capacity
<1>1. PICK n, c : n = Blocks(id) /\ c = DoublyStep(IndirectStep(DirectStep(v, id, n), n), n)
  OBVIOUS
<1>2. r = WithinCapacity(c, n)
  BY <1>1 DEF inode_allocate, AllocateSectors, Blocks
<1>3. r.vol = IF n <= Capacity THEN c.vol ELSE AssertFails(c.vol, "inode_allocate")
  BY <1>2 DEF WithinCapacity
<1> SUFFICES ASSUME ~(n <= Capacity) PROVE FALSE
  BY <1>1
<1>4. "inode_allocate" \in r.vol.failed
  BY <1>3 DEF AssertFails, Volume
<1> QED  BY <1>4

-----------------------------------------------------------------------------
(* inode_deallocate.                                                       *)

(* v without the sectors in R. *)
Freed(v, R) == Volume(v.used \ R, v.disk, v.full, v.failed)

(* Only the free map changes. *)
LEMMA FreedIs ==
    ASSUME NEW v, IsVolume(v), NEW R, 0 \notin R, NEW w, w = Freed(v, R)
    PROVE  /\ IsVolume(w) /\ w.used = v.used \ R /\ w.disk = v.disk
           /\ w.full = v.full /\ w.failed = v.failed
           /\ \A t : IndexAt(w, t) = IndexAt(v, t)
           /\ \A e, b : RowEntry(w, e, b) = RowEntry(v, e, b)
<1>1. /\ w.used = v.used \ R /\ w.disk = v.disk /\ w.full = v.full /\ w.failed = v.failed
      /\ w = Volume(w.used, w.disk, w.full, w.failed)
  BY DEF Freed, Volume
<1>2. \A t : IndexAt(w, t) = IndexAt(v, t)
  BY <1>1 DEF IndexAt
<1>3. \A e, b : RowEntry(w, e, b) = RowEntry(v, e, b)
  BY <1>2 DEF RowEntry
<1>4. IsVolume(w)
  BY <1>1, <1>2 DEF IsVolume
<1> QED  BY <1>1, <1>2, <1>3, <1>4

(* One release after another. *)
LEMMA FreedOn ==
    ASSUME NEW v, IsVolume(v), NEW R, NEW S, NEW T, v.used \ T = (v.used \ R) \ S
    PROVE  Freed(Freed(v, R), S) = Freed(v, T)
BY DEF Freed, Volume

(* Nothing released. *)
LEMMA FreedNothing ==
    ASSUME NEW v, IsVolume(v)
    PROVE  Freed(v, {}) = v
<1>1. v = Volume(v.used, v.disk, v.full, v.failed)
  BY DEF IsVolume
<1>2. v.used \ {} = v.used
  OBVIOUS
<1> QED  BY <1>1, <1>2 DEF Freed

(* free_map_release of a marked sector. *)
LEMMA FreedOne ==
    ASSUME NEW v, NEW s \in v.used
    PROVE  free_map_release(v, s) = Freed(v, {s})
BY DEF free_map_release, Freed

(* The first n of the blocks. *)
First(blocks, n) == {blocks[i] : i \in 1 .. n}

(* The loop at level 0. *)
LEMMA EntriesFreed ==
    ASSUME NEW v, IsVolume(v), NEW blocks, NEW n \in Nat,
           \A i \in 1 .. n : blocks[i] \in v.used /\ blocks[i] # 0,
           \A i, j \in 1 .. n : blocks[i] = blocks[j] => i = j
    PROVE  FreedEntries(v, blocks, n) = Freed(v, First(blocks, n))
<1>0. n = bytes_to_sectors(n, 1)
  BY RoundOne
<1>1. PICK f : /\ f[0] = v
               /\ \A i \in 1 .. n : f[i] = ReleaseEntry(f[i - 1], blocks[i], Lesser(1, n - (i - 1) * 1))
               /\ FreedEntries(v, blocks, n) = f[n]
  BY <1>0, FreeLoop
<1>2. \A i \in 1 .. n : f[i] = free_map_release(f[i - 1], blocks[i])
  BY <1>1 DEF ReleaseEntry
<1> DEFINE S == { i \in Nat : i <= n => f[i] = Freed(v, First(blocks, i)) }
<1>3. 0 \in S
  <2>1. First(blocks, 0) = {}
    BY DEF First
  <2> QED  BY <1>1, <2>1, FreedNothing
<1>4. ASSUME NEW i \in Nat, i \in S PROVE i + 1 \in S
  <2> SUFFICES ASSUME i + 1 <= n PROVE f[i + 1] = Freed(v, First(blocks, i + 1))
    OBVIOUS
  <2>1. i + 1 \in 1 .. n /\ (i + 1) - 1 = i /\ f[i] = Freed(v, First(blocks, i))
    BY <1>4
  <2>2. f[i + 1] = free_map_release(f[i], blocks[i + 1])
    BY <1>2, <2>1
  <2>3. \A k \in 1 .. i : k \in 1 .. n /\ k # i + 1
    BY <2>1
  <2>4. f[i].used = v.used \ First(blocks, i)
    BY <2>1 DEF Freed, Volume
  <2>5. blocks[i + 1] \in f[i].used
    BY <2>1, <2>3, <2>4 DEF First
  <2>6. f[i + 1] = Freed(f[i], {blocks[i + 1]})
    BY <2>2, <2>5, FreedOne
  <2>7. \A k : k \in 1 .. i + 1 <=> k \in 1 .. i \/ k = i + 1
    OBVIOUS
  <2>8. v.used \ First(blocks, i + 1) = (v.used \ First(blocks, i)) \ {blocks[i + 1]}
    BY <2>7 DEF First
  <2> QED  BY <2>1, <2>6, <2>8, FreedOn
<1>5. Nat \subseteq S
  BY <1>3, <1>4, SetInduction
<1> QED  BY <1>1, <1>5

(* An index block with its first n entries. *)
FreedRow(v, e, n) == {RowEntry(v, e, b) : b \in 0 .. n}

(* ReleaseIndirect. *)
LEMMA IndirectFreed ==
    ASSUME NEW v, IsVolume(v), NEW e, e # 0, NEW n \in 0 .. INDIRECT_INDEX_SECTOR_NUM,
           \A b \in 0 .. n : RowEntry(v, e, b) \in v.used /\ RowEntry(v, e, b) # 0,
           \A b, c \in 0 .. n : RowEntry(v, e, b) = RowEntry(v, e, c) => b = c
    PROVE  ReleaseIndirect(v, e, n) = Freed(v, FreedRow(v, e, n))
<1>0. n \in Nat /\ INDIRECT_INDEX_SECTOR_NUM \in Nat /\ n <= INDIRECT_INDEX_SECTOR_NUM
  BY ColsAre
<1>1. PICK blocks : blocks = IndexAt(v, e)
  OBVIOUS
<1>2. \A i \in 1 .. n : blocks[i] = RowEntry(v, e, i) /\ i \in 0 .. n
  BY <1>0, <1>1 DEF RowEntry
<1>3. RowEntry(v, e, 0) = e /\ 0 \in 0 .. n
  BY <1>0 DEF RowEntry
<1>4. /\ \A i \in 1 .. n : blocks[i] \in v.used /\ blocks[i] # 0 /\ blocks[i] # e
      /\ \A i, j \in 1 .. n : blocks[i] = blocks[j] => i = j
  <2>1. \A i \in 1 .. n : blocks[i] # e
    <3> TAKE i \in 1 .. n
    <3>1. i # 0
      OBVIOUS
    <3> QED  BY <1>2, <1>3, <3>1
  <2> QED  BY <1>2, <2>1
<1>5. PICK w : w = FreedEntries(v, blocks, n)
  OBVIOUS
<1>6. w = Freed(v, First(blocks, n))
  BY <1>0, <1>4, <1>5, EntriesFreed
<1>7. ReleaseIndirect(v, e, n) = free_map_release(w, e)
  BY <1>1, <1>5 DEF ReleaseIndirect, FreedEntries
<1>8. w.used = v.used \ First(blocks, n)
  BY <1>6 DEF Freed, Volume
<1>9. e \in w.used
  BY <1>3, <1>4, <1>8 DEF First
<1>10. free_map_release(w, e) = Freed(w, {e})
  BY <1>9, FreedOne
<1>11. \A b : b \in 0 .. n <=> b \in 1 .. n \/ b = 0
  BY <1>0
<1>12. v.used \ FreedRow(v, e, n) = (v.used \ First(blocks, n)) \ {e}
  BY <1>2, <1>3, <1>11 DEF First, FreedRow
<1>13. Freed(w, {e}) = Freed(v, FreedRow(v, e, n))
  BY <1>6, <1>12, FreedOn
<1> QED  BY <1>7, <1>10, <1>13

(* The first i rows below a block, as far as n sectors reach. *)
FreedRows(v, blocks, n, i) == UNION {FreedRow(v, blocks[a], Under(n, a)) : a \in 1 .. i}

(* The loop at level 1. *)
LEMMA RowsFreed ==
    ASSUME NEW v, IsVolume(v), NEW blocks, NEW n \in 0 .. DoublyNum, NEW m,
           m = bytes_to_sectors(n, INDIRECT_INDEX_SECTOR_NUM),
           \A a \in 1 .. m : \A b \in 0 .. Under(n, a) :
              RowEntry(v, blocks[a], b) \in v.used /\ RowEntry(v, blocks[a], b) # 0,
           \A a, c \in 1 .. m : \A b \in 0 .. Under(n, a), d \in 0 .. Under(n, c) :
              RowEntry(v, blocks[a], b) = RowEntry(v, blocks[c], d) => a = c /\ b = d
    PROVE  FreedIndirects(v, blocks, n)
              = Freed(v, FreedRows(v, blocks, n, m))
<1> DEFINE I == INDIRECT_INDEX_SECTOR_NUM
<1>0. n \in Nat /\ m \in 0 .. I /\ I \in Nat /\ \A i \in 1 .. m : Under(n, i) \in 1 .. I
  BY UnderTurns, ColsAre
<1>1. PICK f : /\ f[0] = v
               /\ \A i \in 1 .. m : f[i] = ReleaseIndirect(f[i - 1], blocks[i], Under(n, i))
               /\ FreedIndirects(v, blocks, n) = f[m]
  BY <1>0, FreeIndirectLoop
<1>2. \A i \in 1 .. m : f[i] = ReleaseIndirect(f[i - 1], blocks[i], Under(n, i))
  BY <1>1
<1> DEFINE S == { i \in Nat : i <= m => f[i] = Freed(v, FreedRows(v, blocks, n, i)) }
<1>3. 0 \in S
  <2>1. FreedRows(v, blocks, n, 0) = {}
    BY DEF FreedRows
  <2> QED  BY <1>1, <2>1, FreedNothing
<1>4. ASSUME NEW i \in Nat, i \in S PROVE i + 1 \in S
  <2> SUFFICES ASSUME i + 1 <= m PROVE f[i + 1] = Freed(v, FreedRows(v, blocks, n, i + 1))
    OBVIOUS
  <2>1. i + 1 \in 1 .. m /\ (i + 1) - 1 = i /\ f[i] = Freed(v, FreedRows(v, blocks, n, i))
    BY <1>0, <1>4
  <2>2. PICK e, k, w, R : /\ e = blocks[i + 1] /\ k = Under(n, i + 1) /\ w = f[i]
                          /\ R = FreedRows(v, blocks, n, i)
    OBVIOUS
  <2>3. f[i + 1] = ReleaseIndirect(w, e, k) /\ k \in 1 .. I
    BY <1>0, <1>2, <2>1, <2>2
  <2>4. \A a \in 1 .. i : a \in 1 .. m /\ a # i + 1
    BY <1>0, <2>1
  <2>5. \A x \in R : \E a \in 1 .. i : \E b \in 0 .. Under(n, a) : x = RowEntry(v, blocks[a], b)
    BY <2>2 DEF FreedRows, FreedRow
  <2>6. 0 \notin R
    BY <2>4, <2>5
  <2>7. /\ IsVolume(w) /\ w.used = v.used \ R
        /\ \A b : RowEntry(w, e, b) = RowEntry(v, e, b)
    BY <2>1, <2>2, <2>6, FreedIs
  <2>8. ASSUME NEW b \in 0 .. k PROVE RowEntry(w, e, b) \in w.used /\ RowEntry(w, e, b) # 0
    <3>1. RowEntry(v, e, b) \in v.used /\ RowEntry(v, e, b) # 0
      BY <2>1, <2>2
    <3>2. RowEntry(v, e, b) \notin R
      BY <2>1, <2>2, <2>4, <2>5
    <3> QED  BY <2>7, <3>1, <3>2
  <2>9. \A b, c \in 0 .. k : RowEntry(w, e, b) = RowEntry(w, e, c) => b = c
    BY <2>1, <2>2, <2>7
  <2>10. e # 0
    <3>1. RowEntry(w, e, 0) = e /\ 0 \in 0 .. k
      BY <1>0, <2>3 DEF RowEntry
    <3> QED  BY <2>8, <3>1
  <2>11. k \in 0 .. I
    BY <1>0, <2>3
  <2>12. f[i + 1] = Freed(w, FreedRow(w, e, k))
    BY <2>3, <2>7, <2>8, <2>9, <2>10, <2>11, IndirectFreed
  <2>13. FreedRow(w, e, k) = FreedRow(v, e, k)
    BY <2>7 DEF FreedRow
  <2>14. \A a : a \in 1 .. i + 1 <=> a \in 1 .. i \/ a = i + 1
    OBVIOUS
  <2>15. FreedRows(v, blocks, n, i + 1) = R \cup FreedRow(v, e, k)
    <3>1. PICK T : T = [a \in 1 .. i + 1 |-> FreedRow(v, blocks[a], Under(n, a))]
      OBVIOUS
    <3>2. /\ \A a \in 1 .. i + 1 : T[a] = FreedRow(v, blocks[a], Under(n, a))
          /\ T[i + 1] = FreedRow(v, e, k)
      BY <2>2, <3>1
    <3>3. FreedRows(v, blocks, n, i + 1) = UNION {T[a] : a \in 1 .. i + 1}
      BY <3>2 DEF FreedRows
    <3>4. R = UNION {T[a] : a \in 1 .. i}
      BY <2>2, <2>14, <3>2 DEF FreedRows
    <3> QED  BY <2>14, <3>2, <3>3, <3>4
  <2>16. v.used \ FreedRows(v, blocks, n, i + 1) = (v.used \ R) \ FreedRow(v, e, k)
    BY <2>15
  <2>17. Freed(Freed(v, R), FreedRow(v, e, k)) = Freed(v, FreedRows(v, blocks, n, i + 1))
    BY <2>16, FreedOn
  <2> QED  BY <2>1, <2>2, <2>12, <2>13, <2>17
<1>5. Nat \subseteq S
  BY <1>3, <1>4, SetInduction
<1> QED  BY <1>0, <1>1, <1>5

(* ReleaseDoubly. *)
LEMMA DoublyFreed ==
    ASSUME NEW v, IsVolume(v), NEW e \in v.used, e # 0, NEW n \in 0 .. DoublyNum, NEW m,
           m = bytes_to_sectors(n, INDIRECT_INDEX_SECTOR_NUM),
           \A a \in 1 .. m : \A b \in 0 .. Under(n, a) :
              /\ RowEntry(v, IndexAt(v, e)[a], b) \in v.used
              /\ RowEntry(v, IndexAt(v, e)[a], b) # 0 /\ RowEntry(v, IndexAt(v, e)[a], b) # e,
           \A a, c \in 1 .. m : \A b \in 0 .. Under(n, a), d \in 0 .. Under(n, c) :
              RowEntry(v, IndexAt(v, e)[a], b) = RowEntry(v, IndexAt(v, e)[c], d) => a = c /\ b = d
    PROVE  ReleaseDoubly(v, e, n) = Freed(v, FreedRows(v, IndexAt(v, e), n, m) \cup {e})
<1>1. PICK blocks : blocks = IndexAt(v, e)
  OBVIOUS
<1>2. PICK w, R : w = FreedIndirects(v, blocks, n) /\ R = FreedRows(v, blocks, n, m)
  OBVIOUS
<1>3. w = Freed(v, R)
  BY <1>1, <1>2, RowsFreed
<1>4. ReleaseDoubly(v, e, n) = free_map_release(w, e)
  BY <1>1, <1>2 DEF ReleaseDoubly, FreedIndirects
<1>5. \A x \in R : \E a \in 1 .. m : \E b \in 0 .. Under(n, a) : x = RowEntry(v, blocks[a], b)
  BY <1>2 DEF FreedRows, FreedRow
<1>6. e \notin R
  BY <1>1, <1>5
<1>7. w.used = v.used \ R
  BY <1>3 DEF Freed, Volume
<1>8. free_map_release(w, e) = Freed(w, {e})
  BY <1>6, <1>7, FreedOne
<1>9. v.used \ (R \cup {e}) = (v.used \ R) \ {e}
  OBVIOUS
<1>10. Freed(w, {e}) = Freed(v, R \cup {e})
  BY <1>3, <1>9, FreedOn
<1> QED  BY <1>1, <1>2, <1>4, <1>8, <1>10

(* The sectors at the entries in X. *)
Image(f, X) == {f[x] : x \in X}

(* What is at other entries is not released. *)
LEMMA StillMarked ==
    ASSUME NEW v, IsVolume(v), NEW f, Proper(v.used, f), NEW A, A \subseteq DOMAIN f,
           \A x \in A : f[x] # 0, NEW u, u = Freed(v, Image(f, A))
    PROVE  /\ IsVolume(u) /\ u.disk = v.disk
           /\ \A t : IndexAt(u, t) = IndexAt(v, t)
           /\ \A e, b : RowEntry(u, e, b) = RowEntry(v, e, b)
           /\ \A x \in DOMAIN f : f[x] # 0 /\ x \notin A => f[x] \in u.used
<1>1. 0 \notin Image(f, A)
  BY DEF Image
<1>2. /\ IsVolume(u) /\ u.disk = v.disk /\ u.used = v.used \ Image(f, A)
      /\ \A t : IndexAt(u, t) = IndexAt(v, t)
      /\ \A e, b : RowEntry(u, e, b) = RowEntry(v, e, b)
  BY <1>1, FreedIs
<1>3. ASSUME NEW x \in DOMAIN f, f[x] # 0, x \notin A PROVE f[x] \in u.used
  BY <1>2, <1>3 DEF Proper, Image
<1> QED  BY <1>2, <1>3

(* The entries that n sectors need, in the three parts. *)
NeedsDirect(n) == {0} \X (1 .. n)

(* DirectRelease. *)
LEMMA DirectReleased ==
    ASSUME NEW v, IsVolume(v), NEW id, IsInode(id), NEW n \in 0 .. DIRECT_INDEX_NUM,
           NEW f, f = Tree(v, id), Proper(v.used, f), \A x \in NeedsDirect(n) : f[x] # 0
    PROVE  /\ FreedEntries(v, id.direct, n) = Freed(v, Image(f, NeedsDirect(n)))
           /\ NeedsDirect(n) \subseteq DOMAIN f
<1>0. n \in Nat /\ DIRECT_INDEX_NUM \in Nat /\ n <= DIRECT_INDEX_NUM
  BY ColsAre
<1>1. ASSUME NEW i \in 1 .. n
      PROVE  /\ <<0, i>> \in DOMAIN f /\ <<0, i>> \in NeedsDirect(n)
             /\ f[<<0, i>>] = id.direct[i]
  <2>1. 0 \in Rows /\ i \in Cols /\ i # 0 /\ ~(i > DIRECT_INDEX_NUM)
    BY <1>0, ColsAre, RowsAre
  <2>2. <<0, i>> \in DOMAIN f /\ f[<<0, i>>] = TreeEntry(v, id, 0, i)
    BY <2>1, TreeAt
  <2>3. TreeEntry(v, id, 0, i) = id.direct[i]
    BY <2>1 DEF TreeEntry, TopEntry
  <2> QED  BY <2>2, <2>3 DEF NeedsDirect
<1>2. \A x \in NeedsDirect(n) : \E i \in 1 .. n : x = <<0, i>>
  BY DEF NeedsDirect
<1>3. NeedsDirect(n) \subseteq DOMAIN f
  BY <1>1, <1>2
<1>4. ASSUME NEW i \in 1 .. n PROVE id.direct[i] \in v.used /\ id.direct[i] # 0
  BY <1>1 DEF Proper
<1>5. ASSUME NEW i \in 1 .. n, NEW j \in 1 .. n, id.direct[i] = id.direct[j] PROVE i = j
  <2>1. <<0, i>> = <<0, j>>
    BY <1>1, <1>4, <1>5 DEF Proper
  <2> QED  BY <2>1
<1>6. FreedEntries(v, id.direct, n) = Freed(v, First(id.direct, n))
  BY <1>0, <1>4, <1>5, EntriesFreed
<1>7. First(id.direct, n) = Image(f, NeedsDirect(n))
  <2>1. ASSUME NEW x \in First(id.direct, n) PROVE x \in Image(f, NeedsDirect(n))
    <3>1. PICK i \in 1 .. n : x = id.direct[i]
      BY <2>1 DEF First
    <3>2. <<0, i>> \in NeedsDirect(n) /\ f[<<0, i>>] = x
      BY <1>1, <3>1
    <3> QED  BY <3>2 DEF Image
  <2>2. ASSUME NEW x \in Image(f, NeedsDirect(n)) PROVE x \in First(id.direct, n)
    <3>1. PICK y \in NeedsDirect(n) : x = f[y]
      BY <2>2 DEF Image
    <3>2. PICK i \in 1 .. n : y = <<0, i>>
      BY <1>2
    <3> QED  BY <1>1, <3>1, <3>2 DEF First
  <2> QED  BY <2>1, <2>2
<1> QED  BY <1>3, <1>6, <1>7

(* IndirectRelease, after the direct part. *)
LEMMA IndirectReleased ==
    ASSUME NEW v, IsVolume(v), NEW id, NEW n \in 1 .. INDIRECT_INDEX_SECTOR_NUM,
           NEW f, f = Tree(v, id), Proper(v.used, f),
           NEW A, A \subseteq DOMAIN f, \A x \in A : f[x] # 0,
           \A x \in NeedsLast(n) : f[x] # 0 /\ x \notin A,
           NEW u, u = Freed(v, Image(f, A))
    PROVE  ReleaseIndirect(u, id.indirect, n) = Freed(u, Image(f, NeedsLast(n)))
<1>0. n \in Nat /\ n > 0 /\ n \in 0 .. INDIRECT_INDEX_SECTOR_NUM /\ n <= INDIRECT_INDEX_SECTOR_NUM
      /\ INDIRECT_INDEX_SECTOR_NUM \in Nat
  BY ColsAre
<1>1. /\ IsVolume(u) /\ \A e, b : RowEntry(u, e, b) = RowEntry(v, e, b)
      /\ \A x \in DOMAIN f : f[x] # 0 /\ x \notin A => f[x] \in u.used
  BY StillMarked
<1>2. PICK e : e = id.indirect
  OBVIOUS
<1>3. ASSUME NEW b \in 0 .. n
      PROVE  /\ <<LastRow, b>> \in DOMAIN f /\ <<LastRow, b>> \in NeedsLast(n)
             /\ f[<<LastRow, b>>] = RowEntry(u, e, b)
  <2>1. b \in Cols /\ LastRow \in Rows /\ b <= n
    BY <1>0, ColsAre, RowsAre
  <2>2. /\ <<LastRow, b>> \in Entries /\ DOMAIN f = Entries
        /\ f[<<LastRow, b>>] = TreeEntry(v, id, LastRow, b)
    BY <2>1, TreeAt
  <2>3. TreeEntry(v, id, LastRow, b) = RowEntry(v, e, b)
    BY <1>2, RowsAre DEF TreeEntry, Node
  <2>4. <<LastRow, b>> \in NeedsLast(n)
    BY <1>0, <2>1, <2>2 DEF NeedsLast
  <2> QED  BY <1>1, <2>2, <2>3, <2>4
<1>4. ASSUME NEW x \in NeedsLast(n) PROVE \E b \in 0 .. n : x = <<LastRow, b>>
  <2>1. PICK a \in Rows, b \in Cols : x = <<a, b>>
    BY RowsAre DEF NeedsLast
  <2>2. a = LastRow /\ b <= n /\ b \in Nat
    BY <2>1, ColsAre DEF NeedsLast
  <2> QED  BY <1>0, <2>1, <2>2
<1>5. ASSUME NEW b \in 0 .. n PROVE RowEntry(u, e, b) \in u.used /\ RowEntry(u, e, b) # 0
  BY <1>1, <1>3
<1>6. ASSUME NEW b \in 0 .. n, NEW c \in 0 .. n, RowEntry(u, e, b) = RowEntry(u, e, c) PROVE b = c
  <2>1. <<LastRow, b>> = <<LastRow, c>>
    BY <1>3, <1>5, <1>6 DEF Proper
  <2> QED  BY <2>1
<1>7. e # 0
  <2>1. RowEntry(u, e, 0) = e /\ 0 \in 0 .. n
    BY <1>0 DEF RowEntry
  <2> QED  BY <1>5, <2>1
<1>8. ReleaseIndirect(u, e, n) = Freed(u, FreedRow(u, e, n))
  BY <1>0, <1>1, <1>5, <1>6, <1>7, IndirectFreed
<1>9. FreedRow(u, e, n) = Image(f, NeedsLast(n))
  BY <1>3, <1>4 DEF FreedRow, Image
<1> QED  BY <1>2, <1>8, <1>9

(* DoublyRelease, after the other two parts. *)
LEMMA DoublyReleased ==
    ASSUME NEW v, IsVolume(v), NEW id, NEW n \in 1 .. DoublyNum,
           NEW f, f = Tree(v, id), Proper(v.used, f),
           NEW A, A \subseteq DOMAIN f, \A x \in A : f[x] # 0,
           \A x \in NeedsDoubly(n) : f[x] # 0 /\ x \notin A,
           NEW u, u = Freed(v, Image(f, A))
    PROVE  ReleaseDoubly(u, id.doubly, n) = Freed(u, Image(f, NeedsDoubly(n)))
<1> DEFINE I == INDIRECT_INDEX_SECTOR_NUM
<1>m. PICK m : m = bytes_to_sectors(n, I)
  OBVIOUS
<1>0. n \in 0 .. DoublyNum /\ n > 0 /\ I \in Nat
  BY ColsAre
<1>1. m \in 0 .. I /\ \A a \in 1 .. m : Under(n, a) \in 1 .. I
  BY <1>0, <1>m, UnderTurns
<1>2. /\ IsVolume(u)
      /\ \A t : IndexAt(u, t) = IndexAt(v, t)
      /\ \A e, b : RowEntry(u, e, b) = RowEntry(v, e, b)
      /\ \A x \in DOMAIN f : f[x] # 0 /\ x \notin A => f[x] \in u.used
  BY StillMarked
<1>3. PICK e, blocks : e = id.doubly /\ blocks = IndexAt(u, e)
  OBVIOUS
<1>4. /\ <<0, 0>> \in DOMAIN f /\ <<0, 0>> \in NeedsDoubly(n) /\ f[<<0, 0>>] = e
  <2>1. 0 \in Rows /\ 0 \in Cols /\ 0 \in 0 .. I
    BY <1>0, RowsAre, ColsAre
  <2>2. <<0, 0>> \in Entries /\ DOMAIN f = Entries /\ f[<<0, 0>>] = TreeEntry(v, id, 0, 0)
    BY <2>1, TreeAt
  <2>3. NeedsDeep(n, 0, 0)
    BY <1>0 DEF NeedsDeep
  <2> QED  BY <1>3, <2>1, <2>2, <2>3, TreeNodes DEF NeedsDoubly
<1>5. e # 0 /\ e \in u.used
  BY <1>2, <1>4
<1>6. ASSUME NEW a \in 1 .. m, NEW b \in 0 .. Under(n, a)
      PROVE  /\ <<a, b>> \in DOMAIN f /\ <<a, b>> \in NeedsDoubly(n)
             /\ f[<<a, b>>] = RowEntry(u, blocks[a], b)
  <2>1. Under(n, a) \in 1 .. I
    BY <1>1
  <2>2. a \in 1 .. I /\ a # 0 /\ b \in 0 .. I /\ b <= Under(n, a) /\ a \in 0 .. I
    BY <1>0, <1>1, <2>1
  <2>3. a \in Rows /\ b \in Cols
    BY <2>2, RowsAre, ColsAre
  <2>4. <<a, b>> \in Entries /\ DOMAIN f = Entries /\ f[<<a, b>>] = TreeEntry(v, id, a, b)
    BY <2>3, TreeAt
  <2>5. TreeEntry(v, id, a, b) = DeepEntry(v, e, a, b)
    <3>1. \A j \in 1 .. I : \A k : TreeEntry(v, id, j, k) = DeepEntry(v, id.doubly, j, k)
      BY TreeNodes
    <3> QED  BY <1>3, <2>2, <3>1
  <2>6. DeepEntry(v, e, a, b) = RowEntry(v, blocks[a], b)
    BY <1>2, <1>3, <1>5, <2>2, DeepRows
  <2>7. NeedsDeep(n, a, b)
    BY <1>0, <1>m, <2>2 DEF NeedsDeep
  <2> QED  BY <1>2, <2>2, <2>4, <2>5, <2>6, <2>7 DEF NeedsDoubly
<1>7. ASSUME NEW x \in NeedsDoubly(n)
      PROVE  x = <<0, 0>> \/ \E a \in 1 .. m : \E b \in 0 .. Under(n, a) : x = <<a, b>>
  <2>1. PICK a \in Rows, b \in Cols : x = <<a, b>>
    BY RowsAre DEF NeedsDoubly
  <2>2. NeedsDeep(n, a, b) /\ b \in Nat
    BY <2>1, ColsAre DEF NeedsDoubly
  <2>3. CASE a = 0 /\ b = 0
    BY <2>1, <2>3
  <2>4. CASE a \in 1 .. m /\ b <= Under(n, a)
    <3>1. Under(n, a) \in Nat
      BY <1>1, <2>4
    <3> QED  BY <2>1, <2>2, <2>4, <3>1
  <2> QED  BY <1>m, <2>2, <2>3, <2>4 DEF NeedsDeep
<1>8. ASSUME NEW a \in 1 .. m, NEW b \in 0 .. Under(n, a)
      PROVE  /\ RowEntry(u, blocks[a], b) \in u.used
             /\ RowEntry(u, blocks[a], b) # 0 /\ RowEntry(u, blocks[a], b) # e
  <2>1. <<a, b>> # <<0, 0>>
    BY <1>1
  <2>2. f[<<a, b>>] # 0 /\ <<a, b>> \notin A
    BY <1>6
  <2>3. f[<<a, b>>] # f[<<0, 0>>]
    BY <1>4, <1>6, <2>1, <2>2 DEF Proper
  <2> QED  BY <1>2, <1>4, <1>6, <2>2, <2>3
<1>9. ASSUME NEW a \in 1 .. m, NEW c \in 1 .. m, NEW b \in 0 .. Under(n, a), NEW d \in 0 .. Under(n, c),
             RowEntry(u, blocks[a], b) = RowEntry(u, blocks[c], d)
      PROVE  a = c /\ b = d
  <2>1. <<a, b>> \in DOMAIN f /\ f[<<a, b>>] = RowEntry(u, blocks[a], b) /\ f[<<a, b>>] # 0
    BY <1>6
  <2>2. <<c, d>> \in DOMAIN f /\ f[<<c, d>>] = RowEntry(u, blocks[c], d)
    BY <1>6
  <2>3. <<a, b>> = <<c, d>>
    BY <1>9, <2>1, <2>2 DEF Proper
  <2> QED  BY <2>3
<1>10. ReleaseDoubly(u, e, n) = Freed(u, FreedRows(u, blocks, n, m) \cup {e})
  BY <1>0, <1>2, <1>3, <1>5, <1>8, <1>9, <1>m, DoublyFreed
<1>11. FreedRows(u, blocks, n, m) \cup {e} = Image(f, NeedsDoubly(n))
  <2>1. \A x \in FreedRows(u, blocks, n, m) :
           \E a \in 1 .. m : \E b \in 0 .. Under(n, a) : x = RowEntry(u, blocks[a], b)
    BY DEF FreedRows, FreedRow
  <2>2. \A a \in 1 .. m : \A b \in 0 .. Under(n, a) :
           RowEntry(u, blocks[a], b) \in FreedRows(u, blocks, n, m)
    BY DEF FreedRows, FreedRow
  <2>3. ASSUME NEW x \in FreedRows(u, blocks, n, m) \cup {e} PROVE x \in Image(f, NeedsDoubly(n))
    <3>1. CASE x = e
      BY <1>4, <3>1 DEF Image
    <3>2. CASE x # e
      <4>a. PICK a \in 1 .. m : \E b \in 0 .. Under(n, a) : x = RowEntry(u, blocks[a], b)
        BY <2>1, <2>3, <3>2
      <4>1. PICK b \in 0 .. Under(n, a) : x = RowEntry(u, blocks[a], b)
        BY <4>a
      <4>2. <<a, b>> \in NeedsDoubly(n) /\ f[<<a, b>>] = x
        BY <1>6, <4>1
      <4> QED  BY <4>2 DEF Image
    <3> QED  BY <3>1, <3>2
  <2>4. ASSUME NEW x \in Image(f, NeedsDoubly(n)) PROVE x \in FreedRows(u, blocks, n, m) \cup {e}
    <3>1. PICK y \in NeedsDoubly(n) : x = f[y]
      BY <2>4 DEF Image
    <3> QED  BY <1>4, <1>6, <1>7, <2>2, <3>1
  <2> QED  BY <2>3, <2>4
<1> QED  BY <1>3, <1>10, <1>11

(* The sectors of a file of n sectors. *)
Needed(n) == {x \in Entries : Needs(n, x)}

(* ReleaseSectors gives back exactly those that a file of n sectors needs. *)
LEMMA SectorsFreed ==
    ASSUME NEW v, IsVolume(v), NEW id, IsInode(id), NEW n \in Nat,
           Proper(v.used, Tree(v, id)), Covered(v, id, n)
    PROVE  ReleaseSectors(v, id, n) = Freed(v, Image(Tree(v, id), Needed(n)))
<1>1. PICK f, i, j, k : /\ f = Tree(v, id) /\ i = DirectPart(n) /\ j = IndirectPart(n)
                        /\ k = DoublyPart(n)
  OBVIOUS
<1>2. i \in 0 .. DIRECT_INDEX_NUM /\ j \in 0 .. INDIRECT_INDEX_SECTOR_NUM /\ k \in 0 .. DoublyNum
  BY <1>1, Parts
<1>3. PICK A, B, C : A = NeedsDirect(i) /\ B = NeedsLast(j) /\ C = NeedsDoubly(k)
  OBVIOUS
<1>4. \A x \in Entries : x \in Needed(n) <=> x \in A \/ x \in B \/ x \in C
  BY <1>1, <1>3, NeedsParts DEF Needed, NeedsDirect
<1>5. DOMAIN f = Entries /\ \A x \in Needed(n) : f[x] # 0
  BY <1>1 DEF Tree, Covered, Needed
<1>6. A \subseteq Entries /\ B \subseteq Entries /\ C \subseteq Entries
  <2>1. i <= DIRECT_INDEX_NUM /\ 0 \in Rows /\ \A b \in 1 .. i : b \in Cols
    BY <1>2, ColsAre, RowsAre
  <2>2. A \subseteq Entries
    BY <1>3, <2>1, RowsAre DEF NeedsDirect
  <2> QED  BY <1>3, <2>2 DEF NeedsLast, NeedsDoubly
<1>7. \A x \in A \cup B \cup C : f[x] # 0
  BY <1>4, <1>5, <1>6
<1>8. \A x \in B : x \notin A
  BY <1>3, RowsAre DEF NeedsDirect, NeedsLast
<1>9. \A x \in C : x \notin A /\ x \notin B
  <2> SUFFICES ASSUME NEW x \in C PROVE x \notin A /\ x \notin B
    OBVIOUS
  <2>1. x[1] \in 0 .. INDIRECT_INDEX_SECTOR_NUM /\ NeedsDeep(k, x[1], x[2])
    BY <1>3 DEF NeedsDoubly
  <2>2. x \notin B
    BY <1>3, <2>1, RowsAre DEF NeedsLast
  <2>3. ASSUME x \in A PROVE FALSE
    <3>1. x[1] = 0 /\ x[2] \in 1 .. i
      BY <1>3, <2>3 DEF NeedsDirect
    <3>2. x[2] # 0
      BY <3>1
    <3>3. 0 \notin 1 .. bytes_to_sectors(k, INDIRECT_INDEX_SECTOR_NUM)
      OBVIOUS
    <3> QED  BY <2>1, <3>1, <3>2, <3>3 DEF NeedsDeep
  <2> QED  BY <2>2, <2>3
<1>10. PICK a, b, c :
          a = DirectRelease(v, id, n) /\ b = IndirectRelease(a, id, n) /\ c = DoublyRelease(b, id, n)
  OBVIOUS
<1>11. Proper(v.used, f)
  BY <1>1
<1>12. a = Freed(v, Image(f, A))
  <2>1. a = FreedEntries(v, id.direct, i)
    BY <1>1, <1>10 DEF DirectRelease, FreedEntries
  <2> QED  BY <1>1, <1>2, <1>3, <1>7, <1>11, <2>1, DirectReleased
<1>13. b = Freed(v, Image(f, A \cup B))
  <2>1. CASE j > 0
    <3>1. b = ReleaseIndirect(a, id.indirect, j)
      BY <1>1, <1>10, <2>1 DEF IndirectRelease
    <3>2. j \in 1 .. INDIRECT_INDEX_SECTOR_NUM /\ A \subseteq DOMAIN f
      BY <1>2, <1>5, <1>6, <2>1
    <3>3. \A x \in A : f[x] # 0
      BY <1>7
    <3>4. \A x \in NeedsLast(j) : f[x] # 0 /\ x \notin A
      BY <1>3, <1>7, <1>8
    <3>5. b = Freed(a, Image(f, B))
      BY <1>1, <1>3, <1>11, <1>12, <3>1, <3>2, <3>3, <3>4, IndirectReleased
    <3>6. v.used \ Image(f, A \cup B) = (v.used \ Image(f, A)) \ Image(f, B)
      BY DEF Image
    <3>7. PICK R, S, T : R = Image(f, A) /\ S = Image(f, B) /\ T = Image(f, A \cup B)
      OBVIOUS
    <3>8. v.used \ T = (v.used \ R) \ S
      BY <3>6, <3>7
    <3>9. Freed(Freed(v, R), S) = Freed(v, T)
      BY <3>8, FreedOn
    <3> QED  BY <1>12, <3>5, <3>7, <3>9
  <2>2. CASE ~(j > 0)
    <3>1. B = {}
      BY <1>3, <2>2 DEF NeedsLast
    <3>2. b = a /\ A \cup B = A
      BY <1>1, <1>10, <2>2, <3>1 DEF IndirectRelease
    <3> QED  BY <1>12, <3>2
  <2> QED  BY <2>1, <2>2
<1>14. c = Freed(v, Image(f, (A \cup B) \cup C))
  <2>1. CASE k > 0
    <3>1. c = ReleaseDoubly(b, id.doubly, k)
      BY <1>1, <1>10, <2>1 DEF DoublyRelease
    <3>2. k \in 1 .. DoublyNum /\ A \cup B \subseteq DOMAIN f
      BY <1>2, <1>5, <1>6, <2>1
    <3>3. \A x \in A \cup B : f[x] # 0
      BY <1>7
    <3>4. \A x \in NeedsDoubly(k) : f[x] # 0 /\ x \notin A \cup B
      BY <1>3, <1>7, <1>9
    <3>5. c = Freed(b, Image(f, C))
      BY <1>1, <1>3, <1>11, <1>13, <3>1, <3>2, <3>3, <3>4, DoublyReleased
    <3>6. v.used \ Image(f, (A \cup B) \cup C) = (v.used \ Image(f, A \cup B)) \ Image(f, C)
      BY DEF Image
    <3>7. PICK R, S, T : R = Image(f, A \cup B) /\ S = Image(f, C) /\ T = Image(f, (A \cup B) \cup C)
      OBVIOUS
    <3>8. v.used \ T = (v.used \ R) \ S
      BY <3>6, <3>7
    <3>9. Freed(Freed(v, R), S) = Freed(v, T)
      BY <3>8, FreedOn
    <3> QED  BY <1>13, <3>5, <3>7, <3>9
  <2>2. CASE ~(k > 0)
    <3>1. C = {}
      BY <1>3, <2>2 DEF NeedsDoubly, NeedsDeep
    <3>2. c = b /\ (A \cup B) \cup C = A \cup B
      BY <1>1, <1>10, <2>2, <3>1 DEF DoublyRelease
    <3> QED  BY <1>13, <3>2
  <2> QED  BY <2>1, <2>2
<1>15. Needed(n) = (A \cup B) \cup C
  BY <1>4, <1>6 DEF Needed
<1>16. ReleaseSectors(v, id, n) = c
  BY <1>10 DEF ReleaseSectors
<1> QED  BY <1>1, <1>14, <1>15, <1>16

-----------------------------------------------------------------------------
(* Volumes with several inodes.                                            *)

(* Inodes with the same entries have the same tree. *)
LEMMA SameTree ==
    ASSUME NEW v, NEW id, NEW jd, SameEntries(id, jd)
    PROVE  Tree(v, id) = Tree(v, jd)
<1>1. \A a : Node(v, id, a) = Node(v, jd, a)
  BY DEF SameEntries, Node
<1>2. \A b : TopEntry(id, b) = TopEntry(jd, b)
  BY DEF SameEntries, TopEntry
<1>3. \A a, b : TreeEntry(v, id, a, b) = TreeEntry(v, jd, a, b)
  BY <1>1, <1>2 DEF TreeEntry
<1> QED  BY <1>3 DEF Tree

(* The tree is unchanged when none of its sectors is written. *)
LEMMA FrameTree ==
    ASSUME NEW v, NEW w, NEW id,
           \A x \in Entries : Tree(v, id)[x] # 0 => w.disk[Tree(v, id)[x]] = v.disk[Tree(v, id)[x]]
    PROVE  Tree(w, id) = Tree(v, id)
<1>0. PICK f, e : f = Tree(v, id) /\ e = id.doubly
  OBVIOUS
<1>1. e # 0 => w.disk[e] = v.disk[e]
  <2>1. 0 \in Rows /\ 0 \in Cols
    BY RowsAre, ColsAre
  <2>2. <<0, 0>> \in Entries /\ f[<<0, 0>>] = TreeEntry(v, id, 0, 0)
    BY <1>0, <2>1, TreeAt
  <2>3. f[<<0, 0>>] = e
    BY <1>0, <2>2, TreeNodes
  <2> QED  BY <1>0, <2>2, <2>3
<1>2. \A a : Node(w, id, a) = Node(v, id, a)
  <2>1. e # 0 => IndexAt(w, e) = IndexAt(v, e)
    BY <1>1 DEF IndexAt
  <2> QED  BY <1>0, <2>1 DEF Node
<1>3. ASSUME NEW a \in Rows, NEW b \in Cols PROVE TreeEntry(w, id, a, b) = TreeEntry(v, id, a, b)
  <2>1. CASE a = 0
    BY <2>1 DEF TreeEntry
  <2>2. CASE a # 0
    <3>1. a \in 1 .. LastRow /\ 0 \in Cols
      BY <2>2, RowsAre, ColsAre
    <3>2. PICK d : d = Node(v, id, a)
      OBVIOUS
    <3>3. <<a, 0>> \in Entries /\ f[<<a, 0>>] = TreeEntry(v, id, a, 0)
      BY <1>0, <3>1, TreeAt
    <3>4. f[<<a, 0>>] = d
      BY <3>1, <3>2, <3>3, TreeNodes
    <3>5. d # 0 => w.disk[d] = v.disk[d]
      BY <1>0, <3>3, <3>4
    <3>6. Node(v, id, a) = d /\ Node(w, id, a) = d
      BY <1>2, <3>2
    <3>7. RowEntry(w, d, b) = RowEntry(v, d, b)
      <4>1. d # 0 => IndexAt(w, d) = IndexAt(v, d)
        BY <3>5 DEF IndexAt
      <4> QED  BY <4>1 DEF RowEntry
    <3> QED  BY <2>2, <3>6, <3>7 DEF TreeEntry
  <2> QED  BY <2>1, <2>2
<1>4. PICK g : g = Tree(w, id)
  OBVIOUS
<1>5. DOMAIN f = Entries /\ DOMAIN g = Entries
  BY <1>0, <1>4 DEF Tree
<1>6. ASSUME NEW x \in Entries PROVE g[x] = f[x]
  <2>1. PICK a \in Rows, b \in Cols : x = <<a, b>>
    BY RowsAre
  <2>2. f[x] = TreeEntry(v, id, a, b) /\ g[x] = TreeEntry(w, id, a, b)
    BY <1>0, <1>4, <2>1, TreeAt
  <2> QED  BY <1>3, <2>2
<1>7. f = [x \in Entries |-> f[x]] /\ g = [x \in Entries |-> g[x]]
  BY <1>0, <1>4 DEF Tree
<1> QED  BY <1>0, <1>4, <1>6, <1>7

(* The tree of every inode of a sound volume is proper. *)
LEMMA SoundProper ==
    ASSUME NEW v, NEW ids, Sound(v, ids), NEW s \in DOMAIN ids
    PROVE  Proper(v.used, Tree(v, ids[s]))
<1>1. DOMAIN Tree(v, ids[s]) = Entries
  BY DEF Tree
<1> QED  BY <1>1 DEF Sound, Proper

(* ids with id as the inode in sector s. *)
With(ids, s, id) == [t \in DOMAIN ids \cup {s} |-> IF t = s THEN id ELSE ids[t]]

(* The inode in s has grown to id: its new entries are sectors that were free, *)
(* the entries in X are all there, and nothing else has changed.               *)
GrownTo(v, ids, s, w, id, X) ==
    /\ Sound(w, With(ids, s, id))
    /\ w.disk[s] = id
    /\ \A t \in DOMAIN ids : t # s => w.disk[t] = v.disk[t] /\ Tree(w, ids[t]) = Tree(v, ids[t])
    /\ Extended(v.used, Tree(v, ids[s]), w.used, Tree(w, id))
    /\ \A x \in Entries : IF x \in X THEN Tree(w, id)[x] # 0 ELSE Tree(w, id)[x] = Tree(v, ids[s])[x]

(* An inode is allocated sectors and written to its sector. *)
LEMMA SoundGrown ==
    ASSUME NEW v, NEW ids, Sound(v, ids), NEW s \in DOMAIN ids, NEW id, NEW u, NEW jd, NEW X,
           Tree(v, id) = Tree(v, ids[s]), StepDone(v, id, u, jd, X),
           NEW w, w = cache_write(u, s, jd)
    PROVE  GrownTo(v, ids, s, w, jd, X) /\ w.failed = u.failed /\ w.full = u.full
<1>1. PICK f, g, D : f = Tree(v, id) /\ g = Tree(u, jd) /\ D = DOMAIN ids
  OBVIOUS
<1>2. /\ IsVolume(u) /\ IsInode(jd) /\ Extended(v.used, f, u.used, g)
      /\ \A x \in Entries : IF x \in X THEN g[x] # 0 ELSE g[x] = f[x]
      /\ \A t \in v.used : (\A x \in Entries : t # f[x] \/ t = 0) => u.disk[t] = v.disk[t]
  BY <1>1 DEF StepDone
<1>3. /\ IsVolume(v) /\ D \subseteq v.used /\ v.used \subseteq Sectors /\ s \in D
      /\ \A t \in D : IsInode(ids[t])
      /\ \A t \in D, x \in Entries : Tree(v, ids[t])[x] # 0 => Tree(v, ids[t])[x] \in v.used \ D
      /\ \A t, c \in D, x, y \in Entries :
            Tree(v, ids[t])[x] = Tree(v, ids[c])[y] /\ Tree(v, ids[t])[x] # 0 => t = c /\ x = y
  BY <1>1 DEF Sound, IsVolume
<1>4. f = Tree(v, ids[s]) /\ DOMAIN f = Entries /\ DOMAIN g = Entries
  BY <1>1 DEF Tree
<1>5. jd.kind = "inode"
  BY <1>2 DEF IsInode, InodeDisk
<1>6. Written(u, s, jd, w)
  BY <1>2, <1>3, <1>5, Writes
<1>7. /\ IsVolume(w) /\ w.used = u.used /\ w.failed = u.failed /\ w.full = u.full /\ w.disk[s] = jd
      /\ \A t \in Sectors : t # s => w.disk[t] = u.disk[t]
  BY <1>6 DEF Written
<1>8. v.used \subseteq u.used /\ u.used \subseteq Sectors
  BY <1>2 DEF Extended, IsVolume
<1>9. ASSUME NEW x \in Entries, g[x] # 0
      PROVE  /\ g[x] \in u.used \ D
             /\ g[x] \in v.used => f[x] = g[x]
  <2>1. CASE f[x] # 0
    <3>1. g[x] = f[x]
      BY <1>2, <1>4, <2>1 DEF Extended
    <3>2. f[x] \in v.used \ D
      BY <1>3, <1>4, <2>1
    <3> QED  BY <1>8, <3>1, <3>2
  <2>2. CASE f[x] = 0
    <3>1. g[x] \in u.used /\ g[x] \notin v.used
      BY <1>2, <1>4, <1>9, <2>2 DEF Extended
    <3> QED  BY <1>3, <3>1
  <2> QED  BY <2>1, <2>2
<1>10. Tree(w, jd) = g
  <2>1. ASSUME NEW x \in Entries, g[x] # 0 PROVE w.disk[g[x]] = u.disk[g[x]]
    BY <1>3, <1>7, <1>8, <1>9, <2>1
  <2> QED  BY <1>1, <2>1, FrameTree
<1>11. ASSUME NEW t \in D, t # s PROVE w.disk[t] = v.disk[t]
  <2>1. t \in v.used /\ t \in Sectors
    BY <1>3
  <2>2. \A x \in Entries : t # f[x] \/ t = 0
    BY <1>3, <1>4
  <2>3. u.disk[t] = v.disk[t]
    BY <1>2, <2>1, <2>2
  <2> QED  BY <1>7, <1>11, <2>1, <2>3
<1>12. ASSUME NEW t \in D, t # s PROVE Tree(w, ids[t]) = Tree(v, ids[t])
  <2>1. PICK h, kd : h = Tree(v, ids[t]) /\ kd = ids[t]
    OBVIOUS
  <2>2. ASSUME NEW x \in Entries, h[x] # 0 PROVE w.disk[h[x]] = v.disk[h[x]]
    <3>1. PICK y : y = h[x]
      OBVIOUS
    <3>2. y \in v.used /\ y \in Sectors /\ y # s
      BY <1>3, <2>1, <2>2, <3>1
    <3>3. \A z \in Entries : y # f[z]
      BY <1>3, <1>4, <1>12, <2>1, <2>2, <3>1
    <3>4. u.disk[y] = v.disk[y]
      BY <1>2, <3>2, <3>3
    <3> QED  BY <1>7, <3>1, <3>2, <3>4
  <2>3. Tree(w, kd) = Tree(v, kd)
    BY <2>1, <2>2, FrameTree
  <2> QED  BY <2>1, <2>3
<1>13. PICK jds : jds = With(ids, s, jd)
  OBVIOUS
<1>14. /\ DOMAIN jds = D /\ jds[s] = jd
       /\ \A t \in D : t # s => jds[t] = ids[t]
  BY <1>1, <1>3, <1>13 DEF With
<1>15. /\ Tree(w, jds[s]) = g
       /\ \A t \in D : t # s => Tree(w, jds[t]) = Tree(v, ids[t])
  BY <1>10, <1>12, <1>14
<1>16. ASSUME NEW t \in D, NEW x \in Entries, Tree(w, jds[t])[x] # 0
       PROVE  Tree(w, jds[t])[x] \in w.used \ D
  <2>1. CASE t = s
    BY <1>7, <1>9, <1>15, <1>16, <2>1
  <2>2. CASE t # s
    BY <1>3, <1>7, <1>8, <1>15, <1>16, <2>2
  <2> QED  BY <2>1, <2>2
<1>17. Proper(u.used, g)
  <2>1. Proper(v.used, f)
    BY <1>1, <1>4, SoundProper
  <2> QED  BY <1>2, <2>1, ExtendedProper
<1>18. ASSUME NEW t \in D, t # s, NEW x \in Entries, NEW y \in Entries, g[x] # 0,
              g[x] = Tree(v, ids[t])[y]
       PROVE  FALSE
  <2>1. g[x] \in v.used
    BY <1>3, <1>18
  <2>2. f[x] = g[x]
    BY <1>9, <1>18, <2>1
  <2> QED  BY <1>3, <1>4, <1>18, <2>2
<1>19. ASSUME NEW t \in D, NEW c \in D, NEW x \in Entries, NEW y \in Entries,
              Tree(w, jds[t])[x] = Tree(w, jds[c])[y], Tree(w, jds[t])[x] # 0
       PROVE  t = c /\ x = y
  <2>1. CASE t = s /\ c = s
    BY <1>4, <1>15, <1>17, <1>19, <2>1 DEF Proper
  <2>2. CASE t = s /\ c # s
    BY <1>15, <1>18, <1>19, <2>2
  <2>3. CASE t # s /\ c = s
    BY <1>15, <1>18, <1>19, <2>3
  <2>4. CASE t # s /\ c # s
    BY <1>3, <1>15, <1>19, <2>4
  <2> QED  BY <2>1, <2>2, <2>3, <2>4
<1>20. \A t \in D : IsInode(jds[t])
  BY <1>2, <1>3, <1>14
<1>21. D \subseteq w.used
  BY <1>3, <1>7, <1>8
<1>22. Sound(w, jds)
  BY <1>7, <1>14, <1>16, <1>19, <1>20, <1>21 DEF Sound
<1>23. /\ Extended(v.used, f, w.used, g)
  BY <1>2, <1>7
<1> QED  BY <1>1, <1>2, <1>4, <1>7, <1>10, <1>11, <1>12, <1>13, <1>22, <1>23 DEF GrownTo

(* A sector is marked for an inode without entries. *)
LEMMA SoundNew ==
    ASSUME NEW v, NEW ids, Sound(v, ids), NEW s, NEW u, Marked(v, s, u), NEW length \in Int,
           NEW id, id = NewInode(length)
    PROVE  /\ Sound(u, With(ids, s, id)) /\ s \notin DOMAIN ids
           /\ \A x \in Entries : Tree(u, id)[x] = 0
           /\ \A jd : Tree(u, jd) = Tree(v, jd)
<1>1. /\ s \in Sectors /\ s # 0 /\ s \notin v.used /\ IsVolume(u)
      /\ u.used = v.used \cup {s} /\ u.disk = v.disk
  BY DEF Marked
<1>2. PICK D : D = DOMAIN ids
  OBVIOUS
<1>3. /\ D \subseteq v.used
      /\ \A t \in D : IsInode(ids[t])
      /\ \A t \in D, x \in Entries : Tree(v, ids[t])[x] # 0 => Tree(v, ids[t])[x] \in v.used \ D
      /\ \A t, c \in D, x, y \in Entries :
            Tree(v, ids[t])[x] = Tree(v, ids[c])[y] /\ Tree(v, ids[t])[x] # 0 => t = c /\ x = y
  BY <1>2 DEF Sound
<1>4. \A jd : Tree(u, jd) = Tree(v, jd)
  BY <1>1, FrameTree
<1>5. PICK none : none = NoBlocks(DIRECT_INDEX_NUM)
  OBVIOUS
<1>6. none \in [1 .. DIRECT_INDEX_NUM -> Sectors] /\ \A i \in 1 .. DIRECT_INDEX_NUM : none[i] = 0
  BY <1>5, ColsAre DEF NoBlocks
<1>7. id = InodeDisk(length, none, 0, 0) /\ 0 \in Sectors
  BY <1>5, ColsAre DEF NewInode
<1>8. IsInode(id) /\ id.direct = none /\ id.indirect = 0 /\ id.doubly = 0
  BY <1>6, <1>7, InodeMade
<1>9. ASSUME NEW x \in Entries PROVE Tree(u, id)[x] = 0
  <2>1. PICK a \in Rows, b \in Cols : x = <<a, b>>
    BY RowsAre
  <2>2. Tree(u, id)[x] = TreeEntry(u, id, a, b)
    BY <2>1, TreeAt
  <2>3. CASE a = 0
    <3>1. b \in Nat /\ DIRECT_INDEX_NUM \in Nat
      BY ColsAre
    <3>2. TopEntry(id, b) = 0
      BY <1>6, <1>8, <3>1 DEF TopEntry
    <3> QED  BY <2>2, <2>3, <3>2 DEF TreeEntry
  <2>4. CASE a # 0
    <3>1. Node(u, id, a) = 0
      BY <1>8 DEF Node
    <3> QED  BY <2>2, <2>4, <3>1 DEF TreeEntry, RowEntry
  <2> QED  BY <2>3, <2>4
<1>10. PICK jds : jds = With(ids, s, id)
  OBVIOUS
<1>11. /\ DOMAIN jds = D \cup {s} /\ jds[s] = id /\ s \notin D
       /\ \A t \in D : jds[t] = ids[t]
  BY <1>1, <1>2, <1>3, <1>10 DEF With
<1>12. DOMAIN jds \subseteq u.used /\ \A t \in DOMAIN jds : IsInode(jds[t])
  BY <1>1, <1>3, <1>8, <1>11
<1>13. ASSUME NEW t \in DOMAIN jds, NEW x \in Entries, Tree(u, jds[t])[x] # 0
       PROVE  t \in D /\ Tree(u, jds[t]) = Tree(v, ids[t])
  BY <1>4, <1>9, <1>11, <1>13
<1>14. ASSUME NEW t \in DOMAIN jds, NEW x \in Entries, Tree(u, jds[t])[x] # 0
       PROVE  Tree(u, jds[t])[x] \in u.used \ DOMAIN jds
  <2>1. t \in D /\ Tree(u, jds[t]) = Tree(v, ids[t])
    BY <1>13, <1>14
  <2>2. Tree(u, jds[t])[x] \in v.used \ D
    BY <1>3, <1>14, <2>1
  <2> QED  BY <1>1, <1>11, <2>2
<1>15. ASSUME NEW t \in DOMAIN jds, NEW c \in DOMAIN jds, NEW x \in Entries, NEW y \in Entries,
              Tree(u, jds[t])[x] = Tree(u, jds[c])[y], Tree(u, jds[t])[x] # 0
       PROVE  t = c /\ x = y
  <2>1. t \in D /\ Tree(u, jds[t]) = Tree(v, ids[t]) /\ c \in D /\ Tree(u, jds[c]) = Tree(v, ids[c])
    BY <1>13, <1>15
  <2> QED  BY <1>3, <1>15, <2>1
<1>16. Sound(u, jds)
  BY <1>1, <1>12, <1>14, <1>15 DEF Sound
<1> QED  BY <1>2, <1>4, <1>9, <1>10, <1>11, <1>16

-----------------------------------------------------------------------------
(* The entries a length needs.                                             *)

(* More bytes take no fewer sectors. *)
LEMMA RoundUpMonotone ==
    ASSUME NEW m \in Int, NEW n \in Int, m <= n, NEW unit \in Nat \ {0}
    PROVE  bytes_to_sectors(m, unit) <= bytes_to_sectors(n, unit)
<1>1. PICK p, q : p = bytes_to_sectors(m, unit) /\ q = bytes_to_sectors(n, unit)
  OBVIOUS
<1>2. p \in Int /\ q \in Int /\ n <= q * unit /\ p * unit < m + unit
  BY <1>1, RoundUp
<1> SUFFICES ASSUME ~(p <= q) PROVE FALSE
  BY <1>1
<1>3. PICK d \in Nat : p = q + 1 + d
  <2>1. p - q - 1 \in Nat /\ p = q + 1 + (p - q - 1)
    BY <1>2
  <2> QED  BY <2>1
<1>4. p * unit = q * unit + unit + d * unit
  BY <1>2, <1>3
<1>5. d * unit >= 0 /\ d * unit \in Int /\ q * unit \in Int /\ p * unit \in Int
  BY <1>2
<1> QED  BY <1>2, <1>4, <1>5

(* The parts of n sectors, for every number. *)
LEMMA PartsMonotone ==
    ASSUME NEW m \in Int, NEW n \in Int, m <= n
    PROVE  /\ DirectPart(m) <= DirectPart(n) /\ DirectPart(m) \in Int /\ DirectPart(n) \in Int
           /\ IndirectPart(m) <= IndirectPart(n) /\ IndirectPart(m) \in Int /\ IndirectPart(n) \in Int
           /\ DoublyPart(m) <= DoublyPart(n) /\ DoublyPart(m) \in Int /\ DoublyPart(n) \in Int
           /\ n <= 0 => DirectPart(n) <= 0 /\ IndirectPart(n) = 0 /\ DoublyPart(n) = 0
<1>1. PICK d, i, k : d = DIRECT_INDEX_NUM /\ i = INDIRECT_INDEX_SECTOR_NUM /\ k = DoublyNum
  OBVIOUS
<1>2. d \in Nat /\ i \in Nat /\ k \in Nat
  BY <1>1, ColsAre, Parts
<1>3. /\ DirectPart(m) = IF m < d THEN m ELSE d
      /\ DirectPart(n) = IF n < d THEN n ELSE d
  BY <1>1 DEF DirectPart, Lesser
<1>4. /\ IndirectPart(m) = IF m < d THEN 0 ELSE IF m - d < i THEN m - d ELSE i
      /\ IndirectPart(n) = IF n < d THEN 0 ELSE IF n - d < i THEN n - d ELSE i
  BY <1>1, <1>2, <1>3 DEF IndirectPart, Lesser
<1>5. /\ DoublyPart(m) = IF m < d + i THEN 0 ELSE IF m - d - i < k THEN m - d - i ELSE k
      /\ DoublyPart(n) = IF n < d + i THEN 0 ELSE IF n - d - i < k THEN n - d - i ELSE k
  BY <1>1, <1>2, <1>3, <1>4 DEF DoublyPart, Lesser
<1> QED  BY <1>2, <1>3, <1>4, <1>5

(* What is needed for fewer sectors is needed for more. *)
LEMMA NeedsMonotone ==
    ASSUME NEW m \in Int, NEW n \in Int, m <= n, NEW x \in Entries, Needs(m, x)
    PROVE  Needs(n, x)
<1>1. PICK a \in Rows, b \in Cols : x = <<a, b>>
  BY RowsAre
<1>2. x[1] = a /\ x[2] = b /\ a \in Nat /\ b \in Nat
  BY <1>1, RowsAre, ColsAre
<1>3. /\ DirectPart(m) <= DirectPart(n) /\ DirectPart(m) \in Int /\ DirectPart(n) \in Int
      /\ IndirectPart(m) <= IndirectPart(n) /\ IndirectPart(m) \in Int /\ IndirectPart(n) \in Int
      /\ DoublyPart(m) <= DoublyPart(n) /\ DoublyPart(m) \in Int /\ DoublyPart(n) \in Int
  BY PartsMonotone
<1>4. CASE a = 0 /\ b \in 1 .. DirectPart(m)
  BY <1>2, <1>3, <1>4 DEF Needs
<1>5. CASE a = LastRow /\ IndirectPart(m) > 0 /\ b <= IndirectPart(m)
  BY <1>2, <1>3, <1>5 DEF Needs
<1>6. CASE NeedsDeep(DoublyPart(m), a, b)
  <2>1. PICK k, l, i : k = DoublyPart(m) /\ l = DoublyPart(n) /\ i = INDIRECT_INDEX_SECTOR_NUM
    OBVIOUS
  <2>2. k <= l /\ k \in Int /\ l \in Int /\ i \in Nat \ {0} /\ k > 0 /\ l > 0
    BY <1>3, <1>6, <2>1, ColsAre DEF NeedsDeep
  <2>3. CASE a = 0 /\ b = 0
    BY <1>2, <2>1, <2>2, <2>3 DEF Needs, NeedsDeep
  <2>4. CASE a \in 1 .. bytes_to_sectors(k, i) /\ b <= Under(k, a)
    <3>1. bytes_to_sectors(k, i) <= bytes_to_sectors(l, i)
      BY <2>2, RoundUpMonotone
    <3>2. bytes_to_sectors(k, i) \in Int /\ bytes_to_sectors(l, i) \in Int
      BY <2>2, RoundUp
    <3>3. PICK z : z = (a - 1) * i
      OBVIOUS
    <3>4. z \in Int
      BY <1>2, <2>2, <3>3
    <3>5. Under(k, a) <= Under(l, a) /\ Under(k, a) \in Int /\ Under(l, a) \in Int
      BY <2>1, <2>2, <3>3, <3>4 DEF Under, Lesser
    <3>6. a \in 1 .. bytes_to_sectors(l, i) /\ b <= Under(l, a)
      BY <1>2, <2>4, <3>1, <3>2, <3>5
    <3> QED  BY <1>2, <2>1, <2>2, <3>6 DEF Needs, NeedsDeep
  <2> QED  BY <1>6, <2>1, <2>3, <2>4 DEF NeedsDeep
<1> QED  BY <1>2, <1>4, <1>5, <1>6 DEF Needs

(* An empty file needs none. *)
LEMMA NeedsNone ==
    ASSUME NEW n \in Int, n <= 0, NEW x \in Entries
    PROVE  ~Needs(n, x)
<1>1. DirectPart(n) <= 0 /\ DirectPart(n) \in Int /\ IndirectPart(n) = 0 /\ DoublyPart(n) = 0
  BY PartsMonotone
<1>2. 1 .. DirectPart(n) = {} /\ ~(0 > 0)
  BY <1>1
<1> QED  BY <1>1, <1>2 DEF Needs, NeedsDeep

(* The blocks of an inode. *)
LEMMA BlocksAre ==
    /\ \A id : id.length \in Int => Blocks(id) \in Int
    /\ \A id : id.length \in Nat => Blocks(id) \in Nat
    /\ \A id : id.length \in Int /\ id.length <= 0 => Blocks(id) <= 0
    /\ \A id, jd : id.length \in Int /\ jd.length \in Int /\ id.length <= jd.length
                   => Blocks(id) <= Blocks(jd)
<1>1. PICK u : u = BLOCK_SECTOR_SIZE
  OBVIOUS
<1>2. u \in Nat \ {0}
  BY <1>1, SectorAssumption
<1>3. ASSUME NEW n \in Int
      PROVE  /\ bytes_to_sectors(n, u) \in Int
             /\ n >= 0 => bytes_to_sectors(n, u) \in Nat
             /\ n <= 0 => bytes_to_sectors(n, u) <= 0
  <2>1. /\ bytes_to_sectors(n, u) \in Int
        /\ n >= 0 => bytes_to_sectors(n, u) \in Nat
    BY <1>2, RoundUp
  <2>2. bytes_to_sectors(0, u) = 0
    <3>1. PICK q : q = bytes_to_sectors(0, u)
      OBVIOUS
    <3>2. q \in Nat /\ q * u < 0 + u
      BY <1>2, <3>1, RoundUp
    <3>3. CASE q >= 1
      <4>1. PICK d \in Nat : q = d + 1
        <5>1. q - 1 \in Nat /\ q = (q - 1) + 1
          BY <3>2, <3>3
        <5> QED  BY <5>1
      <4>2. q * u = d * u + u /\ d * u >= 0 /\ d * u \in Int
        BY <1>2, <4>1
      <4> QED  BY <1>2, <3>2, <4>2
    <3> QED  BY <3>1, <3>2, <3>3
  <2>3. n <= 0 => bytes_to_sectors(n, u) <= bytes_to_sectors(0, u)
    BY <1>2, RoundUpMonotone
  <2> QED  BY <2>1, <2>2, <2>3
<1>4. \A m, n \in Int : m <= n => bytes_to_sectors(m, u) <= bytes_to_sectors(n, u)
  BY <1>2, RoundUpMonotone
<1>5. \A id : Blocks(id) = bytes_to_sectors(id.length, u)
  BY <1>1 DEF Blocks
<1> QED  BY <1>3, <1>4, <1>5

-----------------------------------------------------------------------------
(* Volumes that are in order.                                              *)

(* The length of the inode in s is an off_t, except that nothing is assumed *)
(* of how long the constants make the bitmap and the root directory.        *)
IsLength(s, length) == s \in {FREE_MAP_SECTOR, ROOT_DIR_SECTOR} \/ length <= OFF_MAX

(* The inode id is open; in its sector s is the inode as last saved, which *)
(* may have another length.  Both lengths are covered.                     *)
Backed(v, s, id) ==
    /\ IsLength(s, id.length) /\ IsLength(s, v.disk[s].length)
    /\ IsInode(v.disk[s]) /\ SameEntries(v.disk[s], id)
    /\ v.disk[s].length >= 0
    /\ Covered(v, id, Blocks(v.disk[s]))
    /\ Covered(v, id, Blocks(id))

Good(v, ids) ==
    /\ v.failed = {}
    /\ Sound(v, ids)
    /\ \A s \in DOMAIN ids : Backed(v, s, ids[s])

(* No sector is marked in vain: the inode in s has no more than its length *)
(* needs and every sector marked is an inode's or under one.               *)
Exactly(v, s, id) == Exact(v, id, Blocks(id)) /\ id.length = v.disk[s].length
Accounted(v, ids) ==
    \A c \in v.used \ DOMAIN ids :
        c # 0 /\ \E s \in DOMAIN ids, x \in Entries : Tree(v, ids[s])[x] = c
Files(ids) == DOMAIN ids \ {FREE_MAP_SECTOR, ROOT_DIR_SECTOR}
Tight(v, ids) == Accounted(v, ids) /\ \A s \in Files(ids) : Exactly(v, s, ids[s])

(* Backing depends on the inode's sector and tree. *)
LEMMA BackedStays ==
    ASSUME NEW v, NEW w, NEW s, NEW id, w.disk[s] = v.disk[s], Tree(w, id) = Tree(v, id),
           Backed(v, s, id)
    PROVE  Backed(w, s, id)
BY DEF Backed, Covered

(* So does exactness. *)
LEMMA ExactlyStays ==
    ASSUME NEW v, NEW w, NEW s, NEW id, w.disk[s] = v.disk[s], Tree(w, id) = Tree(v, id),
           Exactly(v, s, id)
    PROVE  Exactly(w, s, id)
BY DEF Exactly, Exact

(* An inode that is resized. *)
LEMMA ResizedIs ==
    ASSUME NEW id, IsInode(id), NEW length \in Int, NEW jd, jd = Resized(id, length)
    PROVE  IsInode(jd) /\ SameEntries(jd, id) /\ jd.length = length
BY InodeMade DEF Resized, IsInode, SameEntries

(* inode_allocate for a new length, and the inode saved. *)
LEMMA GrowOne ==
    ASSUME NEW v, NEW ids, Sound(v, ids), v.failed = {}, NEW s \in DOMAIN ids, NEW length \in Nat,
           IsLength(s, length), NEW id, id = Resized(ids[s], length),
           NEW r, r = inode_allocate(v, id), NEW w, w = SaveInode(r, s), ~w.full, w.failed = {}
    PROVE  /\ Backed(w, s, r.id) /\ r.id.length = length
           /\ GrownTo(v, ids, s, w, r.id, {x \in Entries : Needs(Blocks(r.id), x)})
<1>1. PICK u, jd : u = r.vol /\ jd = r.id
  OBVIOUS
<1>2. w = cache_write(u, s, jd)
  BY <1>1 DEF SaveInode
<1>3. w.failed = u.failed /\ w.full = u.full
  BY <1>2 DEF cache_write, Volume
<1>4. IsVolume(v) /\ IsInode(ids[s]) /\ length \in Int /\ ~(length < 0)
  BY DEF Sound
<1>5. IsInode(id) /\ SameEntries(id, ids[s]) /\ id.length = length /\ id.length >= 0
  BY <1>4, ResizedIs
<1>6. PICK f : f = Tree(v, ids[s])
  OBVIOUS
<1>7. Tree(v, id) = f
  BY <1>5, <1>6, SameTree
<1>8. Proper(v.used, f)
  BY <1>6, SoundProper
<1>9. Allocated(v, id, r)
  BY <1>1, <1>3, <1>4, <1>5, <1>7, <1>8, AllocateDone
<1>10. PICK X : X = {x \in Entries : Needs(Blocks(id), x)}
  OBVIOUS
<1>11. StepDone(v, id, u, jd, X)
  BY <1>1, <1>9, <1>10 DEF Allocated
<1>12. jd.length = id.length /\ IsInode(jd)
  BY <1>11 DEF StepDone
<1>13. Blocks(jd) = Blocks(id)
  BY <1>12 DEF Blocks
<1>14. GrownTo(v, ids, s, w, jd, X)
  BY <1>2, <1>6, <1>7, <1>11, SoundGrown
<1>15. w.disk[s] = jd /\ \A x \in Entries : x \in X => Tree(w, jd)[x] # 0
  BY <1>14 DEF GrownTo
<1>16. Backed(w, s, jd)
  <2>1. Blocks(jd) <= Capacity
    BY <1>1, <1>3, <1>4, <1>5, <1>13, AllocateWithin
  <2>2. Covered(w, jd, Blocks(jd))
    BY <1>10, <1>13, <1>15, <2>1 DEF Covered
  <2>3. SameEntries(jd, jd)
    BY DEF SameEntries
  <2> QED  BY <1>5, <1>12, <1>15, <2>2, <2>3 DEF Backed
<1>17. {x \in Entries : Needs(Blocks(jd), x)} = X
  BY <1>10, <1>13
<1> QED  BY <1>1, <1>5, <1>12, <1>14, <1>16, <1>17

(* The same on a volume that is in order but for this inode. *)
LEMMA Grow ==
    ASSUME NEW v, NEW ids, Sound(v, ids), v.failed = {}, NEW s \in DOMAIN ids, NEW length \in Nat,
           IsLength(s, length), \A t \in DOMAIN ids : t # s => Backed(v, t, ids[t]),
           NEW id, id = Resized(ids[s], length),
           NEW r, r = inode_allocate(v, id), NEW w, w = SaveInode(r, s), ~w.full, w.failed = {}
    PROVE  /\ Good(w, With(ids, s, r.id)) /\ r.id.length = length
           /\ GrownTo(v, ids, s, w, r.id, {x \in Entries : Needs(Blocks(r.id), x)})
<1>1. PICK jd, X : jd = r.id /\ X = {x \in Entries : Needs(Blocks(r.id), x)}
  OBVIOUS
<1>2. Backed(w, s, jd) /\ jd.length = length /\ GrownTo(v, ids, s, w, jd, X)
  BY <1>1, GrowOne
<1>3. PICK jds : jds = With(ids, s, jd)
  OBVIOUS
<1>4. /\ Sound(w, jds)
      /\ \A t \in DOMAIN ids : t # s => w.disk[t] = v.disk[t] /\ Tree(w, ids[t]) = Tree(v, ids[t])
  BY <1>2, <1>3 DEF GrownTo
<1>5. /\ DOMAIN jds = DOMAIN ids /\ jds[s] = jd
      /\ \A t \in DOMAIN ids : t # s => jds[t] = ids[t]
  BY <1>3 DEF With
<1>6. ASSUME NEW t \in DOMAIN ids, t # s PROVE Backed(w, t, jds[t])
  <2>1. PICK kd : kd = ids[t]
    OBVIOUS
  <2>2. w.disk[t] = v.disk[t] /\ Tree(w, kd) = Tree(v, kd) /\ Backed(v, t, kd) /\ jds[t] = kd
    BY <1>4, <1>5, <1>6, <2>1
  <2> QED  BY <2>2, BackedStays
<1>7. Good(w, jds)
  BY <1>2, <1>4, <1>5, <1>6 DEF Good
<1> QED  BY <1>1, <1>2, <1>3, <1>7

(* The growth leaves nothing marked in vain if it starts so and the file has *)
(* no more than its new length needs.                                        *)
LEMMA GrowTight ==
    ASSUME NEW v, NEW ids, Sound(v, ids), NEW s \in DOMAIN ids, NEW w, NEW jd, NEW n,
           GrownTo(v, ids, s, w, jd, {x \in Entries : Needs(n, x)}), n = Blocks(jd),
           Accounted(v, ids), \A t \in Files(ids) : t # s => Exactly(v, t, ids[t]),
           s \in Files(ids) => Exact(v, ids[s], n)
    PROVE  Tight(w, With(ids, s, jd))
<1>1. PICK jds, X, f, g : /\ jds = With(ids, s, jd) /\ X = {x \in Entries : Needs(n, x)}
                          /\ f = Tree(v, ids[s]) /\ g = Tree(w, jd)
  OBVIOUS
<1>2. /\ Sound(w, jds) /\ w.disk[s] = jd
      /\ \A t \in DOMAIN ids : t # s => w.disk[t] = v.disk[t] /\ Tree(w, ids[t]) = Tree(v, ids[t])
      /\ Extended(v.used, f, w.used, g)
      /\ \A x \in Entries : x \notin X => g[x] = f[x]
  BY <1>1 DEF GrownTo
<1>3. /\ DOMAIN jds = DOMAIN ids /\ jds[s] = jd /\ Files(jds) = Files(ids)
      /\ \A t \in DOMAIN ids : t # s => jds[t] = ids[t]
  BY <1>1 DEF With, Files
<1>4. DOMAIN f = Entries /\ DOMAIN g = Entries
  BY <1>1 DEF Tree
<1>5. /\ \A x \in Entries : f[x] # 0 => g[x] = f[x]
      /\ \A c \in w.used : c \notin v.used => \E x \in Entries : g[x] = c
  BY <1>2, <1>4 DEF Extended
<1>6. ASSUME NEW c \in w.used \ DOMAIN jds
      PROVE  c # 0 /\ \E t \in DOMAIN jds, x \in Entries : Tree(w, jds[t])[x] = c
  <2>1. CASE c \notin v.used
    <3>1. 0 \in v.used
      BY <1>2 DEF Extended
    <3>2. PICK x \in Entries : g[x] = c
      BY <1>5, <2>1
    <3> QED  BY <1>1, <1>3, <2>1, <3>1, <3>2
  <2>2. CASE c \in v.used
    <3>1. PICK t \in DOMAIN ids, x \in Entries : c # 0 /\ Tree(v, ids[t])[x] = c
      BY <1>3, <2>2 DEF Accounted
    <3>2. CASE t = s
      <4>1. f[x] = c
        BY <1>1, <3>1, <3>2
      <4>2. g[x] = c
        BY <1>5, <3>1, <4>1
      <4> QED  BY <1>1, <1>3, <3>1, <4>2
    <3>3. CASE t # s
      BY <1>2, <1>3, <3>1, <3>3
    <3> QED  BY <3>2, <3>3
  <2> QED  BY <2>1, <2>2
<1>7. ASSUME NEW t \in Files(ids), t # s PROVE Exactly(w, t, jds[t])
  <2>1. PICK kd : kd = ids[t]
    OBVIOUS
  <2>2. t \in DOMAIN ids
    BY DEF Files
  <2>3. w.disk[t] = v.disk[t] /\ Tree(w, kd) = Tree(v, kd) /\ Exactly(v, t, kd) /\ jds[t] = kd
    BY <1>2, <1>3, <1>7, <2>1, <2>2
  <2> QED  BY <2>3, ExactlyStays
<1>8. ASSUME s \in Files(ids) PROVE Exactly(w, s, jds[s])
  <2>1. \A x \in Entries : f[x] # 0 => Needs(n, x)
    BY <1>1, <1>8 DEF Exact
  <2>2. \A x \in Entries : g[x] # 0 => Needs(n, x)
    BY <1>1, <1>2, <2>1
  <2>3. Exact(w, jd, n)
    BY <1>1, <2>2 DEF Exact
  <2> QED  BY <1>2, <1>3, <2>3 DEF Exactly
<1>9. Accounted(w, jds)
  BY <1>6 DEF Accounted
<1> QED  BY <1>1, <1>3, <1>7, <1>8, <1>9 DEF Tight

(* inode_create in a sector that was free. *)
LEMMA CreateNew ==
    ASSUME NEW v, NEW ids, Good(v, ids), FreeSectors(v) # {}, NEW s, s = Min(FreeSectors(v)),
           NEW length \in Nat, IsLength(s, length),
           NEW w, w = inode_create(free_map_allocate(v), s, length),
           ~w.full, w.failed = {}
    PROVE  /\ s \notin DOMAIN ids /\ s # 0 /\ Good(w, With(ids, s, w.disk[s]))
           /\ w.disk[s].length = length
           /\ \A t \in DOMAIN ids : w.disk[t] = v.disk[t]
           /\ Tight(v, ids) => Tight(w, With(ids, s, w.disk[s]))
<1>1. PICK u, id : u = free_map_allocate(v) /\ id = NewInode(length)
  OBVIOUS
<1>2. Sound(v, ids) /\ IsVolume(v) /\ v.failed = {} /\ \A t \in DOMAIN ids : Backed(v, t, ids[t])
  BY DEF Good, Sound
<1>3. Marked(v, s, u)
  BY <1>1, <1>2, Marks
<1>4. PICK jds : jds = With(ids, s, id)
  OBVIOUS
<1>5. length \in Int /\ ~(length < 0)
  OBVIOUS
<1>6. /\ Sound(u, jds) /\ s \notin DOMAIN ids
      /\ \A x \in Entries : Tree(u, id)[x] = 0
      /\ \A jd : Tree(u, jd) = Tree(v, jd)
  BY <1>1, <1>2, <1>3, <1>4, <1>5, SoundNew
<1>7. /\ DOMAIN jds = DOMAIN ids \cup {s} /\ jds[s] = id /\ s \in DOMAIN jds
      /\ \A t \in DOMAIN ids : jds[t] = ids[t] /\ t # s
  BY <1>4, <1>6 DEF With
<1>8. u.failed = {} /\ u.disk = v.disk /\ u.used = v.used \cup {s} /\ s # 0
  BY <1>2, <1>3 DEF Marked
<1>9. ASSUME NEW t \in DOMAIN jds, t # s PROVE Backed(u, t, jds[t])
  <2>1. PICK kd : kd = ids[t]
    OBVIOUS
  <2>2. Tree(u, kd) = Tree(v, kd) /\ u.disk[t] = v.disk[t] /\ Backed(v, t, kd) /\ jds[t] = kd
    BY <1>2, <1>6, <1>7, <1>8, <1>9, <2>1
  <2> QED  BY <2>2, BackedStays
<1>10. id = Resized(jds[s], length)
  <2>1. id = InodeDisk(length, id.direct, id.indirect, id.doubly)
    BY <1>1 DEF NewInode, InodeDisk
  <2> QED  BY <1>7, <2>1 DEF Resized
<1>11. PICK r : r = inode_allocate(u, id)
  OBVIOUS
<1>12. w = SaveInode(r, s)
  BY <1>1, <1>5, <1>11 DEF inode_create
<1>13. PICK jd : jd = r.id
  OBVIOUS
<1>14. PICK kds : kds = With(jds, s, jd)
  OBVIOUS
<1>15. PICK X : X = {x \in Entries : Needs(Blocks(jd), x)}
  OBVIOUS
<1>16. Good(w, kds) /\ jd.length = length /\ GrownTo(u, jds, s, w, jd, X)
  BY <1>6, <1>7, <1>8, <1>9, <1>10, <1>11, <1>12, <1>13, <1>14, <1>15, Grow
<1>17. w.disk[s] = jd /\ \A t \in DOMAIN jds : t # s => w.disk[t] = u.disk[t]
  BY <1>16 DEF GrownTo
<1>18. kds = With(ids, s, jd)
  BY <1>4, <1>14 DEF With
<1>19. ASSUME Tight(v, ids) PROVE Tight(w, kds)
  <2>1. Accounted(v, ids) /\ \A t \in Files(ids) : Exactly(v, t, ids[t])
    BY <1>19 DEF Tight
  <2>2. Accounted(u, jds)
    <3> SUFFICES ASSUME NEW c \in u.used \ DOMAIN jds
                 PROVE  c # 0 /\ \E t \in DOMAIN jds, x \in Entries : Tree(u, jds[t])[x] = c
      BY DEF Accounted
    <3>1. c \in v.used \ DOMAIN ids
      BY <1>7, <1>8
    <3>2. PICK t \in DOMAIN ids, x \in Entries : c # 0 /\ Tree(v, ids[t])[x] = c
      BY <2>1, <3>1 DEF Accounted
    <3> QED  BY <1>6, <1>7, <3>2
  <2>3. ASSUME NEW t \in Files(jds), t # s PROVE Exactly(u, t, jds[t])
    <3>1. PICK kd : kd = ids[t]
      OBVIOUS
    <3>2. t \in Files(ids) /\ t \in DOMAIN ids
      BY <1>7, <2>3 DEF Files
    <3>3. Tree(u, kd) = Tree(v, kd) /\ u.disk[t] = v.disk[t] /\ Exactly(v, t, kd) /\ jds[t] = kd
      BY <1>6, <1>7, <1>8, <2>1, <3>1, <3>2
    <3> QED  BY <3>3, ExactlyStays
  <2>4. PICK n : n = Blocks(jd)
    OBVIOUS
  <2>5. Exact(u, jds[s], n)
    BY <1>6, <1>7 DEF Exact
  <2>6. GrownTo(u, jds, s, w, jd, {x \in Entries : Needs(n, x)})
    BY <1>15, <1>16, <2>4
  <2> QED  BY <1>6, <1>7, <1>14, <2>2, <2>3, <2>4, <2>5, <2>6, GrowTight
<1> QED  BY <1>6, <1>7, <1>8, <1>16, <1>17, <1>18, <1>19

(* Trees do not depend on the free map. *)
LEMMA FreedTree ==
    ASSUME NEW v, NEW w, w.disk = v.disk
    PROVE  \A id : Tree(w, id) = Tree(v, id)
BY FrameTree

(* ids without the inode in s. *)
Except(ids, s) == [t \in DOMAIN ids \ {s} |-> ids[t]]

(* The inode in s is given up with some of the sectors under it. *)
LEMMA GiveUp ==
    ASSUME NEW v, NEW ids, Good(v, ids), NEW s \in DOMAIN ids, s # 0, NEW R, 0 \notin R,
           \A c \in R : c = s \/ \E x \in Entries : Tree(v, ids[s])[x] = c,
           NEW w, w = Freed(v, R)
    PROVE  /\ Good(w, Except(ids, s))
           /\ Tight(v, ids) /\ s \in R /\ (\A x \in Entries : Tree(v, ids[s])[x] \in R \cup {0})
              => Tight(w, Except(ids, s))
<1>1. PICK jds, D : jds = Except(ids, s) /\ D = DOMAIN ids
  OBVIOUS
<1>2. /\ IsVolume(v) /\ v.failed = {} /\ D \subseteq v.used
      /\ \A t \in D : Backed(v, t, ids[t]) /\ IsInode(ids[t])
      /\ \A t \in D, x \in Entries : Tree(v, ids[t])[x] # 0 => Tree(v, ids[t])[x] \in v.used \ D
      /\ \A t, c \in D, x, y \in Entries :
            Tree(v, ids[t])[x] = Tree(v, ids[c])[y] /\ Tree(v, ids[t])[x] # 0 => t = c /\ x = y
  BY <1>1 DEF Good, Sound
<1>3. IsVolume(w) /\ w.used = v.used \ R /\ w.disk = v.disk /\ w.failed = v.failed
  BY <1>2, FreedIs
<1>4. \A id : Tree(w, id) = Tree(v, id)
  BY <1>3, FreedTree
<1>5. DOMAIN jds = D \ {s} /\ \A t \in D \ {s} : jds[t] = ids[t]
  BY <1>1 DEF Except
<1>6. ASSUME NEW t \in D \ {s} PROVE t \notin R
  BY <1>1, <1>2
<1>7. ASSUME NEW t \in D \ {s}, NEW x \in Entries, Tree(v, ids[t])[x] # 0
      PROVE  Tree(v, ids[t])[x] \in w.used \ D
  <2>1. PICK c : c = Tree(v, ids[t])[x]
    OBVIOUS
  <2>2. c \in v.used \ D
    BY <1>2, <1>7, <2>1
  <2>3. c \notin R
    BY <1>1, <1>2, <1>7, <2>1, <2>2
  <2> QED  BY <1>3, <2>1, <2>2, <2>3
<1>8. Sound(w, jds)
  <2>1. DOMAIN jds \subseteq w.used /\ \A t \in DOMAIN jds : IsInode(jds[t])
    BY <1>2, <1>3, <1>5, <1>6
  <2>2. \A t \in DOMAIN jds, x \in Entries :
           Tree(w, jds[t])[x] # 0 => Tree(w, jds[t])[x] \in w.used \ DOMAIN jds
    BY <1>4, <1>5, <1>7
  <2>3. \A t, c \in DOMAIN jds, x, y \in Entries :
           Tree(w, jds[t])[x] = Tree(w, jds[c])[y] /\ Tree(w, jds[t])[x] # 0 => t = c /\ x = y
    BY <1>2, <1>4, <1>5
  <2> QED  BY <1>3, <2>1, <2>2, <2>3 DEF Sound
<1>9. ASSUME NEW t \in DOMAIN jds PROVE Backed(w, t, jds[t])
  <2>1. PICK kd : kd = ids[t]
    OBVIOUS
  <2>2. Tree(w, kd) = Tree(v, kd) /\ w.disk[t] = v.disk[t] /\ Backed(v, t, kd) /\ jds[t] = kd
    BY <1>2, <1>3, <1>4, <1>5, <2>1
  <2> QED  BY <2>2, BackedStays
<1>10. Good(w, jds)
  BY <1>2, <1>3, <1>8, <1>9 DEF Good
<1>11. ASSUME Tight(v, ids), s \in R, \A x \in Entries : Tree(v, ids[s])[x] \in R \cup {0}
       PROVE  Tight(w, jds)
  <2>1. Accounted(v, ids) /\ \A t \in Files(ids) : Exactly(v, t, ids[t])
    BY <1>11 DEF Tight
  <2>2. ASSUME NEW c \in w.used \ DOMAIN jds
        PROVE  c # 0 /\ \E t \in DOMAIN jds, x \in Entries : Tree(w, jds[t])[x] = c
    <3>1. c \in v.used \ D /\ c \notin R
      BY <1>3, <1>5, <1>11
    <3>2. PICK t \in D, x \in Entries : c # 0 /\ Tree(v, ids[t])[x] = c
      BY <1>1, <2>1, <3>1 DEF Accounted
    <3>3. t # s
      BY <1>11, <3>1, <3>2
    <3> QED  BY <1>4, <1>5, <3>2, <3>3
  <2>3. ASSUME NEW t \in Files(jds) PROVE Exactly(w, t, jds[t])
    <3>1. PICK kd : kd = ids[t]
      OBVIOUS
    <3>2. t \in Files(ids) /\ t \in DOMAIN jds
      BY <1>1, <1>5 DEF Files
    <3>3. Tree(w, kd) = Tree(v, kd) /\ w.disk[t] = v.disk[t] /\ Exactly(v, t, kd) /\ jds[t] = kd
      BY <1>3, <1>4, <1>5, <2>1, <3>1, <3>2
    <3> QED  BY <3>3, ExactlyStays
  <2> QED  BY <2>2, <2>3 DEF Tight, Accounted
<1> QED  BY <1>1, <1>10, <1>11

(* inode_close of the last opener of a removed inode. *)
LEMMA Deallocate ==
    ASSUME NEW v, NEW ids, Good(v, ids), NEW s \in DOMAIN ids, s # 0, NEW w,
           w = inode_deallocate(free_map_release(v, s), ids[s])
    PROVE  /\ Good(w, Except(ids, s)) /\ w.full = v.full
           /\ Tight(v, ids) /\ s \in Files(ids) => Tight(w, Except(ids, s))
           /\ w.disk = v.disk
           /\ 0 \in w.used
           /\ \A c \in v.used \ w.used : c = s \/ \E x \in Entries : Tree(v, ids[s])[x] = c
<1>1. PICK id, f, n : id = ids[s] /\ f = Tree(v, ids[s]) /\ n = Blocks(ids[s])
  OBVIOUS
<1>2. /\ IsVolume(v) /\ DOMAIN ids \subseteq v.used /\ IsInode(id) /\ Backed(v, s, id)
      /\ \A x \in Entries : f[x] # 0 => f[x] \in v.used \ DOMAIN ids
  BY <1>1 DEF Good, Sound
<1>3. PICK u : u = Freed(v, {s})
  OBVIOUS
<1>4. free_map_release(v, s) = u
  BY <1>2, <1>3, FreedOne
<1>5. IsVolume(u) /\ u.used = v.used \ {s} /\ u.disk = v.disk
  BY <1>2, <1>3, FreedIs
<1>6. Tree(u, id) = f
  BY <1>1, <1>5, FreedTree
<1>7. Proper(v.used, f) /\ DOMAIN f = Entries
  <2>1. Sound(v, ids)
    BY DEF Good
  <2>2. DOMAIN f = Entries
    BY <1>1 DEF Tree
  <2> QED  BY <1>1, <2>1, <2>2, SoundProper
<1>8. Proper(u.used, f)
  BY <1>2, <1>5, <1>7 DEF Proper
<1>9. w = inode_deallocate(u, id) /\ id.length \in Int
  BY <1>1, <1>2, <1>4 DEF IsInode
<1>10. CASE id.length < 0
  <2>1. w = u
    BY <1>9, <1>10 DEF inode_deallocate
  <2>2. w.full = v.full /\ w.disk = v.disk
    BY <1>2, <1>3, <2>1, FreedIs
  <2>3. PICK R : R = {s}
    OBVIOUS
  <2>4. 0 \notin R /\ \A c \in R : c = s \/ \E x \in Entries : Tree(v, ids[s])[x] = c
    BY <2>3
  <2>5. w = Freed(v, R)
    BY <1>3, <2>1, <2>3
  <2>6. /\ Good(w, Except(ids, s))
        /\ Tight(v, ids) /\ s \in R /\ (\A x \in Entries : Tree(v, ids[s])[x] \in R \cup {0})
              => Tight(w, Except(ids, s))
    BY <2>4, <2>5, GiveUp
  <2>7. ASSUME Tight(v, ids), s \in Files(ids) PROVE FALSE
    <3>1. id.length = v.disk[s].length
      BY <1>1, <2>7 DEF Tight, Exactly
    <3>2. v.disk[s].length >= 0
      BY <1>2 DEF Backed
    <3> QED  BY <1>9, <1>10, <3>1, <3>2
  <2>8. 0 \in w.used /\ w.used = v.used \ R
    BY <1>2, <2>4, <2>5, FreedIs DEF IsVolume
  <2> QED  BY <2>2, <2>4, <2>6, <2>7, <2>8
<1>11. CASE ~(id.length < 0)
  <2>1. n \in Nat
    BY <1>1, <1>9, <1>11, BlocksAre
  <2>2. w = ReleaseSectors(u, id, n)
    BY <1>1, <1>9, <1>11 DEF inode_deallocate, Blocks
  <2>3. Covered(v, id, n)
    BY <1>1, <1>2 DEF Backed
  <2>4. Covered(u, id, n)
    BY <1>1, <1>6, <2>3 DEF Covered
  <2>5. w = Freed(u, Image(f, Needed(n)))
    BY <1>2, <1>5, <1>6, <1>8, <2>1, <2>2, <2>4, SectorsFreed
  <2>6. PICK S : S = Image(f, Needed(n))
    OBVIOUS
  <2>7. \A c : c \in S <=> \E x \in Entries : Needs(n, x) /\ f[x] = c
    BY <2>6 DEF Image, Needed
  <2>8. PICK R : R = {s} \cup S
    OBVIOUS
  <2>9. 0 \notin R /\ \A c \in R : c = s \/ \E x \in Entries : Tree(v, ids[s])[x] = c
    <3>1. 0 \notin S
      BY <1>1, <2>3, <2>7 DEF Covered
    <3> QED  BY <1>1, <2>7, <2>8, <3>1
  <2>10. w = Freed(v, R)
    <3>1. PICK T : T = {s}
      OBVIOUS
    <3>2. v.used \ R = (v.used \ T) \ S
      BY <2>8, <3>1
    <3>3. Freed(Freed(v, T), S) = Freed(v, R)
      BY <1>2, <3>2, FreedOn
    <3> QED  BY <1>3, <2>5, <2>6, <3>1, <3>3
  <2>11. w.full = v.full /\ w.disk = v.disk
    BY <1>2, <2>9, <2>10, FreedIs
  <2>12. /\ Good(w, Except(ids, s))
         /\ Tight(v, ids) /\ s \in R /\ (\A x \in Entries : Tree(v, ids[s])[x] \in R \cup {0})
              => Tight(w, Except(ids, s))
    BY <2>9, <2>10, GiveUp
  <2>13. ASSUME Tight(v, ids), s \in Files(ids)
         PROVE  s \in R /\ \A x \in Entries : Tree(v, ids[s])[x] \in R \cup {0}
    <3>1. Exact(v, id, n)
      BY <1>1, <2>13 DEF Tight, Exactly
    <3>2. \A x \in Entries : f[x] # 0 => Needs(n, x)
      BY <1>1, <3>1 DEF Exact
    <3> QED  BY <1>1, <2>7, <2>8, <3>2
  <2>14. 0 \in w.used /\ w.used = v.used \ R
    BY <1>2, <2>9, <2>10, FreedIs DEF IsVolume
  <2> QED  BY <2>9, <2>11, <2>12, <2>13, <2>14
<1> QED  BY <1>10, <1>11

(* Inodes of which other lengths are taken, or fewer. *)
LEMMA Relabel ==
    ASSUME NEW v, NEW ids, Good(v, ids), NEW jds, DOMAIN jds \subseteq DOMAIN ids,
           \A s \in DOMAIN jds : /\ IsInode(jds[s]) /\ SameEntries(jds[s], ids[s])
                                 /\ Covered(v, ids[s], Blocks(jds[s]))
                                 /\ IsLength(s, jds[s].length)
    PROVE  Good(v, jds)
<1>1. /\ IsVolume(v) /\ v.failed = {} /\ DOMAIN ids \subseteq v.used
      /\ \A t \in DOMAIN ids : Backed(v, t, ids[t])
      /\ \A t \in DOMAIN ids, x \in Entries :
            Tree(v, ids[t])[x] # 0 => Tree(v, ids[t])[x] \in v.used \ DOMAIN ids
      /\ \A t, c \in DOMAIN ids, x, y \in Entries :
            Tree(v, ids[t])[x] = Tree(v, ids[c])[y] /\ Tree(v, ids[t])[x] # 0 => t = c /\ x = y
  BY DEF Good, Sound
<1>2. ASSUME NEW s \in DOMAIN jds PROVE Tree(v, jds[s]) = Tree(v, ids[s])
  <2>1. PICK id, jd : id = ids[s] /\ jd = jds[s]
    OBVIOUS
  <2>2. SameEntries(jd, id)
    BY <2>1
  <2> QED  BY <2>1, <2>2, SameTree
<1>3. Sound(v, jds)
  <2>1. \A s \in DOMAIN jds, x \in Entries :
           Tree(v, jds[s])[x] # 0 => Tree(v, jds[s])[x] \in v.used \ DOMAIN jds
    BY <1>1, <1>2
  <2>2. \A s, c \in DOMAIN jds, x, y \in Entries :
           Tree(v, jds[s])[x] = Tree(v, jds[c])[y] /\ Tree(v, jds[s])[x] # 0 => s = c /\ x = y
    BY <1>1, <1>2
  <2> QED  BY <1>1, <2>1, <2>2 DEF Sound
<1>4. ASSUME NEW s \in DOMAIN jds PROVE Backed(v, s, jds[s])
  <2>1. PICK id, jd : id = ids[s] /\ jd = jds[s]
    OBVIOUS
  <2>2. /\ Backed(v, s, id) /\ SameEntries(jd, id) /\ Covered(v, id, Blocks(jd))
        /\ IsLength(s, jd.length)
    BY <1>1, <2>1
  <2>3. Tree(v, jd) = Tree(v, id)
    BY <1>2, <2>1
  <2>4. Covered(v, jd, Blocks(jd)) /\ Covered(v, jd, Blocks(v.disk[s]))
    BY <2>2, <2>3 DEF Backed, Covered
  <2>5. SameEntries(v.disk[s], jd) /\ IsInode(v.disk[s]) /\ v.disk[s].length >= 0
    BY <2>2 DEF Backed, SameEntries
  <2> QED  BY <2>1, <2>2, <2>4, <2>5 DEF Backed
<1> QED  BY <1>1, <1>3, <1>4 DEF Good

(* Inodes with the same entries and length are the same. *)
LEMMA SameInode ==
    ASSUME NEW id, NEW jd, IsInode(id), IsInode(jd), SameEntries(id, jd), id.length = jd.length
    PROVE  id = jd
BY DEF IsInode, SameEntries, InodeDisk

(* Inodes that are read from disk again. *)
LEMMA Reread ==
    ASSUME NEW v, NEW ids, Good(v, ids), NEW jds, DOMAIN jds \subseteq DOMAIN ids,
           \A s \in DOMAIN jds : jds[s] = ids[s] \/ jds[s] = v.disk[s]
    PROVE  /\ Good(v, jds)
           /\ Tight(v, ids) /\ DOMAIN jds = DOMAIN ids
              /\ (\A s \in DOMAIN jds : s \notin Files(ids) => jds[s] = ids[s])
              => Tight(v, jds)
<1>1. \A s \in DOMAIN ids : Backed(v, s, ids[s]) /\ IsInode(ids[s])
  BY DEF Good, Sound
<1>2. ASSUME NEW s \in DOMAIN jds
      PROVE  /\ IsInode(jds[s]) /\ SameEntries(jds[s], ids[s])
             /\ Covered(v, ids[s], Blocks(jds[s])) /\ IsLength(s, jds[s].length)
  <2>1. Backed(v, s, ids[s]) /\ IsInode(ids[s])
    BY <1>1
  <2> QED  BY <2>1 DEF Backed, SameEntries
<1>3. Good(v, jds)
  BY <1>2, Relabel
<1>4. ASSUME Tight(v, ids), DOMAIN jds = DOMAIN ids,
             \A s \in DOMAIN jds : s \notin Files(ids) => jds[s] = ids[s]
      PROVE  Tight(v, jds)
  <2>1. ASSUME NEW s \in DOMAIN ids PROVE jds[s] = ids[s]
    <3>1. CASE s \in Files(ids) /\ jds[s] = v.disk[s]
      <4>1. PICK id, jd : id = ids[s] /\ jd = jds[s]
        OBVIOUS
      <4>2. jd.length = id.length
        BY <1>4, <3>1, <4>1 DEF Tight, Exactly
      <4>3. IsInode(id) /\ IsInode(jd) /\ SameEntries(jd, id)
        BY <1>1, <1>2, <1>4, <4>1
      <4> QED  BY <4>1, <4>2, <4>3, SameInode
    <3> QED  BY <1>4, <3>1
  <2>2. Files(jds) = Files(ids)
    BY <1>4 DEF Files
  <2>3. \A s \in Files(jds) : s \in DOMAIN ids
    BY <1>4 DEF Files
  <2>4. Accounted(v, jds)
    BY <1>4, <2>1 DEF Tight, Accounted
  <2>5. \A s \in Files(jds) : Exactly(v, s, jds[s])
    BY <1>4, <2>1, <2>2, <2>3 DEF Tight
  <2> QED  BY <2>4, <2>5 DEF Tight
<1> QED  BY <1>3, <1>4

(* More sectors are marked. *)
LEMMA MoreMarked ==
    ASSUME NEW v, NEW ids, Good(v, ids), NEW X, X \subseteq Sectors,
           NEW w, w = Volume(v.used \cup X, v.disk, v.full, v.failed)
    PROVE  Good(w, ids) /\ w.disk = v.disk /\ w.full = v.full
<1>1. /\ IsVolume(v) /\ v.failed = {} /\ DOMAIN ids \subseteq v.used
      /\ \A t \in DOMAIN ids : Backed(v, t, ids[t]) /\ IsInode(ids[t])
      /\ \A t \in DOMAIN ids, x \in Entries :
            Tree(v, ids[t])[x] # 0 => Tree(v, ids[t])[x] \in v.used \ DOMAIN ids
      /\ \A t, c \in DOMAIN ids, x, y \in Entries :
            Tree(v, ids[t])[x] = Tree(v, ids[c])[y] /\ Tree(v, ids[t])[x] # 0 => t = c /\ x = y
  BY DEF Good, Sound
<1>2. /\ w.used = v.used \cup X /\ w.disk = v.disk /\ w.full = v.full /\ w.failed = v.failed
      /\ w = Volume(w.used, w.disk, w.full, w.failed)
  BY DEF Volume
<1>3. IsVolume(w)
  <2>1. \A t : IndexAt(w, t) = IndexAt(v, t)
    BY <1>2 DEF IndexAt
  <2> QED  BY <1>1, <1>2, <2>1 DEF IsVolume
<1>4. \A id : Tree(w, id) = Tree(v, id)
  BY <1>2, FreedTree
<1>7. \A t, c \in DOMAIN ids, x, y \in Entries :
         Tree(v, ids[t])[x] = Tree(v, ids[c])[y] /\ Tree(v, ids[t])[x] # 0 => t = c /\ x = y
  BY DEF Good, Sound
<1>5. Sound(w, ids)
  <2>1. \A t \in DOMAIN ids, x \in Entries :
           Tree(w, ids[t])[x] # 0 => Tree(w, ids[t])[x] \in w.used \ DOMAIN ids
    BY <1>1, <1>2, <1>4
  <2>2. \A t \in DOMAIN ids : Tree(w, ids[t]) = Tree(v, ids[t])
    BY <1>4
  <2>3. \A t, c \in DOMAIN ids, x, y \in Entries :
           Tree(w, ids[t])[x] = Tree(w, ids[c])[y] /\ Tree(w, ids[t])[x] # 0 => t = c /\ x = y
    <3> TAKE t, c \in DOMAIN ids, x, y \in Entries
    <3> HAVE Tree(w, ids[t])[x] = Tree(w, ids[c])[y] /\ Tree(w, ids[t])[x] # 0
    <3>1. Tree(v, ids[t])[x] = Tree(v, ids[c])[y] /\ Tree(v, ids[t])[x] # 0
      BY <2>2
    <3> QED  BY <1>7, <3>1
  <2>4. DOMAIN ids \subseteq w.used /\ \A t \in DOMAIN ids : IsInode(ids[t])
    BY <1>1, <1>2
  <2> QED  BY <1>3, <2>1, <2>3, <2>4 DEF Sound
<1>6. ASSUME NEW t \in DOMAIN ids PROVE Backed(w, t, ids[t])
  <2>1. PICK kd : kd = ids[t]
    OBVIOUS
  <2>2. Tree(w, kd) = Tree(v, kd) /\ w.disk[t] = v.disk[t] /\ Backed(v, t, kd)
    BY <1>1, <1>2, <1>4, <2>1
  <2> QED  BY <2>1, <2>2, BackedStays
<1> QED  BY <1>1, <1>2, <1>5, <1>6 DEF Good

(* The inode id has become jd but is read as it was: its entries are those of *)
(* jd where it had any, and what it had it still has.                         *)
LEMMA OldTree ==
    ASSUME NEW v, NEW w, NEW id, NEW jd, Extended(v.used, Tree(v, id), w.used, Tree(w, jd))
    PROVE  \A x \in Entries : /\ Tree(w, id)[x] # 0 => Tree(w, id)[x] = Tree(w, jd)[x]
                              /\ Tree(v, id)[x] # 0 => Tree(w, id)[x] = Tree(v, id)[x]
<1>1. PICK f, g, h : f = Tree(v, id) /\ g = Tree(w, jd) /\ h = Tree(w, id)
  OBVIOUS
<1>2. \A x \in Entries : f[x] # 0 => g[x] = f[x]
  BY <1>1, TreeAt DEF Extended
<1>3. ASSUME NEW a \in Rows, NEW b \in Cols
      PROVE  /\ <<a, b>> \in Entries
             /\ f[<<a, b>>] = TreeEntry(v, id, a, b)
             /\ g[<<a, b>>] = TreeEntry(w, jd, a, b)
             /\ h[<<a, b>>] = TreeEntry(w, id, a, b)
  BY <1>1, TreeAt
<1>4. 0 \in Rows /\ 0 \in Cols /\ LastRow \in Rows /\ LastRow \in 1 .. LastRow
  BY RowsAre, ColsAre
<1>5. id.doubly # 0 => jd.doubly = id.doubly
  <2>1. TreeEntry(v, id, 0, 0) = id.doubly /\ TreeEntry(w, jd, 0, 0) = jd.doubly
    BY TreeNodes
  <2>2. /\ <<0, 0>> \in Entries /\ f[<<0, 0>>] = TreeEntry(v, id, 0, 0)
        /\ g[<<0, 0>>] = TreeEntry(w, jd, 0, 0)
    BY <1>3, <1>4
  <2> QED  BY <1>2, <2>1, <2>2
<1>6. id.indirect # 0 => jd.indirect = id.indirect
  <2>1. /\ TreeEntry(v, id, LastRow, 0) = id.indirect
        /\ TreeEntry(w, jd, LastRow, 0) = jd.indirect
    BY <1>4, TreeNodes
  <2>2. /\ <<LastRow, 0>> \in Entries /\ f[<<LastRow, 0>>] = TreeEntry(v, id, LastRow, 0)
        /\ g[<<LastRow, 0>>] = TreeEntry(w, jd, LastRow, 0)
    BY <1>3, <1>4
  <2> QED  BY <1>2, <2>1, <2>2
<1>7. \A a : Node(w, id, a) # 0 => Node(w, id, a) = Node(w, jd, a)
  BY <1>5, <1>6 DEF Node
<1>8. \A a : Node(v, id, a) # 0 => Node(w, id, a) = Node(w, jd, a)
  BY <1>5, <1>6 DEF Node
<1>9. ASSUME NEW a \in Rows, NEW b \in Cols
      PROVE  /\ h[<<a, b>>] # 0 => h[<<a, b>>] = g[<<a, b>>]
             /\ f[<<a, b>>] # 0 => h[<<a, b>>] = f[<<a, b>>]
  <2>1. CASE a = 0
    <3>1. TreeEntry(w, id, a, b) = TreeEntry(v, id, a, b)
      BY <2>1 DEF TreeEntry
    <3>2. h[<<a, b>>] = f[<<a, b>>]
      BY <1>3, <3>1
    <3> QED  BY <1>2, <1>3, <3>2
  <2>2. CASE a # 0
    <3>1. PICK c, d, e : c = Node(v, id, a) /\ d = Node(w, id, a) /\ e = Node(w, jd, a)
      OBVIOUS
    <3>2. /\ f[<<a, b>>] = RowEntry(v, c, b) /\ h[<<a, b>>] = RowEntry(w, d, b)
          /\ g[<<a, b>>] = RowEntry(w, e, b)
      BY <1>3, <2>2, <3>1 DEF TreeEntry
    <3>3. (d # 0 => d = e) /\ (c # 0 => d = e)
      BY <1>7, <1>8, <3>1
    <3>4. RowEntry(w, d, b) # 0 => d # 0
      BY DEF RowEntry
    <3>5. RowEntry(v, c, b) # 0 => c # 0
      BY DEF RowEntry
    <3> QED  BY <1>2, <1>3, <3>2, <3>3, <3>4, <3>5
  <2> QED  BY <2>1, <2>2
<1>10. ASSUME NEW x \in Entries
       PROVE  (h[x] # 0 => h[x] = g[x]) /\ (f[x] # 0 => h[x] = f[x])
  <2>1. PICK a \in Rows, b \in Cols : x = <<a, b>>
    BY RowsAre
  <2> QED  BY <1>9, <2>1
<1> QED  BY <1>1, <1>10

(* inode_allocate for the inode in s, which is not saved. *)
LEMMA Unsaved ==
    ASSUME NEW v, NEW ids, Good(v, ids), NEW s \in DOMAIN ids, NEW length \in Nat,
           NEW w, w = inode_allocate(v, Resized(ids[s], length)).vol, ~w.full, w.failed = {}
    PROVE  Good(w, ids) /\ \A t \in DOMAIN ids : w.disk[t] = v.disk[t]
<1>1. PICK id, r, D, f, jd : /\ id = Resized(ids[s], length) /\ r = inode_allocate(v, id)
                             /\ D = DOMAIN ids /\ f = Tree(v, ids[s]) /\ jd = r.id
  OBVIOUS
<1>2. /\ IsVolume(v) /\ v.failed = {} /\ D \subseteq v.used /\ s \in D
      /\ \A t \in D : Backed(v, t, ids[t]) /\ IsInode(ids[t])
      /\ \A t \in D, x \in Entries : Tree(v, ids[t])[x] # 0 => Tree(v, ids[t])[x] \in v.used \ D
      /\ \A t, c \in D, x, y \in Entries :
            Tree(v, ids[t])[x] = Tree(v, ids[c])[y] /\ Tree(v, ids[t])[x] # 0 => t = c /\ x = y
  BY <1>1 DEF Good, Sound
<1>3. IsInode(id) /\ SameEntries(id, ids[s]) /\ id.length = length /\ id.length >= 0
  BY <1>1, <1>2, ResizedIs
<1>4. Tree(v, id) = f /\ Tree(w, id) = Tree(w, ids[s])
  BY <1>1, <1>3, SameTree
<1>5. Proper(v.used, f)
  BY <1>1, SoundProper DEF Good
<1>6. w = r.vol
  BY <1>1
<1>7. Allocated(v, id, r)
  BY <1>1, <1>2, <1>3, <1>4, <1>5, <1>6, AllocateDone
<1>8. PICK g, h : g = Tree(w, jd) /\ h = Tree(w, ids[s])
  OBVIOUS
<1>9. /\ IsVolume(w) /\ Extended(v.used, f, w.used, g)
      /\ \A t \in v.used : (\A x \in Entries : t # f[x] \/ t = 0) => w.disk[t] = v.disk[t]
  BY <1>1, <1>4, <1>6, <1>7, <1>8 DEF Allocated, StepDone
<1>10. DOMAIN f = Entries /\ DOMAIN g = Entries
  BY <1>1, <1>8 DEF Tree
<1>11. v.used \subseteq w.used
  BY <1>9 DEF Extended
<1>12. ASSUME NEW x \in Entries
       PROVE  (h[x] # 0 => h[x] = g[x]) /\ (f[x] # 0 => h[x] = f[x])
  BY <1>4, <1>8, <1>9, OldTree
<1>13. ASSUME NEW x \in Entries, h[x] # 0
       PROVE  h[x] \in w.used \ D /\ (h[x] \in v.used => f[x] = h[x])
  <2>1. CASE f[x] # 0
    BY <1>1, <1>2, <1>11, <1>12, <2>1
  <2>2. CASE f[x] = 0
    <3>1. g[x] \in w.used /\ g[x] \notin v.used
      BY <1>9, <1>10, <1>12, <1>13, <2>2 DEF Extended
    <3> QED  BY <1>2, <1>12, <1>13, <3>1
  <2> QED  BY <2>1, <2>2
<1>14. ASSUME NEW t \in D PROVE w.disk[t] = v.disk[t]
  <2>1. t \in v.used /\ \A x \in Entries : t # f[x] \/ t = 0
    BY <1>1, <1>2
  <2> QED  BY <1>9, <2>1
<1>15. ASSUME NEW t \in D, t # s PROVE Tree(w, ids[t]) = Tree(v, ids[t])
  <2>1. PICK k, kd : k = Tree(v, ids[t]) /\ kd = ids[t]
    OBVIOUS
  <2>2. ASSUME NEW x \in Entries, k[x] # 0 PROVE w.disk[k[x]] = v.disk[k[x]]
    <3>1. PICK y : y = k[x]
      OBVIOUS
    <3>2. y \in v.used /\ \A z \in Entries : y # f[z]
      BY <1>1, <1>2, <1>15, <2>1, <2>2, <3>1
    <3> QED  BY <1>9, <3>1, <3>2
  <2>3. Tree(w, kd) = Tree(v, kd)
    BY <2>1, <2>2, FrameTree
  <2> QED  BY <2>1, <2>3
<1>16. Proper(w.used, g)
  BY <1>5, <1>9, ExtendedProper
<1>17. ASSUME NEW t \in D, t # s, NEW x \in Entries, NEW y \in Entries, h[x] # 0,
              h[x] = Tree(v, ids[t])[y]
       PROVE  FALSE
  <2>1. h[x] \in v.used
    BY <1>2, <1>17
  <2>2. f[x] = h[x]
    BY <1>13, <1>17, <2>1
  <2> QED  BY <1>1, <1>2, <1>17, <2>2
<1>18. ASSUME NEW t \in D, NEW x \in Entries, Tree(w, ids[t])[x] # 0
       PROVE  Tree(w, ids[t])[x] \in w.used \ D
  <2>1. CASE t = s
    BY <1>8, <1>13, <1>18, <2>1
  <2>2. CASE t # s
    BY <1>2, <1>11, <1>15, <1>18, <2>2
  <2> QED  BY <2>1, <2>2
<1>19. ASSUME NEW t \in D, NEW c \in D, NEW x \in Entries, NEW y \in Entries,
              Tree(w, ids[t])[x] = Tree(w, ids[c])[y], Tree(w, ids[t])[x] # 0
       PROVE  t = c /\ x = y
  <2>1. CASE t = s /\ c = s
    <3>1. g[x] = g[y] /\ g[x] # 0
      BY <1>8, <1>12, <1>19, <2>1
    <3> QED  BY <1>10, <1>16, <2>1, <3>1 DEF Proper
  <2>2. CASE t = s /\ c # s
    BY <1>8, <1>15, <1>17, <1>19, <2>2
  <2>3. CASE t # s /\ c = s
    BY <1>8, <1>15, <1>17, <1>19, <2>3
  <2>4. CASE t # s /\ c # s
    BY <1>2, <1>15, <1>19, <2>4
  <2> QED  BY <2>1, <2>2, <2>3, <2>4
<1>20. D \subseteq w.used
  BY <1>2, <1>11
<1>21. Sound(w, ids)
  BY <1>1, <1>2, <1>9, <1>18, <1>19, <1>20 DEF Sound
<1>22. ASSUME NEW t \in D PROVE Backed(w, t, ids[t])
  <2>1. PICK kd : kd = ids[t]
    OBVIOUS
  <2>2. Backed(v, t, kd) /\ w.disk[t] = v.disk[t]
    BY <1>2, <1>14, <2>1
  <2>3. CASE t # s
    BY <1>15, <2>1, <2>2, <2>3, BackedStays
  <2>4. CASE t = s
    <3>1. \A x \in Entries : Tree(v, kd)[x] # 0 => Tree(w, kd)[x] # 0
      BY <1>1, <1>8, <1>12, <2>1, <2>4
    <3>2. \A n : Covered(v, kd, n) => Covered(w, kd, n)
      BY <3>1 DEF Covered
    <3> QED  BY <2>1, <2>2, <3>2 DEF Backed
  <2> QED  BY <2>3, <2>4
<1> QED  BY <1>1, <1>14, <1>21, <1>22 DEF Good

-----------------------------------------------------------------------------
(* What the properties say of an inode.                                    *)

(* Owned: what is at the entries. *)
LEMMA OwnedIs ==
    ASSUME NEW v, IsVolume(v), NEW id, IsInode(id)
    PROVE  \A c : c \in Owned(v, id) <=> c # 0 /\ \E x \in Entries : Tree(v, id)[x] = c
<1>1. PICK d, i, e : d = id.direct /\ i = id.indirect /\ e = id.doubly
  OBVIOUS
<1>2. d \in [1 .. DIRECT_INDEX_NUM -> Sectors] /\ i \in Sectors /\ e \in Sectors
  BY <1>1 DEF IsInode
<1>3. \A t \in Sectors : IndexAt(v, t) \in [1 .. INDIRECT_INDEX_SECTOR_NUM -> Sectors]
  BY DEF IsVolume
<1>4. ASSUME NEW t \in Sectors
      PROVE  \A c : c \in BlocksOf(v, t)
                    <=> c # 0 /\ t # 0 /\ \E b \in 1 .. INDIRECT_INDEX_SECTOR_NUM : IndexAt(v, t)[b] = c
  <2>1. DOMAIN IndexAt(v, t) = 1 .. INDIRECT_INDEX_SECTOR_NUM
    BY <1>3
  <2> QED  BY <2>1 DEF BlocksOf, Range
<1>5. ASSUME NEW c
      PROVE  c \in Owned(v, id) <=>
                \/ c # 0 /\ c \in {e, i}
                \/ c # 0 /\ \E b \in 1 .. DIRECT_INDEX_NUM : d[b] = c
                \/ c \in BlocksOf(v, i) \/ c \in BlocksOf(v, e)
                \/ \E t \in BlocksOf(v, e) : c \in BlocksOf(v, t)
  <2>1. DOMAIN d = 1 .. DIRECT_INDEX_NUM
    BY <1>2
  <2> QED  BY <1>1, <2>1 DEF Owned, Range
<1>6. BlocksOf(v, e) \subseteq Sectors
  <2> SUFFICES ASSUME NEW c, c \in BlocksOf(v, e) PROVE c \in Sectors
    OBVIOUS
  <2>1. PICK b \in 1 .. INDIRECT_INDEX_SECTOR_NUM : IndexAt(v, e)[b] = c
    BY <1>2, <1>4
  <2> QED  BY <1>2, <1>3, <2>1
<1>7. ASSUME NEW t \in Sectors, t # 0, NEW b \in 1 .. INDIRECT_INDEX_SECTOR_NUM
      PROVE  RowEntry(v, t, b) = IndexAt(v, t)[b] /\ b \in Cols /\ RowEntry(v, t, 0) = t
  BY <1>7, ColsAre DEF RowEntry
<1>8. 0 \in Rows /\ 0 \in Cols /\ LastRow \in Rows /\ LastRow # 0 /\ LastRow \in 1 .. LastRow
  BY RowsAre, ColsAre
<1>9. ASSUME NEW c, c \in Owned(v, id) PROVE c # 0 /\ \E x \in Entries : Tree(v, id)[x] = c
  <2>1. CASE c # 0 /\ c = e
    <3>1. TreeEntry(v, id, 0, 0) = e
      BY <1>1, TreeNodes
    <3> QED  BY <1>8, <2>1, <3>1, TreeAt
  <2>2. CASE c # 0 /\ c = i
    <3>1. TreeEntry(v, id, LastRow, 0) = i
      BY <1>1, <1>8, TreeNodes
    <3> QED  BY <1>8, <2>2, <3>1, TreeAt
  <2>3. ASSUME c # 0, NEW b \in 1 .. DIRECT_INDEX_NUM, d[b] = c
        PROVE  \E x \in Entries : Tree(v, id)[x] = c
    <3>1. b \in Cols /\ b # 0 /\ ~(b > DIRECT_INDEX_NUM)
      BY ColsAre
    <3>2. TreeEntry(v, id, 0, b) = c
      BY <1>1, <2>3, <3>1 DEF TreeEntry, TopEntry
    <3> QED  BY <1>8, <3>1, <3>2, TreeAt
  <2>4. CASE c \in BlocksOf(v, i)
    <3>1. PICK b \in 1 .. INDIRECT_INDEX_SECTOR_NUM : c # 0 /\ i # 0 /\ IndexAt(v, i)[b] = c
      BY <1>2, <1>4, <2>4
    <3>2. RowEntry(v, i, b) = c /\ b \in Cols
      BY <1>2, <1>7, <3>1
    <3>3. TreeEntry(v, id, LastRow, b) = c
      BY <1>1, <1>8, <3>2, TreeNodes DEF TreeEntry
    <3> QED  BY <1>8, <3>1, <3>2, <3>3, TreeAt
  <2>5. ASSUME NEW t, t \in BlocksOf(v, e)
        PROVE  \E a \in 1 .. INDIRECT_INDEX_SECTOR_NUM :
                   /\ t # 0 /\ t \in Sectors /\ Node(v, id, a) = t
                   /\ a \in Rows /\ a # 0 /\ a \in 1 .. LastRow
    <3>1. PICK a \in 1 .. INDIRECT_INDEX_SECTOR_NUM : t # 0 /\ e # 0 /\ IndexAt(v, e)[a] = t
      BY <1>2, <1>4, <2>5
    <3>2. a # LastRow /\ a \in Rows /\ a # 0 /\ a \in 1 .. LastRow
      BY RowsAre
    <3>3. Node(v, id, a) = t
      BY <1>1, <3>1, <3>2 DEF Node
    <3> QED  BY <1>6, <2>5, <3>1, <3>2, <3>3
  <2>6. CASE c \in BlocksOf(v, e)
    <3>1. PICK a \in 1 .. INDIRECT_INDEX_SECTOR_NUM :
                   c # 0 /\ Node(v, id, a) = c /\ a \in Rows /\ a \in 1 .. LastRow
      BY <2>5, <2>6
    <3>2. TreeEntry(v, id, a, 0) = c
      BY <3>1, TreeNodes
    <3> QED  BY <1>8, <3>1, <3>2, TreeAt
  <2>7. ASSUME NEW t, t \in BlocksOf(v, e), c \in BlocksOf(v, t)
        PROVE  c # 0 /\ \E x \in Entries : Tree(v, id)[x] = c
    <3>1. PICK a \in 1 .. INDIRECT_INDEX_SECTOR_NUM :
                   t # 0 /\ t \in Sectors /\ Node(v, id, a) = t /\ a \in Rows /\ a # 0
      BY <2>5, <2>7
    <3>2. PICK b \in 1 .. INDIRECT_INDEX_SECTOR_NUM : c # 0 /\ IndexAt(v, t)[b] = c
      BY <1>4, <2>7, <3>1
    <3>3. RowEntry(v, t, b) = c /\ b \in Cols
      BY <1>7, <3>1, <3>2
    <3>4. TreeEntry(v, id, a, b) = c
      BY <3>1, <3>3 DEF TreeEntry
    <3> QED  BY <3>1, <3>2, <3>3, <3>4, TreeAt
  <2>8. c # 0
    BY <1>2, <1>4, <1>5, <1>6, <1>9
  <2> QED  BY <1>5, <1>9, <2>1, <2>2, <2>3, <2>4, <2>6, <2>7, <2>8
<1>10. ASSUME NEW x \in Entries, Tree(v, id)[x] # 0 PROVE Tree(v, id)[x] \in Owned(v, id)
  <2>1. PICK a \in Rows, b \in Cols : x = <<a, b>>
    BY RowsAre
  <2>2. PICK c : c = Tree(v, id)[x]
    OBVIOUS
  <2>3. c # 0 /\ c = TreeEntry(v, id, a, b) /\ b \in Nat
    BY <1>10, <2>1, <2>2, TreeAt, ColsAre
  <2>4. CASE a = 0
    <3>1. c = TopEntry(id, b)
      BY <2>3, <2>4 DEF TreeEntry
    <3>2. CASE b = 0
      BY <1>1, <1>5, <2>2, <2>3, <3>1, <3>2 DEF TopEntry
    <3>3. CASE b # 0
      <4>1. b \in 1 .. DIRECT_INDEX_NUM /\ c = d[b]
        BY <1>1, <2>3, <3>1, <3>3, ColsAre DEF TopEntry
      <4> QED  BY <1>5, <2>2, <2>3, <4>1
    <3> QED  BY <3>2, <3>3
  <2>5. ASSUME a # 0, NEW t \in Sectors, t = Node(v, id, a)
        PROVE  t # 0 /\ (c = t \/ c \in BlocksOf(v, t))
    <3>1. c = RowEntry(v, t, b)
      BY <2>3, <2>5 DEF TreeEntry
    <3>2. t # 0
      BY <2>3, <3>1 DEF RowEntry
    <3>3. CASE b = 0
      BY <3>1, <3>2, <3>3 DEF RowEntry
    <3>4. CASE b # 0
      <4>1. b \in 1 .. INDIRECT_INDEX_SECTOR_NUM /\ c = IndexAt(v, t)[b]
        BY <2>3, <3>1, <3>2, <3>4, ColsAre DEF RowEntry
      <4> QED  BY <1>4, <2>3, <3>2, <4>1
    <3> QED  BY <3>2, <3>3, <3>4
  <2>6. CASE a = LastRow
    <3>1. Node(v, id, a) = i /\ a # 0
      BY <1>1, <1>8, <2>6, TreeNodes
    <3>2. c = i \/ c \in BlocksOf(v, i)
      BY <1>2, <2>5, <3>1
    <3> QED  BY <1>5, <2>2, <2>3, <3>2
  <2>7. CASE a \in 1 .. INDIRECT_INDEX_SECTOR_NUM
    <3>1. a # 0 /\ a # LastRow
      BY <2>7, RowsAre
    <3>2. PICK t : t = Node(v, id, a)
      OBVIOUS
    <3>3. t = IF e = 0 THEN 0 ELSE IndexAt(v, e)[a]
      BY <1>1, <3>1, <3>2 DEF Node
    <3>4. t \in Sectors
      BY <1>2, <1>3, <2>7, <3>3, ColsAre
    <3>5. t # 0 /\ (c = t \/ c \in BlocksOf(v, t))
      BY <2>5, <3>1, <3>2, <3>4
    <3>6. t \in BlocksOf(v, e)
      BY <1>2, <1>4, <2>7, <3>3, <3>5
    <3> QED  BY <1>5, <2>2, <2>3, <3>5, <3>6
  <2> QED  BY <2>4, <2>6, <2>7, RowsAre
<1> QED  BY <1>9, <1>10

(* The sector with a byte of a file, byte_to_sector's case distinction. *)
LEMMA ByteOwned ==
    ASSUME NEW v, IsVolume(v), NEW id, IsInode(id), Covered(v, id, Blocks(id)),
           NEW pos \in 0 .. id.length - 1
    PROVE  byte_to_sector(v, id, pos) \in Owned(v, id)
<1>1. PICK n, u, d, i : /\ n = Blocks(id) /\ u = BLOCK_SECTOR_SIZE
                        /\ d = DIRECT_INDEX_NUM /\ i = INDIRECT_INDEX_SECTOR_NUM
  OBVIOUS
<1>2. /\ u \in Nat \ {0} /\ d \in Nat /\ d > 0 /\ i \in Nat /\ i > 0
      /\ id.length \in Int /\ pos \in Nat /\ pos < id.length
  BY <1>1, SectorAssumption DEF IsInode
<1>3. n \in Int /\ id.length <= n * u
  BY <1>1, <1>2, RoundUp DEF Blocks
<1>4. PICK index, past, far :
         index = pos \div u /\ past = index - d /\ far = past - i
  OBVIOUS
<1>5. index \in Nat /\ index < n /\ past \in Int /\ far \in Int
  <2>1. index \in Nat /\ u * index <= pos
    BY <1>2, <1>4
  <2>2. index < n
    <3> SUFFICES ASSUME ~(index < n) PROVE FALSE
      OBVIOUS
    <3>1. PICK k \in Nat : index = n + k
      <4>1. index - n \in Nat /\ index = n + (index - n)
        BY <1>3, <2>1
      <4> QED  BY <4>1
    <3>2. u * index = n * u + k * u /\ k * u \in Nat
      BY <1>2, <1>3, <3>1
    <3>3. n * u \in Int
      BY <1>2, <1>3
    <3> QED  BY <1>2, <1>3, <2>1, <3>2, <3>3
  <2> QED  BY <1>2, <1>4, <2>1, <2>2
<1>6. n \in Nat /\ n <= Capacity /\ \A x \in Entries : Needs(n, x) => Tree(v, id)[x] # 0
  BY <1>1, <1>3, <1>5 DEF Covered
<1>7. \A x \in Entries : Needs(n, x) => Tree(v, id)[x] \in Owned(v, id)
  BY <1>6, OwnedIs
<1>8. CASE past < 0
  <2>1. byte_to_sector(v, id, pos) = id.direct[index + 1]
    BY <1>1, <1>4, <1>8 DEF byte_to_sector
  <2>2. index + 1 \in 1 .. DirectPart(n)
    BY <1>1, <1>2, <1>4, <1>5, <1>6, <1>8 DEF DirectPart, Lesser
  <2>3. 0 \in Rows /\ index + 1 \in Cols /\ index + 1 # 0 /\ ~(index + 1 > DIRECT_INDEX_NUM)
    BY <1>1, <1>2, <1>4, <1>5, <1>8, ColsAre, RowsAre
  <2>4. Needs(n, <<0, index + 1>>)
    BY <2>2 DEF Needs
  <2>5. Tree(v, id)[<<0, index + 1>>] = TreeEntry(v, id, 0, index + 1) /\ <<0, index + 1>> \in Entries
    BY <2>3, TreeAt
  <2>6. TreeEntry(v, id, 0, index + 1) = id.direct[index + 1]
    BY <2>3 DEF TreeEntry, TopEntry
  <2> QED  BY <1>7, <2>1, <2>4, <2>5, <2>6
<1>9. ~(past < 0) => DirectPart(n) = d /\ IndirectPart(n) = Lesser(n - d, i)
  BY <1>1, <1>2, <1>4, <1>5, <1>6 DEF DirectPart, IndirectPart, Lesser
<1>10. CASE ~(past < 0) /\ far < 0
  <2>1. byte_to_sector(v, id, pos) = IndexAt(v, id.indirect)[past + 1]
    BY <1>1, <1>4, <1>10 DEF byte_to_sector
  <2>2. PICK b : b = past + 1
    OBVIOUS
  <2>3. b \in Nat /\ b > 0 /\ b <= i /\ b <= IndirectPart(n) /\ IndirectPart(n) > 0
    BY <1>2, <1>4, <1>5, <1>6, <1>9, <1>10, <2>2 DEF Lesser
  <2>4. Needs(n, <<LastRow, b>>) /\ Needs(n, <<LastRow, 0>>)
    <3>1. 0 <= IndirectPart(n)
      BY <1>2, <1>4, <1>5, <1>6, <1>9, <1>10 DEF Lesser
    <3> QED  BY <2>3, <3>1 DEF Needs
  <2>5. LastRow \in Rows /\ LastRow # 0 /\ LastRow \in 1 .. LastRow /\ b \in Cols /\ 0 \in Cols
    BY <1>1, <2>3, RowsAre, ColsAre
  <2>6. /\ Tree(v, id)[<<LastRow, b>>] = TreeEntry(v, id, LastRow, b) /\ <<LastRow, b>> \in Entries
        /\ Tree(v, id)[<<LastRow, 0>>] = TreeEntry(v, id, LastRow, 0) /\ <<LastRow, 0>> \in Entries
    BY <2>5, TreeAt
  <2>7. TreeEntry(v, id, LastRow, 0) = id.indirect /\ Node(v, id, LastRow) = id.indirect
    BY <2>5, TreeNodes
  <2>8. id.indirect # 0
    BY <1>6, <2>4, <2>6, <2>7
  <2>9. b # 0 /\ ~(b > INDIRECT_INDEX_SECTOR_NUM)
    BY <1>1, <1>2, <2>3
  <2>10. TreeEntry(v, id, LastRow, b) = IndexAt(v, id.indirect)[b]
    BY <2>5, <2>7, <2>8, <2>9 DEF TreeEntry, RowEntry
  <2> QED  BY <1>7, <2>1, <2>2, <2>4, <2>6, <2>10
<1>11. CASE ~(past < 0) /\ ~(far < 0)
  <2>1. PICK p, q, a, b : p = far \div i /\ q = far % i /\ a = p + 1 /\ b = q + 1
    OBVIOUS
  <2>2. p \in Nat /\ q \in 0 .. i - 1 /\ far = i * p + q
    BY <1>2, <1>5, <1>11, <2>1
  <2>3. byte_to_sector(v, id, pos) = IndexAt(v, IndexAt(v, id.doubly)[a])[b]
    BY <1>1, <1>4, <1>11, <2>1 DEF byte_to_sector
  <2>4. PICK m, k : m = DoublyPart(n) /\ k = i * i
    OBVIOUS
  <2>5. IndirectPart(n) = i
    BY <1>2, <1>4, <1>5, <1>6, <1>9, <1>11 DEF Lesser
  <2>6. DoublyNum = k /\ n <= d + i + k /\ k \in Nat
    BY <1>1, <1>2, <1>6, <2>4 DEF Capacity, DoublyNum
  <2>7. m = n - d - i /\ far < m /\ m \in Nat /\ m > 0 /\ m <= k
    <3>1. m = n - d - i
      BY <1>2, <1>6, <1>9, <1>11, <2>4, <2>5, <2>6 DEF DoublyPart, Lesser
    <3> QED  BY <1>2, <1>4, <1>5, <1>6, <1>11, <2>6, <3>1
  <2>8. PICK z : z = i * p
    OBVIOUS
  <2>9. z \in Nat /\ (a - 1) * i = z /\ z <= far /\ far = z + q
    BY <1>2, <2>1, <2>2, <2>8
  <2>10. p < i
    <3> SUFFICES ASSUME ~(p < i) PROVE FALSE
      OBVIOUS
    <3>1. PICK j \in Nat : p = i + j
      <4>1. p - i \in Nat /\ p = i + (p - i)
        BY <1>2, <2>2
      <4> QED  BY <4>1
    <3>2. z = k + i * j /\ i * j \in Nat
      BY <1>2, <2>4, <2>8, <3>1
    <3> QED  BY <1>5, <2>6, <2>7, <2>9, <3>2
  <2>11. PICK r : r = bytes_to_sectors(m, i)
    OBVIOUS
  <2>12. r \in Int /\ m <= r * i
    BY <1>2, <2>7, <2>11, RoundUp
  <2>13. p < r
    <3> SUFFICES ASSUME ~(p < r) PROVE FALSE
      OBVIOUS
    <3>1. PICK j \in Nat : p = r + j
      <4>1. p - r \in Nat /\ p = r + (p - r)
        BY <2>2, <2>12
      <4> QED  BY <4>1
    <3>2. z = r * i + i * j /\ i * j \in Nat /\ r * i \in Int
      BY <1>2, <2>8, <2>12, <3>1
    <3> QED  BY <1>5, <2>7, <2>9, <2>12, <3>2
  <2>14. a \in 1 .. r /\ a \in 1 .. i /\ b \in 1 .. i
    BY <1>2, <2>1, <2>2, <2>10, <2>12, <2>13
  <2>15. Under(m, a) = Lesser(i, m - z)
    BY <1>1, <2>9 DEF Under
  <2>16. b <= Under(m, a) /\ 0 <= Under(m, a)
    BY <1>2, <1>5, <2>1, <2>2, <2>7, <2>9, <2>15 DEF Lesser
  <2>17. NeedsDeep(m, 0, 0) /\ NeedsDeep(m, a, 0) /\ NeedsDeep(m, a, b)
    BY <1>1, <2>7, <2>11, <2>14, <2>16 DEF NeedsDeep
  <2>18. Needs(n, <<0, 0>>) /\ Needs(n, <<a, 0>>) /\ Needs(n, <<a, b>>)
    BY <2>4, <2>17 DEF Needs
  <2>19. /\ a \in Rows /\ a # 0 /\ a # LastRow /\ a \in 1 .. LastRow /\ b \in Cols
         /\ 0 \in Rows /\ 0 \in Cols /\ b # 0 /\ ~(b > INDIRECT_INDEX_SECTOR_NUM)
    BY <1>1, <1>2, <2>14, RowsAre, ColsAre
  <2>20. /\ Tree(v, id)[<<0, 0>>] = TreeEntry(v, id, 0, 0) /\ <<0, 0>> \in Entries
         /\ Tree(v, id)[<<a, 0>>] = TreeEntry(v, id, a, 0) /\ <<a, 0>> \in Entries
         /\ Tree(v, id)[<<a, b>>] = TreeEntry(v, id, a, b) /\ <<a, b>> \in Entries
    BY <2>19, TreeAt
  <2>21. id.doubly # 0
    BY <1>6, <2>18, <2>20, TreeNodes
  <2>22. PICK t : t = Node(v, id, a)
    OBVIOUS
  <2>23. t = IndexAt(v, id.doubly)[a]
    BY <2>19, <2>21, <2>22 DEF Node
  <2>24. t # 0
    <3>1. TreeEntry(v, id, a, 0) = t
      BY <2>19, <2>22, TreeNodes
    <3> QED  BY <1>6, <2>18, <2>20, <3>1
  <2>25. TreeEntry(v, id, a, b) = IndexAt(v, t)[b]
    BY <2>19, <2>22, <2>24 DEF TreeEntry, RowEntry
  <2> QED  BY <1>7, <2>3, <2>18, <2>20, <2>23, <2>25
<1> QED  BY <1>8, <1>10, <1>11

-----------------------------------------------------------------------------
(* The volume, the directory and the open inodes together.                 *)

(* Entries of the directory. *)
IsEntry(e) == e = [name |-> e.name, sector |-> e.sector, in_use |-> e.in_use]
IsDir(d) == IsList(d) /\ \A i \in 1 .. Len(d) : IsEntry(d[i])
Named(d) == {i \in DOMAIN d : d[i].in_use}
NamedIn(d) == {d[i].sector : i \in Named(d)}

(* The sectors with an inode and the inode of each, Holders and InodeOf. *)
HeldBy(d, o) == NamedIn(d) \cup DOMAIN o \cup SystemSectors
IdsOf(v, d, o) == [s \in HeldBy(d, o) |-> IF s \in DOMAIN o THEN o[s].data ELSE v.disk[s]]

(* DirectoryMatchesInodes. *)
Distinct(d) ==
    \A i, j \in Named(d) : i # j => d[i].name # d[j].name /\ d[i].sector # d[j].sector
Matches(d, o) == \A s \in DOMAIN o : o[s].removed <=> s \notin NamedIn(d)

(* Volume, directory and open inodes fit if causes is what has left sectors *)
(* without a file.                                                          *)
Fits(v, d, o, causes) ==
    /\ Good(v, IdsOf(v, d, o))
    /\ SystemSectors \cap (NamedIn(d) \cup DOMAIN o) = {}
    /\ IsDir(d) /\ Distinct(d) /\ Matches(d, o)
    /\ causes = {} => Tight(v, IdsOf(v, d, o))

(* The open inodes of q are those of o, or some more or fewer; none of them  *)
(* has other data.                                                           *)
SameData(o, q) == \A t \in DOMAIN o \cap DOMAIN q : q[t].data = o[t].data
OneMore(o, s, q) == DOMAIN q = DOMAIN o \cup {s} /\ SameData(o, q)
NoMore(o, q) == DOMAIN q \subseteq DOMAIN o /\ SameData(o, q)

(* Opens and changes of counters: no inode gets other data or is removed. *)
LEMMA FitsCounted ==
    ASSUME NEW v, NEW d, NEW o, NEW l, Fits(v, d, o, l), NEW s, s \in NamedIn(d) \cup DOMAIN o,
           NEW q, DOMAIN q = DOMAIN o \cup {s}, \A t \in DOMAIN o : t # s => q[t] = o[t],
           q[s].data = (IF s \in DOMAIN o THEN o[s].data ELSE v.disk[s]),
           s \in DOMAIN o => q[s].removed = o[s].removed,
           s \notin DOMAIN o => ~q[s].removed
    PROVE  Fits(v, d, q, l)
<1>1. HeldBy(d, q) = HeldBy(d, o)
  BY DEF HeldBy
<1>2. ASSUME NEW t \in HeldBy(d, o)
      PROVE  (IF t \in DOMAIN q THEN q[t].data ELSE v.disk[t])
                = (IF t \in DOMAIN o THEN o[t].data ELSE v.disk[t])
  OBVIOUS
<1>3. IdsOf(v, d, q) = IdsOf(v, d, o)
  BY <1>1, <1>2 DEF IdsOf
<1>4. SystemSectors \cap (NamedIn(d) \cup DOMAIN q) = {}
  BY DEF Fits
<1>5. Matches(d, q)
  BY DEF Fits, Matches
<1> QED  BY <1>3, <1>4, <1>5 DEF Fits

(* inode_open. *)
LEMMA FitsOpened ==
    ASSUME NEW v, NEW d, NEW o, NEW l, Fits(v, d, o, l), NEW s \in NamedIn(d),
           NEW q, q = inode_open(v, o, s)
    PROVE  Fits(v, d, q, l) /\ OneMore(o, s, q)
<1>1. /\ DOMAIN q = DOMAIN o \cup {s}
      /\ \A t \in DOMAIN o : t # s => q[t] = o[t]
      /\ q[s] = IF s \in DOMAIN o THEN Counted(o[s], 1, 0) ELSE NewOpen(v.disk[s])
  BY DEF inode_open, Put
<1>2. /\ q[s].data = (IF s \in DOMAIN o THEN o[s].data ELSE v.disk[s])
      /\ s \in DOMAIN o => q[s].removed = o[s].removed
      /\ s \notin DOMAIN o => ~q[s].removed
  <2>1. CASE s \in DOMAIN o
    BY <1>1, <2>1 DEF Counted, OpenInode
  <2>2. CASE s \notin DOMAIN o
    <3>1. PICK data, new : data = v.disk[s] /\ new = NewOpen(data)
      OBVIOUS
    <3>2. new.data = data
      BY <3>1 DEF NewOpen, OpenInode
    <3>3. ~new.removed
      BY <3>1 DEF NewOpen, OpenInode
    <3>4. q[s] = new
      BY <1>1, <2>2, <3>1
    <3> QED  BY <2>2, <3>1, <3>2, <3>3, <3>4
  <2> QED  BY <2>1, <2>2
<1>3. Fits(v, d, q, l)
  BY <1>1, <1>2, FitsCounted
<1> QED  BY <1>1, <1>2, <1>3 DEF OneMore, SameData

(* Counters. *)
LEMMA FitsPut ==
    ASSUME NEW v, NEW d, NEW o, NEW l, Fits(v, d, o, l), NEW s \in DOMAIN o, NEW a, NEW b,
           NEW q, q = Put(o, s, Counted(o[s], a, b))
    PROVE  Fits(v, d, q, l) /\ OneMore(o, s, q)
<1>1. /\ DOMAIN q = DOMAIN o \cup {s} /\ DOMAIN q = DOMAIN o
      /\ \A t \in DOMAIN o : t # s => q[t] = o[t]
      /\ q[s] = Counted(o[s], a, b)
  BY DEF Put
<1>2. q[s].data = o[s].data /\ q[s].removed = o[s].removed
  BY <1>1 DEF Counted, OpenInode
<1>3. Fits(v, d, q, l)
  BY <1>1, <1>2, FitsCounted
<1> QED  BY <1>1, <1>2, <1>3 DEF OneMore, SameData

(* inode_close. *)
LEMMA FitsClosed ==
    ASSUME NEW v, NEW d, NEW o, NEW l, Fits(v, d, o, l), NEW s \in DOMAIN o,
           NEW c, c = inode_close(v, o, s)
    PROVE  /\ Fits(c.vol, d, c.inodes, l) /\ c.vol.full = v.full /\ c.vol.failed = {}
           /\ NoMore(o, c.inodes)
<1>1. PICK inode : inode = Counted(o[s], -1, 0)
  OBVIOUS
<1>2. inode.data = o[s].data /\ inode.removed = o[s].removed
  BY <1>1 DEF Counted, OpenInode
<1>3. CASE inode.open_cnt > 0
  <2>1. c.vol = v /\ c.inodes = Put(o, s, Counted(o[s], -1, 0))
    BY <1>1, <1>3 DEF inode_close
  <2>2. v.failed = {}
    BY DEF Fits, Good
  <2>3. Fits(v, d, c.inodes, l) /\ OneMore(o, s, c.inodes)
    BY <2>1, FitsPut
  <2>4. NoMore(o, c.inodes)
    BY <2>3 DEF OneMore, NoMore
  <2> QED  BY <2>1, <2>2, <2>3, <2>4
<1>4. CASE ~(inode.open_cnt > 0)
  <2>1. PICK q : q = Without(o, s)
    OBVIOUS
  <2>2. c.inodes = q /\ DOMAIN q = DOMAIN o \ {s} /\ \A t \in DOMAIN q : q[t] = o[t]
    BY <1>1, <1>4, <2>1 DEF inode_close, Without
  <2>3. PICK ids : ids = IdsOf(v, d, o)
    OBVIOUS
  <2>4. /\ DOMAIN ids = HeldBy(d, o) /\ s \in DOMAIN ids /\ ids[s] = o[s].data
        /\ \A t \in DOMAIN ids : ids[t] = IF t \in DOMAIN o THEN o[t].data ELSE v.disk[t]
    BY <2>3 DEF IdsOf, HeldBy
  <2>5. s \notin SystemSectors /\ s # 0 /\ s \in Files(ids)
    BY <2>4 DEF Fits, SystemSectors, FREE_MAP_SECTOR, Files
  <2>6. /\ Good(v, ids)
        /\ l = {} => Tight(v, ids)
        /\ SystemSectors \cap (NamedIn(d) \cup DOMAIN q) = {}
        /\ IsDir(d) /\ Distinct(d) /\ Matches(d, q)
    BY <2>2, <2>3 DEF Fits, Matches
  <2>k. NoMore(o, c.inodes)
    BY <2>2 DEF NoMore, SameData
  <2>7. CASE inode.removed
    <3>1. c.vol = inode_deallocate(free_map_release(v, s), ids[s])
      BY <1>1, <1>2, <1>4, <2>4, <2>7 DEF inode_close
    <3>2. PICK w : w = c.vol
      OBVIOUS
    <3>3. /\ Good(w, Except(ids, s)) /\ w.full = v.full
          /\ Tight(v, ids) /\ s \in Files(ids) => Tight(w, Except(ids, s))
          /\ w.disk = v.disk
      BY <2>4, <2>5, <2>6, <3>1, <3>2, Deallocate
    <3>4. s \notin NamedIn(d)
      BY <1>2, <2>7 DEF Fits, Matches
    <3>5. HeldBy(d, q) = DOMAIN ids \ {s}
      BY <2>2, <2>4, <2>5, <3>4 DEF HeldBy
    <3>6. \A t \in HeldBy(d, q) :
             (IF t \in DOMAIN q THEN q[t].data ELSE w.disk[t]) = ids[t]
      BY <2>2, <2>4, <3>3, <3>5
    <3>7. IdsOf(w, d, q) = Except(ids, s)
      BY <3>5, <3>6 DEF IdsOf, Except
    <3>8. Fits(w, d, q, l)
      BY <2>5, <2>6, <3>3, <3>7 DEF Fits
    <3>9. w.failed = {}
      BY <3>3 DEF Good
    <3> QED  BY <2>2, <2>k, <3>2, <3>3, <3>8, <3>9
  <2>8. CASE ~inode.removed
    <3>1. c.vol = v
      BY <1>1, <1>4, <2>8 DEF inode_close
    <3>2. s \in NamedIn(d)
      BY <1>2, <2>8 DEF Fits, Matches
    <3>3. HeldBy(d, q) = DOMAIN ids
      BY <2>2, <2>4, <3>2 DEF HeldBy
    <3>4. PICK jds : jds = IdsOf(v, d, q)
      OBVIOUS
    <3>5. /\ DOMAIN jds = DOMAIN ids
          /\ \A t \in DOMAIN jds : jds[t] = IF t \in DOMAIN q THEN q[t].data ELSE v.disk[t]
      BY <3>3, <3>4 DEF IdsOf
    <3>6. \A t \in DOMAIN jds : /\ jds[t] = ids[t] \/ jds[t] = v.disk[t]
                                /\ t # s => jds[t] = ids[t]
      BY <2>2, <2>4, <3>5
    <3>7. /\ Good(v, jds)
          /\ Tight(v, ids) /\ DOMAIN jds = DOMAIN ids
              /\ (\A t \in DOMAIN jds : t \notin Files(ids) => jds[t] = ids[t])
              => Tight(v, jds)
      BY <2>6, <3>5, <3>6, Reread
    <3>8. Fits(v, d, q, l)
      BY <2>5, <2>6, <3>4, <3>5, <3>6, <3>7 DEF Fits
    <3>9. v.failed = {}
      BY <2>6 DEF Good
    <3> QED  BY <2>2, <2>k, <3>1, <3>8, <3>9
  <2> QED  BY <2>7, <2>8
<1> QED  BY <1>3, <1>4

(* file_close. *)
LEMMA FitsFileClosed ==
    ASSUME NEW v, NEW d, NEW o, NEW l, Fits(v, d, o, l), NEW f, f.sector \in DOMAIN o,
           f.deny_write => /\ DenyInRange(o[f.sector])
                           /\ Counted(o[f.sector], 0, -1).deny_write_cnt >= 0,
           NEW c, c = file_close(v, o, f)
    PROVE  /\ Fits(c.vol, d, c.inodes, l) /\ c.vol.full = v.full /\ c.vol.failed = {}
           /\ NoMore(o, c.inodes)
<1>1. CASE ~f.deny_write
  <2>1. c = inode_close(v, o, f.sector)
    BY <1>1 DEF file_close
  <2> QED  BY <2>1, FitsClosed
<1>2. CASE f.deny_write
  <2>1. PICK s, q : s = f.sector /\ q = Put(o, s, Counted(o[s], 0, -1))
    OBVIOUS
  <2>2. c = inode_close(v, q, s)
    BY <1>2, <2>1 DEF file_close
  <2>3. Fits(v, d, q, l) /\ OneMore(o, s, q)
    BY <2>1, FitsPut
  <2>s. s \in DOMAIN q
    BY <2>3 DEF OneMore
  <2>4. /\ Fits(c.vol, d, c.inodes, l) /\ c.vol.full = v.full /\ c.vol.failed = {}
        /\ NoMore(q, c.inodes)
    BY <2>2, <2>3, <2>s, FitsClosed
  <2>5. NoMore(o, c.inodes)
    BY <2>1, <2>3, <2>4 DEF NoMore, OneMore, SameData
  <2> QED  BY <2>4, <2>5
<1> QED  BY <1>1, <1>2

(* The entries of d without one, and with one more. *)
TakenFrom(d, i, e) ==
    /\ IsDir(e) /\ i \in Named(d) /\ Named(e) = Named(d) \ {i}
    /\ \A j \in Named(e) : e[j].name = d[j].name /\ e[j].sector = d[j].sector
AddedTo(d, k, n, s, e) ==
    /\ IsDir(e) /\ k \notin Named(d) /\ Named(e) = Named(d) \cup {k}
    /\ e[k].name = n /\ e[k].sector = s
    /\ \A j \in Named(d) : e[j] = d[j]

(* dir_remove: the entry is erased and the open inode marked. *)
LEMMA FitsRemoved ==
    ASSUME NEW v, NEW d, NEW o, NEW l, Fits(v, d, o, l), NEW i, NEW e, TakenFrom(d, i, e),
           NEW s, s = d[i].sector, s \in DOMAIN o, NEW q, q = Put(o, s, Removed(o[s]))
    PROVE  Fits(v, e, q, l) /\ OneMore(o, s, q)
<1>1. /\ DOMAIN q = DOMAIN o /\ q[s] = Removed(o[s])
      /\ \A t \in DOMAIN o : t # s => q[t] = o[t]
  BY DEF Put
<1>2. q[s].data = o[s].data /\ q[s].removed
  BY <1>1 DEF Removed, OpenInode
<1>3. NamedIn(e) = NamedIn(d) \ {s}
  <2>1. ASSUME NEW t \in NamedIn(e) PROVE t \in NamedIn(d) /\ t # s
    BY <2>1 DEF NamedIn, TakenFrom, Fits, Distinct
  <2>2. ASSUME NEW t \in NamedIn(d), t # s PROVE t \in NamedIn(e)
    BY <2>2 DEF NamedIn, TakenFrom
  <2> QED  BY <2>1, <2>2
<1>4. HeldBy(e, q) = HeldBy(d, o)
  BY <1>1, <1>3 DEF HeldBy
<1>5. \A t \in HeldBy(d, o) : (IF t \in DOMAIN q THEN q[t].data ELSE v.disk[t])
                                = (IF t \in DOMAIN o THEN o[t].data ELSE v.disk[t])
  BY <1>1, <1>2
<1>6. IdsOf(v, e, q) = IdsOf(v, d, o)
  BY <1>4, <1>5 DEF IdsOf
<1>7. Distinct(e)
  BY DEF Distinct, TakenFrom, Fits
<1>8. Matches(e, q)
  BY <1>1, <1>2, <1>3 DEF Matches, Fits
<1>9. SystemSectors \cap (NamedIn(e) \cup DOMAIN q) = {} /\ IsDir(e)
  BY <1>1, <1>3 DEF Fits, TakenFrom
<1> QED  BY <1>1, <1>2, <1>6, <1>7, <1>8, <1>9 DEF Fits, OneMore, SameData

(* A halt: the open inodes are forgotten. *)
LEMMA FitsRebooted ==
    ASSUME NEW v, NEW d, NEW o, NEW l, Fits(v, d, o, l), NEW q, DOMAIN q = {}, NEW m,
           m = {} => l = {} /\ \A s \in DOMAIN o : ~o[s].removed
    PROVE  Fits(v, d, q, m)
<1>1. PICK ids, jds : ids = IdsOf(v, d, o) /\ jds = IdsOf(v, d, q)
  OBVIOUS
<1>2. /\ DOMAIN ids = HeldBy(d, o) /\ DOMAIN jds = HeldBy(d, q)
      /\ \A t \in DOMAIN ids : ids[t] = IF t \in DOMAIN o THEN o[t].data ELSE v.disk[t]
      /\ \A t \in DOMAIN jds : jds[t] = v.disk[t]
  BY <1>1 DEF IdsOf
<1>3. HeldBy(d, q) \subseteq HeldBy(d, o)
  BY DEF HeldBy
<1>4. \A t \in DOMAIN jds : t \notin Files(ids) => jds[t] = ids[t]
  BY <1>2, <1>3 DEF Fits, Files, SystemSectors, FREE_MAP_SECTOR, ROOT_DIR_SECTOR
<1>5. Good(v, ids) /\ (l = {} => Tight(v, ids))
  BY <1>1 DEF Fits
<1>6. /\ Good(v, jds)
      /\ Tight(v, ids) /\ DOMAIN jds = DOMAIN ids
          /\ (\A t \in DOMAIN jds : t \notin Files(ids) => jds[t] = ids[t])
          => Tight(v, jds)
  BY <1>2, <1>3, <1>5, Reread
<1>7. m = {} => HeldBy(d, q) = HeldBy(d, o)
  BY DEF HeldBy, Fits, Matches
<1>8. m = {} => Tight(v, jds)
  BY <1>2, <1>4, <1>5, <1>6, <1>7
<1>9. SystemSectors \cap (NamedIn(d) \cup DOMAIN q) = {} /\ Matches(d, q)
  BY DEF Fits, Matches
<1> QED  BY <1>1, <1>6, <1>8, <1>9 DEF Fits

(* A halt in the middle of a call: more sectors are marked. *)
LEMMA FitsMarking ==
    ASSUME NEW v, NEW d, NEW o, NEW l, Fits(v, d, o, l), NEW x, NEW w \in Marking(v, x),
           NEW m, m # {}
    PROVE  Fits(w, d, o, m)
<1>1. PICK ids, n, X : /\ ids = IdsOf(v, d, o) /\ X = {c \in FreeSectors(v) \cap x.used : c <= n}
                       /\ w = Volume(v.used \cup X, v.disk, v.full, v.failed)
  BY DEF Marking
<1>2. X \subseteq Sectors
  BY <1>1 DEF FreeSectors
<1>3. Good(v, ids)
  BY <1>1 DEF Fits
<1>a. w = Volume(v.used \cup X, v.disk, v.full, v.failed)
  BY <1>1
<1>4. Good(w, ids) /\ w.disk = v.disk
  BY <1>a, <1>2, <1>3, MoreMarked
<1>5. IdsOf(w, d, o) = ids
  BY <1>1, <1>4 DEF IdsOf
<1> QED  BY <1>4, <1>5 DEF Fits

(* A file or the directory is growing. *)
LEMMA FitsGrowing ==
    ASSUME NEW v, NEW d, NEW o, NEW l, Fits(v, d, o, l), NEW s \in HeldBy(d, o),
           NEW id, id = (IF s \in DOMAIN o THEN o[s].data ELSE v.disk[s]), NEW length \in Int,
           NEW w \in Growing(v, id, length), ~w.full, w.failed = {}, NEW m, m # {}
    PROVE  Fits(w, d, o, m)
<1>1. PICK ids : ids = IdsOf(v, d, o)
  OBVIOUS
<1>2. /\ DOMAIN ids = HeldBy(d, o) /\ ids[s] = id /\ Good(v, ids)
      /\ \A t \in DOMAIN ids : ids[t] = IF t \in DOMAIN o THEN o[t].data ELSE v.disk[t]
  BY <1>1 DEF IdsOf, Fits
<1>3. PICK n, u, x : /\ n \in 0 .. length
                     /\ u = inode_allocate(v, Resized(id, n)).vol /\ w \in Marking(u, x)
  BY DEF Growing
<1>4. n \in Nat
  BY <1>3
<1>5. u.full = w.full /\ u.failed = w.failed
  BY <1>3 DEF Marking, Volume
<1>6. Good(u, ids) /\ \A t \in DOMAIN ids : u.disk[t] = v.disk[t]
  BY <1>2, <1>3, <1>4, <1>5, Unsaved
<1>7. \A t \in HeldBy(d, o) : (IF t \in DOMAIN o THEN o[t].data ELSE u.disk[t])
                                 = (IF t \in DOMAIN o THEN o[t].data ELSE v.disk[t])
  BY <1>2, <1>6
<1>8. IdsOf(u, d, o) = ids
  BY <1>1, <1>7 DEF IdsOf
<1>9. Fits(u, d, o, m)
  BY <1>6, <1>8 DEF Fits
<1> QED  BY <1>3, <1>9, FitsMarking

(* The open inodes are forgotten and some entries are not there. *)
LEMMA FitsForgotten ==
    ASSUME NEW v, NEW d, NEW o, NEW l, Fits(v, d, o, l), NEW q, DOMAIN q = {}, NEW m, m # {},
           NEW e, IsDir(e), Distinct(e), NamedIn(e) \subseteq NamedIn(d)
    PROVE  Fits(v, e, q, m)
<1>1. PICK ids, jds : ids = IdsOf(v, d, o) /\ jds = IdsOf(v, e, q)
  OBVIOUS
<1>2. /\ DOMAIN ids = HeldBy(d, o) /\ DOMAIN jds = HeldBy(e, q)
      /\ \A t \in DOMAIN jds : jds[t] = v.disk[t]
  BY <1>1 DEF IdsOf
<1>3. HeldBy(e, q) \subseteq HeldBy(d, o)
  BY DEF HeldBy
<1>4. Good(v, ids)
  BY <1>1 DEF Fits
<1>5. Good(v, jds)
  BY <1>2, <1>3, <1>4, Reread
<1>6. SystemSectors \cap (NamedIn(e) \cup DOMAIN q) = {} /\ Matches(e, q)
  BY DEF Fits, Matches
<1> QED  BY <1>1, <1>5, <1>6 DEF Fits

(* inode_close has released some sectors. *)
LEMMA FitsReleasing ==
    ASSUME NEW v, NEW d, NEW o, NEW l, Fits(v, d, o, l), NEW s \in DOMAIN o,
           NEW c, c = inode_close(v, o, s), NEW w \in Releasing(v, c.vol),
           NEW q, DOMAIN q = {}, NEW m, m # {}
    PROVE  Fits(w, d, q, m) /\ w.failed = {} /\ w.full = v.full
<1>0. PICK R \in (SUBSET (v.used \ c.vol.used)) \ {v.used \ c.vol.used} :
         w = Volume(v.used \ R, v.disk, v.full, v.failed)
  BY DEF Releasing
<1>1. R \subseteq v.used \ c.vol.used /\ R # v.used \ c.vol.used /\ w = Freed(v, R)
  BY <1>0 DEF Freed
<1>2. PICK ids, inode : ids = IdsOf(v, d, o) /\ inode = Counted(o[s], -1, 0)
  OBVIOUS
<1>3. inode.data = o[s].data /\ inode.removed = o[s].removed
  BY <1>2 DEF Counted, OpenInode
<1>4. ~(inode.open_cnt > 0) /\ inode.removed
  <2>1. c.vol # v
    BY <1>1
  <2> QED  BY <1>2, <2>1 DEF inode_close
<1>5. /\ DOMAIN ids = HeldBy(d, o) /\ s \in DOMAIN ids /\ ids[s] = o[s].data /\ Good(v, ids)
      /\ \A t \in DOMAIN ids : ids[t] = IF t \in DOMAIN o THEN o[t].data ELSE v.disk[t]
  BY <1>2 DEF IdsOf, HeldBy, Fits
<1>6. c.vol = inode_deallocate(free_map_release(v, s), ids[s])
  BY <1>2, <1>3, <1>4, <1>5 DEF inode_close
<1>7. s # 0 /\ s \notin SystemSectors /\ s \notin NamedIn(d)
  BY <1>3, <1>4 DEF Fits, SystemSectors, FREE_MAP_SECTOR, Matches
<1>8. PICK u : u = c.vol
  OBVIOUS
<1>9. /\ 0 \in u.used
      /\ \A x \in v.used \ u.used : x = s \/ \E y \in Entries : Tree(v, ids[s])[y] = x
  BY <1>5, <1>6, <1>7, <1>8, Deallocate
<1>10. 0 \notin R /\ \A x \in R : x = s \/ \E y \in Entries : Tree(v, ids[s])[y] = x
  BY <1>1, <1>8, <1>9
<1>11. PICK jds : jds = Except(ids, s)
  OBVIOUS
<1>12. Good(w, jds)
  BY <1>1, <1>5, <1>7, <1>10, <1>11, GiveUp
<1>13. IsVolume(v)
  BY <1>5 DEF Good, Sound
<1>14. w.disk = v.disk /\ w.full = v.full
  BY <1>1, <1>10, <1>13, FreedIs
<1>15. PICK kds : kds = IdsOf(w, d, q)
  OBVIOUS
<1>16. /\ DOMAIN kds = HeldBy(d, q)
       /\ \A t \in DOMAIN kds : kds[t] = w.disk[t]
  BY <1>15 DEF IdsOf
<1>17. DOMAIN kds \subseteq DOMAIN jds
  BY <1>5, <1>7, <1>11, <1>16 DEF HeldBy, Except
<1>18. Good(w, kds)
  BY <1>12, <1>16, <1>17, Reread
<1>19. SystemSectors \cap (NamedIn(d) \cup DOMAIN q) = {} /\ Matches(d, q)
  BY DEF Fits, Matches
<1>20. w.failed = {}
  BY <1>12 DEF Good
<1> QED  BY <1>14, <1>15, <1>18, <1>19, <1>20 DEF Fits

(* inode_write_at, whatever happens. *)
LEMMA WriteKeeps ==
    ASSUME NEW v, NEW s, NEW inode, NEW size \in Int, NEW offset \in Int,
           NEW w, w = inode_write_at(v, s, inode, size, offset)
    PROVE  /\ w.vol.failed = v.failed \/ w.vol.failed = v.failed \cup {"inode_allocate"}
           /\ v.full => w.vol.full
           /\ \/ w.inode = inode
              \/ /\ ~HasByte(inode.data, Wrap(offset + size) - 1)
                 /\ w.inode.data.length = Wrap(offset + size)
           /\ w.written = 0 \/ (w.written = size /\ Wrap(offset + size) >= 0)
<1>1. PICK e, id, r : /\ e = Wrap(offset + size) /\ id = Resized(inode.data, e)
                      /\ r = inode_allocate(v, id)
  OBVIOUS
<1>2. e \in Int
  BY <1>1, SectorAssumption DEF Wrap
<1>3. id.length = e
  BY <1>1 DEF Resized, InodeDisk
<1>4. Kept(v, id, r)
  BY <1>1, <1>2, <1>3, AllocateKeeps
<1>5. CASE inode.deny_write_cnt > 0 \/ HasByte(inode.data, e - 1)
  <2>1. CASE inode.deny_write_cnt > 0
    <3>1. w = Wrote(v, inode, 0)
      BY <2>1 DEF inode_write_at
    <3> QED  BY <3>1 DEF Wrote
  <2>2. CASE ~(inode.deny_write_cnt > 0) /\ HasByte(inode.data, e - 1)
    <3>1. w = Wrote(v, inode, size)
      BY <1>1, <2>2 DEF inode_write_at
    <3>2. e >= 0
      BY <1>2, <2>2 DEF HasByte
    <3> QED  BY <1>1, <2>2, <3>1, <3>2 DEF Wrote
  <2> QED  BY <1>5, <2>1, <2>2
<1>6. CASE ~(inode.deny_write_cnt > 0) /\ ~HasByte(inode.data, e - 1)
  <2>1. w = Grown(v, s, inode, size, r)
    BY <1>1, <1>6 DEF inode_write_at
  <2>2. WithData(inode, r.id).data = r.id /\ r.id.length = e
    BY <1>3, <1>4 DEF WithData, OpenInode, Kept
  <2>3. CASE e < 0
    <3>1. r.success = FALSE /\ r.vol = v
      BY <1>3, <1>4, <2>3 DEF Kept
    <3>2. w = Wrote(v, WithData(inode, r.id), 0)
      BY <2>1, <3>1 DEF Grown
    <3> QED  BY <1>1, <1>6, <2>2, <3>2 DEF Wrote
  <2>4. CASE ~(e < 0)
    <3>1. r.success = TRUE
      BY <1>2, <1>3, <1>4, <2>4 DEF Kept
    <3>2. w = Wrote(SaveInode(r, s), WithData(inode, r.id), size)
      BY <2>1, <3>1 DEF Grown
    <3>3. SaveInode(r, s).failed = r.vol.failed /\ SaveInode(r, s).full = r.vol.full
      BY DEF SaveInode, cache_write, Volume
    <3>4. /\ w.vol.failed = r.vol.failed /\ w.vol.full = r.vol.full
          /\ w.inode.data = r.id /\ w.written = size
      BY <2>2, <3>2, <3>3 DEF Wrote
    <3>5. e >= 0
      BY <1>2, <2>4
    <3> QED  BY <1>1, <1>4, <1>6, <2>2, <3>4, <3>5 DEF Kept
  <2> QED  BY <2>3, <2>4
<1> QED  BY <1>1, <1>5, <1>6

(* inode_write_at on a sound volume: the inode grows, or only its copy in *)
(* memory changes.                                                        *)
LEMMA WriteDone ==
    ASSUME NEW v, NEW ids, Good(v, ids), NEW s \in DOMAIN ids, NEW inode, inode.data = ids[s],
           NEW size \in Int, NEW offset \in Int, IsLength(s, Wrap(offset + size)),
           NEW w, w = inode_write_at(v, s, inode, size, offset), ~w.vol.full, w.vol.failed = {},
           NEW jd, jd = w.inode.data
    PROVE  /\ Good(w.vol, With(ids, s, jd))
           /\ w.inode.removed <=> inode.removed
           /\ w.vol = v \/ w.vol.disk[s] = jd
           /\ \A t \in DOMAIN ids : t # s => w.vol.disk[t] = v.disk[t]
           /\ /\ Tight(v, ids)
              /\ IF s \in Files(ids) THEN jd.length >= ids[s].length ELSE w.vol.disk[s] = jd
              => Tight(w.vol, With(ids, s, jd))
<1>1. PICK e, id, r : /\ e = Wrap(offset + size) /\ id = Resized(ids[s], e)
                      /\ r = inode_allocate(v, id)
  OBVIOUS
<1>2. e \in Int
  BY <1>1, SectorAssumption DEF Wrap
<1>3. IsInode(ids[s]) /\ Sound(v, ids) /\ v.failed = {} /\ \A t \in DOMAIN ids : Backed(v, t, ids[t])
  BY DEF Good, Sound
<1>4. IsInode(id) /\ SameEntries(id, ids[s]) /\ id.length = e
  <2>1. PICK kd : kd = ids[s]
    OBVIOUS
  <2>2. /\ kd.direct \in [1 .. DIRECT_INDEX_NUM -> Sectors]
        /\ kd.indirect \in Sectors /\ kd.doubly \in Sectors
    BY <1>3, <2>1 DEF IsInode
  <2>3. id = InodeDisk(e, kd.direct, kd.indirect, kd.doubly)
    BY <1>1, <2>1 DEF Resized
  <2>4. /\ IsInode(id) /\ id.length = e /\ id.direct = kd.direct
        /\ id.indirect = kd.indirect /\ id.doubly = kd.doubly
    BY <1>2, <2>2, <2>3, InodeMade
  <2> QED  BY <2>1, <2>4 DEF SameEntries
<1>5. Kept(v, id, r)
  BY <1>1, <1>2, <1>4, AllocateKeeps
<1>6. PICK jds : jds = With(ids, s, jd)
  OBVIOUS
<1>7. CASE inode.deny_write_cnt > 0 \/ HasByte(inode.data, e - 1)
  <2>1. w.vol = v /\ w.inode = inode
    BY <1>1, <1>7 DEF inode_write_at, Wrote
  <2>2. DOMAIN jds = DOMAIN ids /\ \A t \in DOMAIN ids : jds[t] = ids[t]
    BY <1>6, <2>1 DEF With
  <2>3. /\ Good(v, jds)
        /\ Tight(v, ids) /\ DOMAIN jds = DOMAIN ids
            /\ (\A t \in DOMAIN jds : t \notin Files(ids) => jds[t] = ids[t])
            => Tight(v, jds)
    BY <2>2, Reread
  <2> QED  BY <1>6, <2>1, <2>2, <2>3
<1>8. CASE ~(inode.deny_write_cnt > 0) /\ ~HasByte(inode.data, e - 1)
  <2>1. w = Grown(v, s, inode, size, r)
    BY <1>1, <1>8 DEF inode_write_at
  <2>2. WithData(inode, r.id).data = r.id /\ (WithData(inode, r.id).removed <=> inode.removed)
    BY DEF WithData, OpenInode
  <2>3. CASE e < 0
    <3>1. r.success = FALSE /\ r.id = id
      BY <1>4, <1>5, <2>3 DEF Kept
    <3>2. w = Wrote(v, WithData(inode, id), 0)
      BY <2>1, <3>1 DEF Grown
    <3>3. w.vol = v /\ jd = id /\ (w.inode.removed <=> inode.removed)
      BY <2>2, <3>1, <3>2 DEF Wrote
    <3>4. /\ DOMAIN jds = DOMAIN ids /\ jds[s] = id
          /\ \A t \in DOMAIN ids : t # s => jds[t] = ids[t]
      BY <1>6, <3>3 DEF With
    <3>5. Covered(v, ids[s], Blocks(id))
      <4>1. Blocks(id) \in Int /\ Blocks(id) <= 0
        BY <1>2, <1>4, <2>3, BlocksAre
      <4>2. Capacity \in Nat
        BY ColsAre, Parts DEF Capacity
      <4> QED  BY <4>1, <4>2, NeedsNone DEF Covered
    <3>6. ASSUME NEW t \in DOMAIN jds
          PROVE  /\ IsInode(jds[t]) /\ SameEntries(jds[t], ids[t])
                 /\ Covered(v, ids[t], Blocks(jds[t])) /\ IsLength(t, jds[t].length)
      <4>1. CASE t = s
        BY <1>1, <1>4, <3>4, <3>5, <4>1
      <4>2. CASE t # s
        <5>1. IsInode(ids[t]) /\ Backed(v, t, ids[t]) /\ jds[t] = ids[t]
          BY <1>3, <3>4, <3>6, <4>2 DEF Sound
        <5> QED  BY <5>1 DEF Backed, SameEntries
      <4> QED  BY <4>1, <4>2
    <3>7. Good(v, jds)
      BY <3>4, <3>6, Relabel
    <3>8. ASSUME Tight(v, ids)
          PROVE  ~IF s \in Files(ids) THEN jd.length >= ids[s].length ELSE w.vol.disk[s] = jd
      <4>1. v.disk[s].length >= 0 /\ v.disk[s].length \in Int
        BY <1>3 DEF Backed, IsInode
      <4>2. s \in Files(ids) => ids[s].length = v.disk[s].length
        BY <3>8 DEF Tight, Exactly
      <4> QED  BY <1>2, <1>4, <2>3, <3>3, <4>1, <4>2
    <3> QED  BY <1>6, <3>3, <3>7, <3>8
  <2>4. CASE ~(e < 0)
    <3>1. r.success = TRUE /\ e \in Nat
      BY <1>2, <1>4, <1>5, <2>4 DEF Kept
    <3>2. PICK u : u = SaveInode(r, s)
      OBVIOUS
    <3>3. w = Wrote(u, WithData(inode, r.id), size)
      BY <2>1, <3>1, <3>2 DEF Grown
    <3>4. w.vol = u /\ jd = r.id /\ (w.inode.removed <=> inode.removed)
      BY <2>2, <3>3 DEF Wrote
    <3>5. PICK X : X = {x \in Entries : Needs(Blocks(jd), x)}
      OBVIOUS
    <3>6. Good(u, jds) /\ jd.length = e /\ GrownTo(v, ids, s, u, jd, X)
      BY <1>1, <1>3, <1>6, <3>1, <3>2, <3>4, <3>5, Grow
    <3>7. u.disk[s] = jd /\ \A t \in DOMAIN ids : t # s => u.disk[t] = v.disk[t]
      BY <3>6 DEF GrownTo
    <3>8. ASSUME Tight(v, ids), s \in Files(ids) => jd.length >= ids[s].length
          PROVE  Tight(u, jds)
      <4>1. Accounted(v, ids) /\ \A t \in Files(ids) : Exactly(v, t, ids[t])
        BY <3>8 DEF Tight
      <4>2. PICK n : n = Blocks(jd)
        OBVIOUS
      <4>3. ASSUME s \in Files(ids) PROVE Exact(v, ids[s], n)
        <5>1. ids[s].length \in Int /\ jd.length \in Int /\ ids[s].length <= jd.length
          BY <1>2, <1>3, <3>6, <3>8, <4>3 DEF IsInode
        <5>2. PICK m : m = Blocks(ids[s])
          OBVIOUS
        <5>3. m \in Int /\ n \in Int /\ m <= n
          BY <4>2, <5>1, <5>2, BlocksAre
        <5>4. Exact(v, ids[s], m)
          BY <4>1, <4>3, <5>2 DEF Exactly
        <5>5. \A x \in Entries : Needs(m, x) => Needs(n, x)
          BY <5>3, NeedsMonotone
        <5> QED  BY <5>4, <5>5 DEF Exact
      <4>4. GrownTo(v, ids, s, u, jd, {x \in Entries : Needs(n, x)})
        BY <3>5, <3>6, <4>2
      <4>5. Tight(u, With(ids, s, jd))
        BY <1>3, <4>1, <4>2, <4>3, <4>4, GrowTight
      <4> QED  BY <1>6, <4>5
    <3> QED  BY <1>6, <3>4, <3>6, <3>7, <3>8
  <2> QED  BY <2>3, <2>4
<1> QED  BY <1>1, <1>7, <1>8

(* write. *)
LEMMA FitsWritten ==
    ASSUME NEW v, NEW d, NEW o, NEW l, Fits(v, d, o, l), NEW s \in DOMAIN o,
           NEW size \in Int, NEW offset \in Int, Wrap(offset + size) <= OFF_MAX,
           NEW w, w = inode_write_at(v, s, o[s], size, offset), ~w.vol.full, w.vol.failed = {},
           NEW q, q = [o EXCEPT ![s] = w.inode], NEW m,
           m = {} => l = {} /\ w.inode.data.length >= o[s].data.length
    PROVE  Fits(w.vol, d, q, m)
<1>1. PICK ids, jd, inode : ids = IdsOf(v, d, o) /\ jd = w.inode.data /\ inode = o[s]
  OBVIOUS
<1>2. /\ DOMAIN ids = HeldBy(d, o) /\ s \in DOMAIN ids /\ inode.data = ids[s]
      /\ \A t \in DOMAIN ids : ids[t] = IF t \in DOMAIN o THEN o[t].data ELSE v.disk[t]
  BY <1>1 DEF IdsOf, HeldBy
<1>3. Good(v, ids)
  BY <1>1 DEF Fits
<1>4. /\ Good(w.vol, With(ids, s, jd))
      /\ w.inode.removed <=> inode.removed
      /\ \A t \in DOMAIN ids : t # s => w.vol.disk[t] = v.disk[t]
      /\ /\ Tight(v, ids)
         /\ IF s \in Files(ids) THEN jd.length >= ids[s].length ELSE w.vol.disk[s] = jd
         => Tight(w.vol, With(ids, s, jd))
  BY <1>1, <1>2, <1>3, WriteDone DEF IsLength
<1>5. DOMAIN q = DOMAIN o /\ q[s] = w.inode /\ \A t \in DOMAIN o : t # s => q[t] = o[t]
  OBVIOUS
<1>6. HeldBy(d, q) = DOMAIN ids
  BY <1>2, <1>5 DEF HeldBy
<1>7. IdsOf(w.vol, d, q) = With(ids, s, jd)
  <2>1. \A t \in DOMAIN ids : (IF t \in DOMAIN q THEN q[t].data ELSE w.vol.disk[t])
                                = (IF t = s THEN jd ELSE ids[t])
    BY <1>1, <1>2, <1>4, <1>5
  <2>2. DOMAIN ids \cup {s} = DOMAIN ids
    BY <1>2
  <2> QED  BY <1>6, <2>1, <2>2 DEF IdsOf, With
<1>8. Matches(d, q)
  BY <1>1, <1>4, <1>5 DEF Fits, Matches
<1>9. s \in Files(ids)
  BY <1>2 DEF Fits, Files, SystemSectors
<1>10. m = {} => Tight(w.vol, With(ids, s, jd))
  BY <1>1, <1>2, <1>4, <1>9 DEF Fits
<1>11. SystemSectors \cap (NamedIn(d) \cup DOMAIN q) = {} /\ IsDir(d) /\ Distinct(d)
  BY <1>5 DEF Fits
<1> QED  BY <1>4, <1>7, <1>8, <1>10, <1>11 DEF Fits

(* filesys_create, with the name refused. *)
LEMMA FitsRefused ==
    ASSUME NEW v, NEW d, NEW o, NEW l, Fits(v, d, o, l), FreeSectors(v) # {},
           NEW s, s = Min(FreeSectors(v)), NEW length \in Nat, length <= OFF_MAX,
           NEW u, u = inode_create(free_map_allocate(v), s, length), ~u.full, u.failed = {},
           NEW w, w = free_map_release(u, s), NEW m,
           m = {} => l = {} /\ Owned(u, u.disk[s]) = {}
    PROVE  Fits(w, d, o, m)
<1>1. PICK ids, id : ids = IdsOf(v, d, o) /\ id = u.disk[s]
  OBVIOUS
<1>2. /\ DOMAIN ids = HeldBy(d, o)
      /\ \A t \in DOMAIN ids : ids[t] = IF t \in DOMAIN o THEN o[t].data ELSE v.disk[t]
  BY <1>1 DEF IdsOf
<1>3. Good(v, ids)
  BY <1>1 DEF Fits
<1>4. PICK jds : jds = With(ids, s, id)
  OBVIOUS
<1>5. /\ s \notin DOMAIN ids /\ s # 0 /\ Good(u, jds)
      /\ \A t \in DOMAIN ids : u.disk[t] = v.disk[t]
      /\ Tight(v, ids) => Tight(u, jds)
  BY <1>1, <1>3, <1>4, CreateNew DEF IsLength
<1>6. /\ DOMAIN jds = DOMAIN ids \cup {s} /\ jds[s] = id
      /\ \A t \in DOMAIN ids : jds[t] = ids[t]
  BY <1>4, <1>5 DEF With
<1>7. IsVolume(u) /\ s \in u.used /\ IsInode(id)
  BY <1>5, <1>6 DEF Good, Sound
<1>8. PICK R : R = {s}
  OBVIOUS
<1>9. w = Freed(u, R)
  BY <1>7, <1>8, FreedOne
<1>10. w.disk = u.disk
  BY <1>5, <1>7, <1>8, <1>9, FreedIs
<1>11. 0 \notin R /\ \A c \in R : c = s \/ \E x \in Entries : Tree(u, jds[s])[x] = c
  BY <1>5, <1>8
<1>12. /\ Good(w, Except(jds, s))
       /\ Tight(u, jds) /\ s \in R /\ (\A x \in Entries : Tree(u, jds[s])[x] \in R \cup {0})
             => Tight(w, Except(jds, s))
  BY <1>5, <1>6, <1>9, <1>11, GiveUp
<1>13. IdsOf(w, d, o) = Except(jds, s)
  <2>1. DOMAIN jds \ {s} = HeldBy(d, o)
    BY <1>2, <1>5, <1>6
  <2>2. \A t \in HeldBy(d, o) : (IF t \in DOMAIN o THEN o[t].data ELSE w.disk[t]) = jds[t]
    BY <1>2, <1>5, <1>6, <1>10
  <2> QED  BY <2>1, <2>2 DEF IdsOf, Except
<1>14. ASSUME m = {} PROVE Tight(w, Except(jds, s))
  <2>1. \A c : c \in Owned(u, id) <=> c # 0 /\ \E x \in Entries : Tree(u, id)[x] = c
    BY <1>7, OwnedIs
  <2>2. \A x \in Entries : Tree(u, id)[x] = 0
    BY <1>1, <1>14, <2>1
  <2>3. Tight(u, jds)
    BY <1>1, <1>5, <1>14 DEF Fits
  <2> QED  BY <1>6, <1>8, <1>12, <2>2, <2>3
<1> QED  BY <1>12, <1>13, <1>14 DEF Fits

(* filesys_create, with the name added. *)
LEMMA FitsCreated ==
    ASSUME NEW v, NEW d, NEW o, NEW l, Fits(v, d, o, l), FreeSectors(v) # {},
           NEW s, s = Min(FreeSectors(v)), NEW length \in Nat, length <= OFF_MAX,
           NEW u, u = inode_create(free_map_allocate(v), s, length), ~u.full, u.failed = {},
           NEW k, NEW n, NEW e, AddedTo(d, k, n, s, e), \A i \in Named(d) : d[i].name # n,
           NEW root, root = ROOT_DIR_SECTOR, NEW size \in Int, NEW offset \in Int,
           NEW w, w = inode_write_at(u, root, NewOpen(u.disk[root]), size, offset),
           ~w.vol.full, w.vol.failed = {}
    PROVE  Fits(w.vol, e, o, l)
<1>1. PICK ids, id : ids = IdsOf(v, d, o) /\ id = u.disk[s]
  OBVIOUS
<1>2. /\ DOMAIN ids = HeldBy(d, o)
      /\ \A t \in DOMAIN ids : ids[t] = IF t \in DOMAIN o THEN o[t].data ELSE v.disk[t]
  BY <1>1 DEF IdsOf
<1>3. Good(v, ids)
  BY <1>1 DEF Fits
<1>4. PICK jds : jds = With(ids, s, id)
  OBVIOUS
<1>5. /\ s \notin DOMAIN ids /\ s # 0 /\ Good(u, jds)
      /\ \A t \in DOMAIN ids : u.disk[t] = v.disk[t]
      /\ Tight(v, ids) => Tight(u, jds)
  BY <1>1, <1>3, <1>4, CreateNew DEF IsLength
<1>6. /\ DOMAIN jds = DOMAIN ids \cup {s} /\ jds[s] = id
      /\ \A t \in DOMAIN ids : jds[t] = ids[t]
  BY <1>4, <1>5 DEF With
<1>7. root \in DOMAIN ids /\ root \notin DOMAIN o /\ root # s /\ root \notin Files(jds)
  BY <1>2, <1>5 DEF Fits, HeldBy, SystemSectors, Files
<1>8. PICK inode : inode = NewOpen(u.disk[root])
  OBVIOUS
<1>9. inode.data = jds[root] /\ root \in DOMAIN jds
  BY <1>2, <1>5, <1>6, <1>7, <1>8 DEF NewOpen, OpenInode
<1>10. PICK jd, x : jd = w.inode.data /\ x = w.vol
  OBVIOUS
<1>11. /\ Good(x, With(jds, root, jd))
       /\ x = u \/ x.disk[root] = jd
       /\ \A t \in DOMAIN jds : t # root => x.disk[t] = u.disk[t]
       /\ /\ Tight(u, jds)
          /\ IF root \in Files(jds) THEN jd.length >= jds[root].length ELSE x.disk[root] = jd
          => Tight(x, With(jds, root, jd))
  BY <1>5, <1>8, <1>9, <1>10, WriteDone DEF IsLength
<1>12. PICK kds : kds = IdsOf(x, e, o)
  OBVIOUS
<1>13. NamedIn(e) = NamedIn(d) \cup {s}
  BY DEF NamedIn, AddedTo
<1>14. HeldBy(e, o) = DOMAIN jds
  BY <1>2, <1>6, <1>13 DEF HeldBy
<1>15. /\ DOMAIN kds = DOMAIN jds
       /\ \A t \in DOMAIN jds : kds[t] = IF t \in DOMAIN o THEN o[t].data ELSE x.disk[t]
  BY <1>12, <1>14 DEF IdsOf
<1>16. s \notin DOMAIN o
  BY <1>2, <1>5 DEF HeldBy
<1>17. \A t \in DOMAIN jds : t # root => kds[t] = jds[t]
  BY <1>1, <1>2, <1>5, <1>6, <1>11, <1>15, <1>16
<1>18. kds[root] = x.disk[root]
  BY <1>7, <1>9, <1>15
<1>19. /\ Good(x, kds)
       /\ Tight(u, jds) => Tight(x, kds)
  <2>1. CASE x.disk[root] = jd
    <3>1. \A t \in DOMAIN jds : (IF t \in DOMAIN o THEN o[t].data ELSE x.disk[t])
                                   = (IF t = root THEN jd ELSE jds[t])
      BY <1>15, <1>17, <1>18, <2>1
    <3>2. DOMAIN jds \cup {root} = DOMAIN jds
      BY <1>9
    <3>3. kds = With(jds, root, jd)
      BY <1>12, <1>14, <3>1, <3>2 DEF IdsOf, With
    <3> QED  BY <1>7, <1>11, <2>1, <3>3, <1>6
  <2>2. CASE x = u
    <3>1. jds[root] = u.disk[root]
      BY <1>2, <1>5, <1>6, <1>7
    <3>2. \A t \in DOMAIN kds : kds[t] = jds[t]
      BY <1>15, <1>17, <1>18, <2>2, <3>1
    <3>3. /\ Good(u, kds)
          /\ Tight(u, jds) /\ DOMAIN kds = DOMAIN jds
              /\ (\A t \in DOMAIN kds : t \notin Files(jds) => kds[t] = jds[t])
              => Tight(u, kds)
      BY <1>5, <1>15, <3>2, Reread
    <3> QED  BY <1>15, <2>2, <3>2, <3>3
  <2> QED  BY <1>11, <2>1, <2>2
<1>20. l = {} => Tight(x, kds)
  BY <1>1, <1>5, <1>19 DEF Fits
<1>21. SystemSectors \cap (NamedIn(e) \cup DOMAIN o) = {}
  <2>1. s \notin SystemSectors
    BY <1>2, <1>5 DEF HeldBy
  <2> QED  BY <1>13, <2>1 DEF Fits
<1>22. Distinct(e)
  <2>1. \A i \in Named(d) : d[i].sector # s
    BY <1>2, <1>5 DEF HeldBy, NamedIn
  <2> QED  BY <2>1 DEF Distinct, AddedTo, Fits
<1>23. Matches(e, o)
  BY <1>13, <1>16 DEF Matches, Fits
<1> QED  BY <1>10, <1>12, <1>19, <1>20, <1>21, <1>22, <1>23 DEF Fits, AddedTo

-----------------------------------------------------------------------------
(* do_format.                                                              *)

(* inode_create. *)
LEMMA CreateKeeps ==
    ASSUME NEW v, NEW s, NEW length \in Int, NEW w, w = inode_create(v, s, length)
    PROVE  /\ w.failed \in {v.failed, v.failed \cup {"inode_create"}, v.failed \cup {"inode_allocate"}}
           /\ v.full => w.full
           /\ v.used \subseteq w.used
           /\ length < 0 => "inode_create" \in w.failed
           /\ length >= 0 => w = SaveInode(inode_allocate(v, NewInode(length)), s)
<1>1. CASE length < 0
  BY <1>1 DEF inode_create, AssertFails, Volume
<1>2. CASE ~(length < 0)
  <2>1. PICK id, r : id = NewInode(length) /\ r = inode_allocate(v, id)
    OBVIOUS
  <2>2. w = SaveInode(r, s)
    BY <1>2, <2>1 DEF inode_create
  <2>3. id.length = length
    BY <2>1 DEF NewInode, InodeDisk
  <2>4. Kept(v, id, r)
    BY <2>1, <2>3, AllocateKeeps
  <2>5. w.failed = r.vol.failed /\ w.full = r.vol.full /\ w.used = r.vol.used
    BY <2>2 DEF SaveInode, cache_write, Volume
  <2>6. w.failed = v.failed \/ w.failed = v.failed \cup {"inode_allocate"}
    BY <2>4, <2>5 DEF Kept
  <2> QED  BY <1>2, <2>1, <2>2, <2>4, <2>5, <2>6 DEF Kept
<1> QED  BY <1>1, <1>2

(* The new device: nothing but the free map and the root directory. *)
Blank == Volume({FREE_MAP_SECTOR, ROOT_DIR_SECTOR}, [s \in Sectors |-> Zeros], FALSE, {})

(* Inodes without entries, one for each, are sound on it. *)
LEMMA BlankSound ==
    ASSUME NEW v, v = Blank, NEW ids, DOMAIN ids = {0, 1},
           \A s \in {0, 1} : \E length \in Int : ids[s] = NewInode(length)
    PROVE  /\ Sound(v, ids) /\ Accounted(v, ids) /\ Files(ids) = {} /\ v.failed = {}
           /\ \A s \in {0, 1}, x \in Entries : Tree(v, ids[s])[x] = 0
<1>1. /\ v.used = {0, 1} /\ v.disk = [s \in Sectors |-> Zeros] /\ v.failed = {}
      /\ v = Volume(v.used, v.disk, v.full, v.failed)
  BY DEF Blank, Volume, FREE_MAP_SECTOR, ROOT_DIR_SECTOR
<1>2. 0 \in Sectors /\ 1 \in Sectors
  BY SectorAssumption DEF Sectors
<1>3. ASSUME NEW t \in Sectors
      PROVE  IndexAt(v, t) \in [1 .. INDIRECT_INDEX_SECTOR_NUM -> Sectors]
  <2>1. v.disk[t].kind # "index"
    BY <1>1 DEF Zeros
  <2>2. IndexAt(v, t) = NoBlocks(INDIRECT_INDEX_SECTOR_NUM)
    BY <2>1 DEF IndexAt
  <2> QED  BY <1>2, <2>2 DEF NoBlocks
<1>4. IsVolume(v)
  BY <1>1, <1>2, <1>3 DEF IsVolume
<1>5. ASSUME NEW s \in {0, 1}
      PROVE  IsInode(ids[s]) /\ \A x \in Entries : Tree(v, ids[s])[x] = 0
  <2>1. PICK length \in Int : ids[s] = NewInode(length)
    OBVIOUS
  <2>2. PICK id, none : id = ids[s] /\ none = NoBlocks(DIRECT_INDEX_NUM)
    OBVIOUS
  <2>3. none \in [1 .. DIRECT_INDEX_NUM -> Sectors] /\ \A i \in 1 .. DIRECT_INDEX_NUM : none[i] = 0
    BY <1>2, <2>2 DEF NoBlocks
  <2>4. id = InodeDisk(length, none, 0, 0)
    BY <2>1, <2>2 DEF NewInode
  <2>5. IsInode(id) /\ id.direct = none /\ id.indirect = 0 /\ id.doubly = 0
    BY <1>2, <2>3, <2>4, InodeMade
  <2>6. ASSUME NEW x \in Entries PROVE Tree(v, id)[x] = 0
    <3>1. PICK a \in Rows, b \in Cols : x = <<a, b>>
      BY RowsAre
    <3>2. Tree(v, id)[x] = TreeEntry(v, id, a, b)
      BY <3>1, TreeAt
    <3>3. CASE a = 0
      <4>1. b \in Nat /\ DIRECT_INDEX_NUM \in Nat
        BY ColsAre
      <4>2. TopEntry(id, b) = 0
        BY <2>3, <2>5, <4>1 DEF TopEntry
      <4> QED  BY <3>2, <3>3, <4>2 DEF TreeEntry
    <3>4. CASE a # 0
      <4>1. Node(v, id, a) = 0
        BY <2>5 DEF Node
      <4> QED  BY <3>2, <3>4, <4>1 DEF TreeEntry, RowEntry
    <3> QED  BY <3>3, <3>4
  <2> QED  BY <2>2, <2>5, <2>6
<1>6. Sound(v, ids)
  BY <1>1, <1>4, <1>5 DEF Sound
<1>7. Accounted(v, ids) /\ Files(ids) = {}
  BY <1>1 DEF Accounted, Files, FREE_MAP_SECTOR, ROOT_DIR_SECTOR
<1> QED  BY <1>1, <1>5, <1>6, <1>7

(* do_format leaves a volume that is in order. *)
LEMMA FormattedGood ==
    ASSUME ~Formatted.full, Formatted.failed = {},
           NEW ids, ids = [s \in {0, 1} |-> Formatted.disk[s]]
    PROVE  Good(Formatted, ids) /\ Tight(Formatted, ids)
<1>1. PICK m, n : m = BITMAP_SIZE /\ n = ROOT_ENTRIES * DIR_ENTRY_SIZE
  OBVIOUS
<1>2. m \in Nat /\ n \in Nat
  <2>1. ROOT_ENTRIES \in Nat /\ DIR_ENTRY_SIZE \in Nat
    BY FileSystemAssumption
  <2> QED  BY <1>1, <2>1 DEF BITMAP_SIZE
<1>3. PICK v, u, w : v = Blank /\ u = inode_create(v, 0, m) /\ w = inode_create(u, 1, n)
  OBVIOUS
<1>4. w = Formatted
  BY <1>1, <1>3 DEF Formatted, Blank, FREE_MAP_SECTOR, ROOT_DIR_SECTOR
<1>5. /\ u.failed \in {v.failed, v.failed \cup {"inode_create"}, v.failed \cup {"inode_allocate"}}
      /\ u = SaveInode(inode_allocate(v, NewInode(m)), 0)
  BY <1>2, <1>3, CreateKeeps
<1>6. /\ w.failed \in {u.failed, u.failed \cup {"inode_create"}, u.failed \cup {"inode_allocate"}}
      /\ u.full => w.full
      /\ w = SaveInode(inode_allocate(u, NewInode(n)), 1)
  BY <1>2, <1>3, CreateKeeps
<1>7. ~w.full /\ w.failed = {} /\ ~u.full /\ u.failed = {}
  BY <1>4, <1>6
<1>8. PICK jds : jds = [s \in {0, 1} |-> IF s = 0 THEN NewInode(m) ELSE NewInode(n)]
  OBVIOUS
<1>9. DOMAIN jds = {0, 1} /\ jds[0] = NewInode(m) /\ jds[1] = NewInode(n)
  BY <1>8
<1>10. /\ Sound(v, jds) /\ Accounted(v, jds) /\ Files(jds) = {} /\ v.failed = {}
       /\ \A s \in {0, 1}, x \in Entries : Tree(v, jds[s])[x] = 0
  BY <1>2, <1>3, <1>9, BlankSound
<1>11. \A k \in Nat : NewInode(k) = Resized(NewInode(k), k)
  BY DEF NewInode, Resized, InodeDisk
<1>12. \A k : IsLength(0, k) /\ IsLength(1, k)
  BY DEF IsLength, FREE_MAP_SECTOR, ROOT_DIR_SECTOR
<1>13. PICK r, jd, X : /\ r = inode_allocate(v, NewInode(m)) /\ jd = r.id
                       /\ X = {x \in Entries : Needs(Blocks(r.id), x)}
  OBVIOUS
<1>14. Backed(u, 0, jd) /\ GrownTo(v, jds, 0, u, jd, X)
  <2>1. PICK id : id = NewInode(m)
    OBVIOUS
  <2>2. id = Resized(jds[0], m) /\ r = inode_allocate(v, id) /\ u = SaveInode(r, 0) /\ 0 \in DOMAIN jds
    BY <1>2, <1>5, <1>9, <1>11, <1>13, <2>1
  <2>3. PICK s : s = 0
    OBVIOUS
  <2>4. Sound(v, jds) /\ v.failed = {} /\ s \in DOMAIN jds /\ m \in Nat /\ IsLength(s, m)
    BY <1>2, <1>10, <1>12, <2>2, <2>3
  <2>5. id = Resized(jds[s], m) /\ r = inode_allocate(v, id)
    BY <2>2, <2>3
  <2>6. u = SaveInode(r, s) /\ ~u.full /\ u.failed = {}
    BY <1>7, <2>2, <2>3
  <2>7. Backed(u, s, r.id) /\ GrownTo(v, jds, s, u, r.id, {x \in Entries : Needs(Blocks(r.id), x)})
    BY <2>4, <2>5, <2>6, GrowOne
  <2> QED  BY <1>13, <2>3, <2>7
<1>15. PICK kds : kds = With(jds, 0, jd)
  OBVIOUS
<1>16. /\ DOMAIN kds = {0, 1} /\ kds[0] = jd /\ kds[1] = NewInode(n)
  BY <1>9, <1>15 DEF With
<1>17. /\ Sound(u, kds) /\ u.disk[0] = jd /\ Tree(u, jds[1]) = Tree(v, jds[1])
  BY <1>9, <1>14, <1>15 DEF GrownTo
<1>18. Tight(u, kds)
  <2>1. PICK k : k = Blocks(jd)
    OBVIOUS
  <2>2. GrownTo(v, jds, 0, u, jd, {x \in Entries : Needs(k, x)}) /\ 0 \in DOMAIN jds
    BY <1>9, <1>13, <1>14, <2>1
  <2> QED  BY <1>10, <1>15, <2>1, <2>2, GrowTight
<1>19. PICK q, kd, Y : /\ q = inode_allocate(u, NewInode(n)) /\ kd = q.id
                       /\ Y = {x \in Entries : Needs(Blocks(q.id), x)}
  OBVIOUS
<1>20. PICK lds : lds = With(kds, 1, kd)
  OBVIOUS
<1>21. Good(w, lds) /\ GrownTo(u, kds, 1, w, kd, Y)
  <2>1. PICK id : id = NewInode(n)
    OBVIOUS
  <2>2. id = Resized(kds[1], n) /\ q = inode_allocate(u, id) /\ w = SaveInode(q, 1) /\ 1 \in DOMAIN kds
    BY <1>2, <1>6, <1>11, <1>16, <1>19, <2>1
  <2>3. \A t \in DOMAIN kds : t # 1 => Backed(u, t, kds[t])
    BY <1>14, <1>16
  <2>4. /\ Good(w, With(kds, 1, q.id))
        /\ GrownTo(u, kds, 1, w, q.id, {x \in Entries : Needs(Blocks(q.id), x)})
    BY <1>2, <1>7, <1>12, <1>17, <2>2, <2>3, Grow
  <2> QED  BY <1>19, <1>20, <2>4
<1>22. Tight(w, lds)
  <2>1. PICK k : k = Blocks(kd)
    OBVIOUS
  <2>2. GrownTo(u, kds, 1, w, kd, {x \in Entries : Needs(k, x)}) /\ 1 \in DOMAIN kds
    BY <1>16, <1>19, <1>21, <2>1
  <2>3. Files(kds) = {}
    BY <1>16 DEF Files, FREE_MAP_SECTOR, ROOT_DIR_SECTOR
  <2>4. Accounted(u, kds)
    BY <1>18 DEF Tight
  <2> QED  BY <1>17, <1>20, <2>1, <2>2, <2>3, <2>4, GrowTight
<1>23. lds = ids
  <2>1. w.disk[1] = kd /\ w.disk[0] = u.disk[0]
    BY <1>16, <1>21 DEF GrownTo
  <2>2. /\ \A s \in {0, 1} : (IF s = 1 THEN kd ELSE kds[s]) = w.disk[s]
    BY <1>16, <1>17, <2>1
  <2>3. DOMAIN kds \cup {1} = {0, 1}
    BY <1>16
  <2> QED  BY <1>4, <1>20, <2>2, <2>3 DEF With
<1> QED  BY <1>4, <1>21, <1>22, <1>23

-----------------------------------------------------------------------------
(* The directory as the calls leave it.                                    *)

(* The ranges of what the calls are given. *)
LEMMA Arguments ==
    /\ \A size \in Sizes : size \in Int /\ size <= OFF_MAX
    /\ \A pos \in Positions : pos \in Int /\ pos <= OFF_MAX
    /\ OFF_MAX \in Nat
<1>1. OFF_MAX \in Nat
  BY SectorAssumption
<1>2. PICK a : a = -(OFF_MAX + 1)
  OBVIOUS
<1>3. a \in Int
  BY <1>1, <1>2
<1>4. Sizes \cup Positions \subseteq a .. OFF_MAX
  BY <1>2, FileSystemAssumption
<1> QED  BY <1>1, <1>3, <1>4

(* The slot of a name that is listed. *)
LEMMA SlotIs ==
    ASSUME IsDir(dir), NEW n, Listed(n)
    PROVE  Slot(n) \in Named(dir) /\ Slot(n) \in Slots(n)
<1>1. DOMAIN dir = 1 .. Len(dir) /\ Len(dir) \in Nat
  BY ListShape DEF IsDir
<1>2. PICK S : S = Slots(n)
  OBVIOUS
<1>3. S \subseteq Nat /\ S # {} /\ S \subseteq Named(dir)
  BY <1>1, <1>2 DEF Listed, Slots, Named
<1>4. Min(S) \in S
  BY <1>3, Least
<1> QED  BY <1>2, <1>3, <1>4 DEF Slot

(* A list with another element at a place it has. *)
LEMMA Updated ==
    ASSUME NEW l, IsList(l), NEW k \in 1 .. Len(l), NEW b, NEW m, m = [l EXCEPT ![k] = b]
    PROVE  /\ IsList(m) /\ Len(m) = Len(l)
           /\ \A i \in 1 .. Len(l) : m[i] = IF i = k THEN b ELSE l[i]
<1>1. Len(l) \in Nat /\ DOMAIN l = 1 .. Len(l)
  BY ListShape
<1>2. PICK S : S = Range(l) \cup {b}
  OBVIOUS
<1>3. DOMAIN m = 1 .. Len(l) /\ \A i \in 1 .. Len(l) : m[i] = IF i = k THEN b ELSE l[i]
  BY <1>1
<1>4. \A i \in 1 .. Len(l) : m[i] \in S
  BY <1>1, <1>2, <1>3 DEF Range
<1>5. m = [i \in 1 .. Len(l) |-> m[i]]
  BY <1>3
<1>6. m \in [1 .. Len(l) -> S]
  BY <1>4, <1>5
<1>7. m \in Seq(S)
  <2>1. PICK n \in Nat : n = Len(l)
    BY <1>1
  <2>2. m \in [1 .. n -> S]
    BY <1>6, <2>1
  <2>3. m \in UNION {[1 .. j -> S] : j \in Nat}
    BY <2>2
  <2> QED  BY <2>3, SeqDef
<1>8. IsList(m)
  BY <1>7, ListOf
<1>9. Len(m) \in Nat /\ DOMAIN m = 1 .. Len(m)
  BY <1>8, ListShape
<1>10. Len(m) = Len(l)
  BY <1>1, <1>3, <1>9
<1> QED  BY <1>3, <1>8, <1>10

(* dir_remove erases an entry. *)
LEMMA Erased ==
    ASSUME NEW d, IsDir(d), NEW i \in Named(d), NEW e, e = [d EXCEPT ![i].in_use = FALSE]
    PROVE  TakenFrom(d, i, e)
<1>1. IsList(d) /\ Len(d) \in Nat /\ DOMAIN d = 1 .. Len(d) /\ \A j \in 1 .. Len(d) : IsEntry(d[j])
  BY ListShape DEF IsDir
<1>2. i \in 1 .. Len(d)
  BY <1>1 DEF Named
<1>3. PICK b : b = [d[i] EXCEPT !.in_use = FALSE]
  OBVIOUS
<1>4. d[i] = [name |-> d[i].name, sector |-> d[i].sector, in_use |-> d[i].in_use]
  BY <1>1, <1>2 DEF IsEntry
<1>5. b = [name |-> d[i].name, sector |-> d[i].sector, in_use |-> FALSE]
  BY <1>3, <1>4
<1>6. IsEntry(b) /\ b.in_use = FALSE
  BY <1>5 DEF IsEntry
<1>7. e = [d EXCEPT ![i] = b]
  BY <1>3
<1>8. /\ IsList(e) /\ Len(e) = Len(d)
      /\ \A j \in 1 .. Len(d) : e[j] = IF j = i THEN b ELSE d[j]
  BY <1>1, <1>2, <1>7, Updated
<1>9. IsDir(e)
  BY <1>1, <1>6, <1>8 DEF IsDir
<1>10. DOMAIN e = 1 .. Len(d)
  BY <1>8, ListShape
<1>11. Named(e) = Named(d) \ {i}
  BY <1>1, <1>6, <1>8, <1>10 DEF Named
<1>12. \A j \in Named(e) : e[j].name = d[j].name /\ e[j].sector = d[j].sector
  BY <1>8, <1>10, <1>11 DEF Named
<1> QED  BY <1>9, <1>11, <1>12 DEF TakenFrom

(* dir_add writes an entry into a free slot. *)
LEMMA Reused ==
    ASSUME NEW d, IsDir(d), NEW k \in 1 .. Len(d), k \notin Named(d), NEW n, NEW s,
           NEW e, e = [d EXCEPT ![k] = NewEntry(n, s)]
    PROVE  AddedTo(d, k, n, s, e)
<1>0. PICK b : b = NewEntry(n, s)
  OBVIOUS
<1>b. IsEntry(b) /\ b.name = n /\ b.sector = s /\ b.in_use
  BY <1>0 DEF NewEntry, IsEntry
<1>c. e = [d EXCEPT ![k] = b]
  BY <1>0
<1>1. IsList(d) /\ Len(d) \in Nat /\ DOMAIN d = 1 .. Len(d) /\ \A j \in 1 .. Len(d) : IsEntry(d[j])
  BY ListShape DEF IsDir
<1>2. /\ IsList(e) /\ Len(e) = Len(d)
      /\ \A j \in 1 .. Len(d) : e[j] = IF j = k THEN b ELSE d[j]
  BY <1>1, <1>c, Updated
<1>3. DOMAIN e = 1 .. Len(d)
  BY <1>2, ListShape
<1>4. IsDir(e)
  BY <1>1, <1>2, <1>b DEF IsDir
<1>5. Named(e) = Named(d) \cup {k} /\ k \notin Named(d)
  BY <1>1, <1>2, <1>3, <1>b DEF Named
<1>6. \A j \in Named(d) : e[j] = d[j]
  BY <1>1, <1>2, <1>5 DEF Named
<1> QED  BY <1>2, <1>b, <1>4, <1>5, <1>6 DEF AddedTo

(* dir_add writes an entry, in a free slot or behind the end. *)
LEMMA EntryAdded ==
    ASSUME IsDir(dir), NEW k, k = FreeSlot, NEW n, NEW s, NEW e,
           e = IF k > Len(dir) THEN Append(dir, NewEntry(n, s))
               ELSE [dir EXCEPT ![k] = NewEntry(n, s)]
    PROVE  AddedTo(dir, k, n, s, e) /\ k \in Nat
<1>1. /\ IsList(dir) /\ Len(dir) \in Nat /\ DOMAIN dir = 1 .. Len(dir)
      /\ \A j \in 1 .. Len(dir) : IsEntry(dir[j])
  BY ListShape DEF IsDir
<1>2. PICK S : S = {i \in DOMAIN dir : ~dir[i].in_use} \cup {Len(dir) + 1}
  OBVIOUS
<1>3. S \subseteq Nat /\ S # {} /\ Len(dir) + 1 \in S
  BY <1>1, <1>2
<1>4. k = Min(S)
  BY <1>2 DEF FreeSlot
<1>5. k \in S /\ k <= Len(dir) + 1
  BY <1>3, <1>4, Least
<1>6. /\ k \in Nat /\ k \notin Named(dir)
      /\ k > Len(dir) => k = Len(dir) + 1
      /\ ~(k > Len(dir)) => k \in 1 .. Len(dir)
  BY <1>1, <1>2, <1>5 DEF Named
<1>7. PICK b : b = NewEntry(n, s)
  OBVIOUS
<1>8. IsEntry(b) /\ b.name = n /\ b.sector = s /\ b.in_use
  BY <1>7 DEF NewEntry, IsEntry
<1>9. CASE k > Len(dir)
  <2>1. e = Append(dir, b) /\ k = Len(dir) + 1
    BY <1>6, <1>7, <1>9
  <2>a. IsList(dir)
    BY <1>1
  <2>b. /\ IsList(Append(dir, b)) /\ Len(Append(dir, b)) = Len(dir) + 1
        /\ \A j \in 1 .. Len(dir) : Append(dir, b)[j] = dir[j]
        /\ Append(dir, b)[Len(dir) + 1] = b
    BY <2>a, Appended
  <2>2. /\ IsList(e) /\ Len(e) = Len(dir) + 1 /\ e[k] = b
        /\ \A j \in 1 .. Len(dir) : e[j] = dir[j]
    BY <2>1, <2>b
  <2>c. PICK m : m = Len(dir)
    OBVIOUS
  <2>d. m \in Nat /\ k = m + 1
    BY <1>1, <2>1, <2>c
  <2>e. /\ \A j \in 1 .. m + 1 : j \in 1 .. m \/ j = k
        /\ k \in 1 .. m + 1 /\ \A j \in 1 .. m : j \in 1 .. m + 1
    BY <2>d
  <2>3. DOMAIN e = 1 .. Len(dir) + 1
    BY <2>2, ListShape
  <2>4. \A j \in 1 .. Len(dir) + 1 : j \in 1 .. Len(dir) \/ j = k
    BY <2>c, <2>e
  <2>5. k \in 1 .. Len(dir) + 1 /\ \A j \in 1 .. Len(dir) : j \in 1 .. Len(dir) + 1
    BY <2>c, <2>e
  <2>6. IsDir(e)
    BY <1>1, <1>8, <2>2, <2>4 DEF IsDir
  <2>7. Named(e) = Named(dir) \cup {k}
    BY <1>1, <1>8, <2>2, <2>3, <2>4, <2>5 DEF Named
  <2>8. \A j \in Named(dir) : e[j] = dir[j]
    BY <1>1, <2>2 DEF Named
  <2> QED  BY <1>6, <1>8, <2>2, <2>6, <2>7, <2>8 DEF AddedTo
<1>10. CASE ~(k > Len(dir))
  <2>1. e = [dir EXCEPT ![k] = NewEntry(n, s)] /\ k \in 1 .. Len(dir) /\ k \notin Named(dir)
    BY <1>6, <1>10
  <2> QED  BY <1>6, <2>1, Reused
<1> QED  BY <1>6, <1>9, <1>10

-----------------------------------------------------------------------------
(* The invariant of the volume, the directory and the open files.          *)

(* Every position is an off_t and is not negative. *)
Offsets == \A x \in OpenFiles : FileAt(x).pos \in 0 .. OFF_MAX

Fit == Running => Fits(vol, dir, open_inodes, leaks)

FsInv == Inv /\ Fit /\ Offsets /\ BookkeepingAsserts

(* A call finds everything in order. *)
LEMMA InOrder ==
    ASSUME Fit, Running
    PROVE  /\ Fits(vol, dir, open_inodes, leaks) /\ IsDir(dir) /\ IsVolume(vol)
           /\ vol.failed = {} /\ ~vol.full
BY DEF Fit, Running, Fits, Good, Sound

(* After a step. *)
LEMMA FitNext ==
    ASSUME Running' => Fits(vol', dir', open_inodes', leaks')
    PROVE  Fit'
BY DEF Fit

(* The other ways for the model to stop. *)
LEMMA OtherAsserts ==
    ASSUME panic' \subseteq {"inode_create", "inode_allocate", "file_seek", "list_next",
                             "file_deny_write", "check_sector", "filesys_done"}
    PROVE  BookkeepingAsserts'
BY DEF BookkeepingAsserts

(* filesys_create. *)
LEMMA CreateFits ==
    ASSUME Fit, NEW p, NEW n, NEW size \in Sizes, Create(p, n, size)
    PROVE  Fit' /\ BookkeepingAsserts'
<1>1. /\ Running /\ FreeSectors(vol) # {} /\ size \in Int /\ size <= OFF_MAX
      /\ open_inodes' = open_inodes /\ panic' = vol'.failed
  BY Arguments DEF Create, Calls
<1>2. PICK s, u, made : /\ s = Min(FreeSectors(vol)) /\ u = free_map_allocate(vol)
                        /\ made = inode_create(u, s, size)
  OBVIOUS
<1>3. /\ vol' = IF made.failed # {} THEN made
                ELSE IF Refuses(n) THEN free_map_release(made, s)
                ELSE DirWrite(made, FreeSlot)
      /\ dir' = IF made.failed # {} \/ Refuses(n) THEN dir
                ELSE IF FreeSlot > Len(dir) THEN Append(dir, NewEntry(n, s))
                ELSE [dir EXCEPT ![FreeSlot] = NewEntry(n, s)]
      /\ leaks' = IF Refuses(n) /\ Owned(made, made.disk[s]) # {}
                  THEN leaks \cup {"create"} ELSE leaks
  BY <1>2 DEF Create
<1>4. /\ Fits(vol, dir, open_inodes, leaks) /\ IsDir(dir) /\ IsVolume(vol)
      /\ vol.failed = {} /\ ~vol.full
  BY <1>1, InOrder
<1>5. u.failed = {} /\ s \in u.used
  BY <1>2, <1>4 DEF free_map_allocate, Volume
<1>6. /\ made.failed \in {u.failed, u.failed \cup {"inode_create"}, u.failed \cup {"inode_allocate"}}
      /\ u.used \subseteq made.used
      /\ size < 0 => "inode_create" \in made.failed
  BY <1>1, <1>2, CreateKeeps
<1>7. made.failed \subseteq {"inode_create", "inode_allocate"} /\ (made.failed = {} => size \in Nat)
  BY <1>1, <1>5, <1>6
<1>8. CASE made.failed # {}
  <2>1. panic' = made.failed
    BY <1>1, <1>3, <1>8
  <2>2. ~Running'
    BY <1>8, <2>1 DEF Running
  <2>3. BookkeepingAsserts'
    BY <1>7, <2>1, OtherAsserts
  <2> QED  BY <2>2, <2>3, FitNext
<1>9. CASE made.failed = {} /\ Refuses(n)
  <2>1. PICK w : w = free_map_release(made, s)
    OBVIOUS
  <2>2. w.failed = {} /\ w.full = made.full
    BY <1>5, <1>6, <1>9, <2>1 DEF free_map_release, Volume
  <2>3. vol' = w /\ dir' = dir
    BY <1>3, <1>9, <2>1
  <2>4. leaks' = {} => leaks = {} /\ Owned(made, made.disk[s]) = {}
    BY <1>3, <1>9
  <2>5. ~made.full => Fits(w, dir, open_inodes, leaks')
    BY <1>1, <1>2, <1>4, <1>7, <1>9, <2>1, <2>4, FitsRefused
  <2>6. BookkeepingAsserts'
    BY <1>1, <2>2, <2>3, OtherAsserts
  <2>7. Running' => ~w.full
    BY <2>3 DEF Running
  <2> QED  BY <1>1, <2>2, <2>3, <2>5, <2>6, <2>7, FitNext
<1>10. CASE made.failed = {} /\ ~Refuses(n)
  <2>1. PICK k, e : k = FreeSlot /\ e = dir'
    OBVIOUS
  <2>2. e = IF k > Len(dir) THEN Append(dir, NewEntry(n, s))
            ELSE [dir EXCEPT ![k] = NewEntry(n, s)]
    BY <1>3, <1>10, <2>1
  <2>3. AddedTo(dir, k, n, s, e) /\ k \in Nat
    BY <1>4, <2>1, <2>2, EntryAdded
  <2>4. \A i \in Named(dir) : dir[i].name # n
    BY <1>10 DEF Refuses, Listed, Slots, Named
  <2>5. PICK root, bytes, offset : /\ root = ROOT_DIR_SECTOR /\ bytes = DIR_ENTRY_SIZE
                                   /\ offset = (k - 1) * DIR_ENTRY_SIZE
    OBVIOUS
  <2>6. bytes \in Int /\ offset \in Int
    BY <2>3, <2>5, FileSystemAssumption
  <2>7. PICK w : w = inode_write_at(made, root, NewOpen(made.disk[root]), bytes, offset)
    OBVIOUS
  <2>8. vol' = w.vol
    BY <1>3, <1>10, <2>1, <2>5, <2>7 DEF DirWrite
  <2>9. /\ w.vol.failed = {} \/ w.vol.failed = {"inode_allocate"}
        /\ made.full => w.vol.full
    BY <1>10, <2>6, <2>7, WriteKeeps
  <2>10. leaks' = leaks
    BY <1>3, <1>10
  <2>11. ~made.full /\ ~w.vol.full /\ w.vol.failed = {} => Fits(w.vol, e, open_inodes, leaks)
    BY <1>1, <1>2, <1>4, <1>7, <1>10, <2>3, <2>4, <2>5, <2>6, <2>7, FitsCreated
  <2>12. BookkeepingAsserts'
    BY <1>1, <2>8, <2>9, OtherAsserts
  <2>13. Running' => w.vol.failed = {} /\ ~w.vol.full
    BY <1>1, <2>8 DEF Running
  <2> QED  BY <1>1, <2>1, <2>8, <2>9, <2>10, <2>11, <2>12, <2>13, FitNext
<1> QED  BY <1>8, <1>9, <1>10

(* The data of an inode that is open throughout. *)
LEMMA SameThrough ==
    ASSUME NEW o, NEW s, NEW a, OneMore(o, s, a), NEW q, OneMore(a, s, q), NEW r, NoMore(q, r)
    PROVE  SameData(o, r)
BY DEF OneMore, NoMore, SameData

(* dir_remove opens the inode, erases the entry, marks the inode, closes it. *)
LEMMA FitsErased ==
    ASSUME NEW v, NEW d, NEW o, NEW l, Fits(v, d, o, l), NEW i, NEW e, TakenFrom(d, i, e),
           NEW s, s = d[i].sector, NEW a, a = inode_open(v, o, s),
           NEW q, q = Put(a, s, Removed(a[s])), NEW c, c = inode_close(v, q, s)
    PROVE  Fits(c.vol, e, c.inodes, l) /\ c.vol.failed = {} /\ SameData(o, c.inodes)
<1>1. s \in NamedIn(d)
  BY DEF TakenFrom, NamedIn
<1>2. Fits(v, d, a, l) /\ OneMore(o, s, a)
  BY <1>1, FitsOpened
<1>3. s \in DOMAIN a
  BY <1>2 DEF OneMore
<1>4. Fits(v, e, q, l) /\ OneMore(a, s, q)
  BY <1>2, <1>3, FitsRemoved
<1>5. s \in DOMAIN q
  BY <1>4 DEF OneMore
<1>6. Fits(c.vol, e, c.inodes, l) /\ c.vol.failed = {} /\ NoMore(q, c.inodes)
  BY <1>4, <1>5, FitsClosed, ZenonT(30)
<1>7. SameData(o, c.inodes)
  BY <1>2, <1>4, <1>6, SameThrough
<1> QED  BY <1>6, <1>7

(* dir_remove. *)
LEMMA RemoveFits ==
    ASSUME Fit, NEW p, NEW n, RemoveFile(p, n)
    PROVE  Fit' /\ BookkeepingAsserts' /\ SameData(open_inodes, open_inodes')
<1>1. Running /\ Listed(n) /\ leaks' = leaks
  BY DEF RemoveFile, Calls
<1>2. Fits(vol, dir, open_inodes, leaks) /\ IsDir(dir)
  BY <1>1, InOrder
<1>3. PICK i, s, e : i = Slot(n) /\ s = dir[i].sector /\ e = dir'
  OBVIOUS
<1>4. TakenFrom(dir, i, e)
  <2>1. i \in Named(dir)
    BY <1>1, <1>2, <1>3, SlotIs
  <2>2. e = [dir EXCEPT ![i].in_use = FALSE]
    BY <1>3 DEF RemoveFile
  <2> QED  BY <1>2, <2>1, <2>2, Erased
<1>5. PICK o, q, c : /\ o = inode_open(vol, open_inodes, s) /\ q = Put(o, s, Removed(o[s]))
                     /\ c = inode_close(vol, q, s)
  OBVIOUS
<1>6. vol' = c.vol /\ open_inodes' = c.inodes /\ panic' = c.vol.failed
  BY <1>3, <1>5 DEF RemoveFile, RemovedClosed, Closed
<1>7. Fits(c.vol, e, c.inodes, leaks) /\ c.vol.failed = {} /\ SameData(open_inodes, c.inodes)
  BY <1>2, <1>3, <1>4, <1>5, FitsErased, ZenonT(30)
<1>8. BookkeepingAsserts'
  BY <1>6, <1>7, OtherAsserts
<1> QED  BY <1>1, <1>3, <1>6, <1>7, <1>8, FitNext

-----------------------------------------------------------------------------
(* The calls on files and the positions.                                   *)

(* inode_deny_write's assertion holds of every open inode, after a step also. *)
LEMMA InRange == Counts => \A s \in DOMAIN open_inodes : DenyInRange(open_inodes[s])
BY Numbers DEF DenyInRange

(* After a step. *)
LEMMA InRangeNext == Counts' => (\A s \in DOMAIN open_inodes : DenyInRange(open_inodes[s]))'
BY InRange, PTL

(* No assertion fails where panic stays empty. *)
LEMMA NoPanic ==
    ASSUME panic' = {}
    PROVE  BookkeepingAsserts'
BY DEF BookkeepingAsserts

(* Nothing but the lists, the descriptors and panic changes. *)
LEMMA FitStays ==
    ASSUME Fit, Running, vol' = vol, dir' = dir, open_inodes' = open_inodes, leaks' = leaks
    PROVE  Fit' /\ SameData(open_inodes, open_inodes')
<1>1. Fits(vol, dir, open_inodes, leaks)
  BY InOrder
<1> QED  BY <1>1, FitNext DEF SameData

(* The file open makes. *)
LEMMA FitsCountedOpen ==
    ASSUME NEW v, NEW d, NEW o, NEW l, Fits(v, d, o, l), NEW s \in NamedIn(d),
           NEW a, a = inode_open(v, o, s), NEW q, q = a \/ q = Put(a, s, Counted(a[s], 0, 1))
    PROVE  Fits(v, d, q, l) /\ s \in DOMAIN q /\ SameData(o, q)
<1>1. Fits(v, d, a, l) /\ OneMore(o, s, a)
  BY FitsOpened
<1>2. s \in DOMAIN a
  BY <1>1 DEF OneMore
<1>3. CASE q = a
  BY <1>1, <1>2, <1>3 DEF OneMore
<1>4. CASE q = Put(a, s, Counted(a[s], 0, 1))
  <2>1. Fits(v, d, q, l) /\ OneMore(a, s, q)
    BY <1>1, <1>2, <1>4, FitsPut
  <2>2. NoMore(q, q)
    BY DEF NoMore, SameData
  <2>3. SameData(o, q)
    BY <1>1, <2>1, <2>2, SameThrough
  <2> QED  BY <1>2, <2>1, <2>3 DEF OneMore
<1> QED  BY <1>3, <1>4

(* open, with and without a place for the file. *)
LEMMA OpenFits ==
    ASSUME Inv', Fit, NEW p, NEW n, Open(p, n) \/ OpenNoPage(p, n)
    PROVE  Fit' /\ BookkeepingAsserts' /\ SameData(open_inodes, open_inodes')
<1>1. /\ Running /\ Listed(n) /\ vol' = vol /\ dir' = dir /\ leaks' = leaks
      /\ open_inodes' = OpenedInodes(p, n)
  BY DEF Open, OpenNoPage, Calls
<1>2. Fits(vol, dir, open_inodes, leaks) /\ IsDir(dir)
  BY <1>1, InOrder
<1>3. PICK s, a, q : /\ s = dir[Slot(n)].sector /\ a = inode_open(vol, open_inodes, s)
                     /\ q = open_inodes'
  OBVIOUS
<1>4. s \in NamedIn(dir)
  BY <1>1, <1>2, <1>3, SlotIs DEF NamedIn
<1>5. q = a \/ q = Put(a, s, Counted(a[s], 0, 1))
  BY <1>1, <1>3 DEF OpenedInodes
<1>6. Fits(vol, dir, q, leaks) /\ s \in DOMAIN q /\ SameData(open_inodes, q)
  BY <1>2, <1>3, <1>4, <1>5, FitsCountedOpen
<1>7. Fit'
  BY <1>1, <1>3, <1>6, FitNext
<1>8. BookkeepingAsserts'
  <2>1. CASE Open(p, n)
    <3>1. panic' = IF DenyInRange(q[s]) THEN {} ELSE {"inode_deny_write"}
      BY <1>1, <1>3, <2>1 DEF Open
    <3>2. \A t \in DOMAIN q : DenyInRange(q[t])
      BY <1>3, InRangeNext DEF Inv
    <3> QED  BY <1>6, <3>1, <3>2, NoPanic
  <2>2. CASE OpenNoPage(p, n)
    BY <1>1, <2>2, NoPanic DEF OpenNoPage, Running
  <2> QED  BY <2>1, <2>2
<1> QED  BY <1>3, <1>6, <1>7, <1>8

(* A file is closed. *)
LEMMA ClosedFits ==
    ASSUME Inv, Fit, Running, NEW x \in OpenFiles, NEW f, f = FileAt(x),
           Closed(file_close(vol, open_inodes, f)), dir' = dir, leaks' = leaks
    PROVE  Fit' /\ BookkeepingAsserts' /\ SameData(open_inodes, open_inodes')
<1>1. Fits(vol, dir, open_inodes, leaks)
  BY InOrder
<1>2. PICK s, c : s = f.sector /\ c = file_close(vol, open_inodes, f)
  OBVIOUS
<1>3. s \in DOMAIN open_inodes /\ (f.deny_write => open_inodes[s].deny_write_cnt > 0)
  BY <1>2, DenierCounted
<1>4. DenyInRange(open_inodes[s]) /\ open_inodes[s].deny_write_cnt \in Nat
  BY <1>3, InRange, Numbers DEF Inv
<1>5. f.deny_write => Counted(open_inodes[s], 0, -1).deny_write_cnt >= 0
  <2>1. Counted(open_inodes[s], 0, -1).deny_write_cnt = open_inodes[s].deny_write_cnt + (-1)
    BY DEF Counted, OpenInode
  <2> QED  BY <1>3, <1>4, <2>1
<1>6. /\ Fits(c.vol, dir, c.inodes, leaks) /\ c.vol.failed = {}
      /\ NoMore(open_inodes, c.inodes)
  BY <1>1, <1>2, <1>3, <1>4, <1>5, FitsFileClosed
<1>7. vol' = c.vol /\ open_inodes' = c.inodes /\ panic' = c.vol.failed
  BY <1>2 DEF Closed
<1> QED  BY <1>6, <1>7, FitNext, NoPanic DEF NoMore

(* The positions of files that stay open, whatever place they have. *)
LEMMA OffsetsMoved ==
    ASSUME Offsets, NEW x, NEW g, Others(x, g)
    PROVE  Offsets'
BY DEF Offsets, Others

(* close, and the closing of thread_exit. *)
LEMMA CloseFits ==
    ASSUME Inv, Fit, Offsets, NEW p \in Procs, NEW fd, Close(p, fd) \/ ExitCloses(p)
    PROVE  /\ Fit' /\ Offsets' /\ BookkeepingAsserts'
           /\ SameData(open_inodes, open_inodes')
<1>1. Lists /\ Running /\ dir' = dir /\ leaks' = leaks /\ lost' = lost
  BY DEF Inv, Close, ExitCloses, Calls
<1>2. PICK k, r :
         /\ k \in 1 .. Len(file_list[p])
         /\ r = RemoveAt(file_list[p], k) \/ (k = 1 /\ r = Tail(file_list[p]))
         /\ file_list' = [file_list EXCEPT ![p] = r]
         /\ Closed(file_close(vol, open_inodes, file_list[p][k].file))
  <2>1. CASE Close(p, fd)
    <3>1. PICK k \in 1 .. Len(file_list[p]) : k = At(p, fd) /\ File(p, fd) = file_list[p][k].file
      BY <1>1, <2>1, Found DEF Close
    <3> QED  BY <2>1, <3>1 DEF Close
  <2>2. CASE ExitCloses(p)
    <3>1. Len(file_list[p]) \in Nat /\ file_list[p] # <<>> /\ IsList(file_list[p])
      BY <1>1, <2>2, ListShape DEF Lists, ExitCloses
    <3>2. 1 \in 1 .. Len(file_list[p]) /\ Head(file_list[p]) = file_list[p][1]
      <4>1. Len(file_list[p]) # 0
        BY <3>1, EmptySeq DEF IsList
      <4> QED  BY <3>1, <4>1
    <3>3. /\ file_list' = [file_list EXCEPT ![p] = Tail(file_list[p])]
          /\ Closed(file_close(vol, open_inodes, file_list[p][1].file))
      BY <2>2, <3>2 DEF ExitCloses
    <3> QED  BY <3>2, <3>3
  <2> QED  BY <2>1, <2>2
<1>3. PICK x, g, f : x = <<p, k>> /\ g = MovedUp(p, k) /\ f = file_list[p][k].file
  OBVIOUS
<1>4. x \in OpenFiles /\ FileAt(x) = f /\ Others(x, g)
  BY <1>1, <1>2, <1>3, FileUnlisted
<1>5. Offsets'
  BY <1>4, OffsetsMoved
<1>6. Closed(file_close(vol, open_inodes, f))
  BY <1>2, <1>3
<1> QED  BY <1>1, <1>4, <1>5, <1>6, ClosedFits

(* What the invariant says of the inode of an open file. *)
LEMMA OpenLength ==
    ASSUME NEW v, NEW d, NEW o, NEW l, Fits(v, d, o, l), NEW s \in DOMAIN o
    PROVE  o[s].data.length \in Int /\ o[s].data.length <= OFF_MAX
<1>1. PICK ids : ids = IdsOf(v, d, o)
  OBVIOUS
<1>2. s \in DOMAIN ids /\ ids[s] = o[s].data
  BY <1>1 DEF IdsOf, HeldBy
<1>3. s \notin {FREE_MAP_SECTOR, ROOT_DIR_SECTOR}
  BY DEF Fits, SystemSectors
<1>4. IsInode(ids[s]) /\ Backed(v, s, ids[s])
  BY <1>1, <1>2 DEF Fits, Good, Sound
<1>5. IsLength(s, ids[s].length) /\ ids[s].length \in Int
  BY <1>4 DEF IsInode, Backed
<1> QED  BY <1>2, <1>3, <1>5 DEF IsLength

(* Where a read and a write leave the position. *)
LEMMA ReadEnds ==
    ASSUME NEW id, id.length \in Int, id.length <= OFF_MAX, NEW size \in Int,
           NEW pos \in 0 .. OFF_MAX
    PROVE  pos + inode_read_at(id, size, pos) \in 0 .. OFF_MAX
BY SectorAssumption DEF inode_read_at, Lesser

(* The end of a write, as an off_t. *)
LEMMA WriteEnds ==
    ASSUME NEW size \in 0 .. OFF_MAX, NEW pos \in 0 .. OFF_MAX, NEW e, e = Wrap(pos + size)
    PROVE  /\ e \in Int /\ e <= OFF_MAX
           /\ e >= 0 => e = pos + size /\ pos + size \in 0 .. OFF_MAX
           /\ e < 0 <=> pos + size > OFF_MAX
BY SectorAssumption DEF Wrap

(* A position moves. *)
LEMMA OffsetMoved ==
    ASSUME Lists, Offsets, NEW p \in Procs, NEW k \in 1 .. Len(file_list[p]), NEW e \in 0 .. OFF_MAX,
           file_list' = [file_list EXCEPT ![p][k].file.pos = e], lost' = lost
    PROVE  Offsets'
<1>1. /\ OpenFiles' = OpenFiles
      /\ \A x \in OpenFiles : (FileAt(x).pos)' \in {FileAt(x).pos, e}
  BY PosMoved
<1>2. \A x \in OpenFiles : FileAt(x).pos \in 0 .. OFF_MAX
  BY DEF Offsets
<1>3. \A x \in OpenFiles' : (FileAt(x).pos)' \in 0 .. OFF_MAX
  BY <1>1, <1>2
<1> QED  BY <1>3 DEF Offsets

(* The lists do not change. *)
LEMMA OffsetsStay ==
    ASSUME Lists, Offsets, file_list' = file_list, lost' = lost
    PROVE  Offsets'
<1>1. OpenFiles' = OpenFiles /\ \A x : FileAt(x)' = FileAt(x)
  BY ListsStay
<1> QED  BY <1>1 DEF Offsets

(* The file a call works on. *)
LEMMA FoundOpen ==
    ASSUME Inv, Offsets, NEW p \in Procs, NEW fd, Has(p, fd), NEW f, f = File(p, fd)
    PROVE  /\ At(p, fd) \in 1 .. Len(file_list[p])
           /\ f = file_list[p][At(p, fd)].file
           /\ f.pos \in 0 .. OFF_MAX
           /\ f.sector \in DOMAIN open_inodes
           /\ \E x \in OpenFiles : FileAt(x) = f
<1>1. PICK k \in 1 .. Len(file_list[p]) : k = At(p, fd) /\ f = file_list[p][k].file
  BY Found DEF Inv
<1>2. PICK x : x = <<p, k>>
  OBVIOUS
<1>3. x \in OpenFiles /\ FileAt(x) = f
  BY <1>1, <1>2, Places DEF Placed, Inv
<1>4. f.pos \in 0 .. OFF_MAX
  BY <1>3 DEF Offsets
<1>5. f.sector \in DOMAIN open_inodes
  BY <1>3, DenierCounted
<1> QED  BY <1>1, <1>3, <1>4, <1>5

(* read. *)
LEMMA ReadFits ==
    ASSUME Inv, Fit, Offsets, NEW p \in Procs, NEW fd, NEW size \in Sizes, Read(p, fd, size)
    PROVE  /\ Fit' /\ Offsets' /\ BookkeepingAsserts'
           /\ SameData(open_inodes, open_inodes')
<1>1. /\ Running /\ Has(p, fd) /\ vol' = vol /\ dir' = dir /\ leaks' = leaks
      /\ open_inodes' = open_inodes /\ lost' = lost /\ panic' \subseteq {"check_sector"} /\ Lists
  BY DEF Read, Calls, Inv
<1>2. Fit' /\ SameData(open_inodes, open_inodes')
  BY <1>1, FitStays
<1>3. PICK f, k : f = File(p, fd) /\ k = At(p, fd)
  OBVIOUS
<1>4. /\ k \in 1 .. Len(file_list[p]) /\ f = file_list[p][k].file
      /\ f.pos \in 0 .. OFF_MAX /\ f.sector \in DOMAIN open_inodes
  BY <1>1, <1>3, FoundOpen
<1>5. PICK id : id = open_inodes[f.sector].data
  OBVIOUS
<1>6. id.length \in Int /\ id.length <= OFF_MAX
  BY <1>1, <1>4, <1>5, InOrder, OpenLength
<1>7. PICK e : e = f.pos + inode_read_at(id, size, f.pos)
  OBVIOUS
<1>8. e \in 0 .. OFF_MAX
  BY <1>4, <1>6, <1>7, Arguments, ReadEnds
<1>9. file_list' = [file_list EXCEPT ![p][k].file.pos = e]
  BY <1>3, <1>4, <1>5, <1>7 DEF Read
<1>10. Offsets'
  BY <1>1, <1>4, <1>8, <1>9, OffsetMoved
<1> QED  BY <1>1, <1>2, <1>10, OtherAsserts

(* seek. *)
LEMMA SeekFits ==
    ASSUME Inv, Fit, Offsets, NEW p \in Procs, NEW fd, NEW pos \in Positions, Seek(p, fd, pos)
    PROVE  /\ Fit' /\ Offsets' /\ BookkeepingAsserts'
           /\ SameData(open_inodes, open_inodes')
<1>1. /\ Running /\ Has(p, fd) /\ vol' = vol /\ dir' = dir /\ leaks' = leaks
      /\ open_inodes' = open_inodes /\ lost' = lost /\ Lists
      /\ panic' \subseteq {"file_seek"}
  BY DEF Seek, Calls, Inv
<1>2. Fit' /\ SameData(open_inodes, open_inodes')
  BY <1>1, FitStays
<1>3. BookkeepingAsserts'
  BY <1>1, OtherAsserts
<1>4. Offsets'
  <2>1. CASE pos >= 0
    <3>1. PICK k : k = At(p, fd)
      OBVIOUS
    <3>2. k \in 1 .. Len(file_list[p])
      BY <1>1, <3>1, Found
    <3>3. file_list' = [file_list EXCEPT ![p][k].file.pos = pos]
      BY <2>1, <3>1 DEF Seek
    <3>4. pos \in 0 .. OFF_MAX
      BY <2>1, Arguments
    <3> QED  BY <1>1, <3>2, <3>3, <3>4, OffsetMoved
  <2>2. CASE ~(pos >= 0)
    <3>1. file_list' = file_list
      BY <2>2 DEF Seek
    <3> QED  BY <1>1, <3>1, OffsetsStay
  <2> QED  BY <2>1, <2>2
<1> QED  BY <1>2, <1>3, <1>4

(* A step that leaves the data of the open inodes shortens none. *)
LEMMA SameLengths ==
    ASSUME Fit, Running, SameData(open_inodes, open_inodes')
    PROVE  ShortensByWriting
<1>1. Fits(vol, dir, open_inodes, leaks)
  BY InOrder
<1>2. ASSUME NEW s \in DOMAIN open_inodes \cap DOMAIN open_inodes'
      PROVE  ~(open_inodes'[s].data.length < open_inodes[s].data.length)
  <2>1. PICK a : a = open_inodes[s].data.length
    OBVIOUS
  <2>2. a \in Int
    BY <1>1, <2>1, OpenLength
  <2>3. open_inodes'[s].data.length = a
    BY <2>1 DEF SameData
  <2> QED  BY <2>1, <2>2, <2>3
<1> QED  BY <1>2 DEF ShortensByWriting

(* Nothing changes. *)
LEMMA FsStays ==
    ASSUME FsInv, UNCHANGED vars
    PROVE  FsInv'
<1>1. /\ vol' = vol /\ dir' = dir /\ open_inodes' = open_inodes /\ leaks' = leaks
      /\ panic' = panic /\ file_list' = file_list /\ lost' = lost
  BY DEF vars, procVars
<1>2. Inv' /\ Offsets'
  BY <1>1, InvStays, OffsetsStay DEF FsInv, Inv
<1>3. Fit'
  BY <1>1 DEF FsInv, Fit, Running
<1>4. BookkeepingAsserts'
  BY <1>1 DEF FsInv, BookkeepingAsserts
<1> QED  BY <1>2, <1>3, <1>4 DEF FsInv

(* The length of a file that a write has made shorter. *)
LEMMA ShorterBy ==
    ASSUME NEW v, NEW s, NEW inode, inode.data.length \in Int,
           NEW size \in 0 .. OFF_MAX, NEW pos \in 0 .. OFF_MAX,
           NEW w, w = inode_write_at(v, s, inode, size, pos)
    PROVE  /\ w.inode.data.length \in Int
           /\ w.inode.data.length < inode.data.length =>
                 w.inode.data.length <= 0 /\ (pos = 0 \/ pos + size > OFF_MAX)
<1>1. PICK e, a : e = Wrap(pos + size) /\ a = inode.data.length
  OBVIOUS
<1>2. size \in Int /\ pos \in Int /\ OFF_MAX \in Nat
  BY SectorAssumption
<1>3. /\ e \in Int /\ e <= OFF_MAX
      /\ e >= 0 => e = pos + size /\ pos + size \in 0 .. OFF_MAX
      /\ e < 0 <=> pos + size > OFF_MAX
  BY <1>1, WriteEnds
<1>4. \/ w.inode = inode
      \/ ~HasByte(inode.data, e - 1) /\ w.inode.data.length = e
  BY <1>1, <1>2, WriteKeeps
<1>5. CASE w.inode = inode
  BY <1>5
<1>6. CASE ~HasByte(inode.data, e - 1) /\ w.inode.data.length = e
  <2>1. e < a => e <= 0
    BY <1>1, <1>3, <1>6 DEF HasByte
  <2>2. e = 0 => pos = 0
    BY <1>2, <1>3
  <2> QED  BY <1>1, <1>3, <1>6, <2>1, <2>2
<1> QED  BY <1>4, <1>5, <1>6

(* write. *)
LEMMA WriteFits ==
    ASSUME FsInv, NEW p \in Procs, NEW fd, NEW size \in Sizes, Write(p, fd, size)
    PROVE  /\ Fit' /\ Offsets' /\ BookkeepingAsserts' /\ ShortensByWriting
<1>1. Running /\ Has(p, fd) /\ Inv /\ Fit /\ Offsets /\ Lists /\ size \in 0 .. OFF_MAX /\ size \in Int
  BY Arguments DEF Write, Calls, FsInv, Inv
<1>2. /\ Fits(vol, dir, open_inodes, leaks) /\ vol.failed = {} /\ ~vol.full
  BY <1>1, InOrder
<1>3. CASE UNCHANGED vars
  <2>1. open_inodes' = open_inodes
    BY <1>3 DEF vars
  <2>2. ShortensByWriting
    BY <1>1, <2>1, SameLengths DEF SameData
  <2> QED  BY <1>3, <2>2, FsStays DEF FsInv
<1>4. PICK f, k : f = File(p, fd) /\ k = At(p, fd)
  OBVIOUS
<1>5. /\ k \in 1 .. Len(file_list[p]) /\ f = file_list[p][k].file
      /\ f.pos \in 0 .. OFF_MAX /\ f.sector \in DOMAIN open_inodes
      /\ \E x \in OpenFiles : FileAt(x) = f
  BY <1>1, <1>4, FoundOpen
<1>6. PICK s, pos, inode : s = f.sector /\ pos = f.pos /\ inode = open_inodes[s]
  OBVIOUS
<1>7. PICK w : w = inode_write_at(vol, s, inode, size, pos)
  OBVIOUS
<1>8. ASSUME vol' = w.vol, open_inodes' = [open_inodes EXCEPT ![s] = w.inode],
             file_list' = [file_list EXCEPT ![p][k].file.pos = @ + w.written],
             panic' = w.vol.failed, dir' = dir, lost' = lost,
             leaks' = IF w.inode.data.length < inode.data.length
                      THEN leaks \cup {"shrink"} ELSE leaks
      PROVE  /\ Fit' /\ Offsets' /\ BookkeepingAsserts' /\ ShortensByWriting
  <2>1. inode.data.length \in Int /\ pos \in 0 .. OFF_MAX /\ pos \in Int
    BY <1>2, <1>5, <1>6, OpenLength
  <2>2. /\ w.inode.data.length \in Int
        /\ w.inode.data.length < inode.data.length =>
              w.inode.data.length <= 0 /\ (pos = 0 \/ pos + size > OFF_MAX)
    BY <1>1, <1>7, <2>1, ShorterBy
  <2>3. PICK e : e = Wrap(pos + size)
    OBVIOUS
  <2>4. /\ e \in Int /\ e <= OFF_MAX
        /\ e >= 0 => e = pos + size /\ pos + size \in 0 .. OFF_MAX
    BY <1>1, <2>1, <2>3, WriteEnds
  <2>5. /\ w.vol.failed = {} \/ w.vol.failed = {"inode_allocate"}
        /\ w.written = 0 \/ (w.written = size /\ e >= 0)
    BY <1>1, <1>2, <1>7, <2>1, <2>3, WriteKeeps
  <2>6. BookkeepingAsserts'
    BY <1>8, <2>5, OtherAsserts
  <2>7. Offsets'
    <3>1. PICK d : d = pos + w.written
      OBVIOUS
    <3>2. d \in 0 .. OFF_MAX
      BY <1>1, <2>1, <2>4, <2>5, <3>1
    <3>3. file_list' = [file_list EXCEPT ![p][k].file.pos = d] /\ lost' = lost
      BY <1>5, <1>6, <1>8, <3>1
    <3> QED  BY <1>1, <1>5, <3>2, <3>3, OffsetMoved
  <2>8. Fit'
    <3>1. leaks' = {} => leaks = {} /\ w.inode.data.length >= inode.data.length
      BY <1>8, <2>1, <2>2
    <3>2. Running' => ~w.vol.full /\ w.vol.failed = {}
      BY <1>8 DEF Running
    <3>3. PICK q, m : q = open_inodes' /\ m = leaks'
      OBVIOUS
    <3>4. ASSUME ~w.vol.full, w.vol.failed = {} PROVE Fits(w.vol, dir, q, m)
      <4>1. s \in DOMAIN open_inodes /\ w = inode_write_at(vol, s, open_inodes[s], size, pos)
        BY <1>5, <1>6, <1>7
      <4>2. q = [open_inodes EXCEPT ![s] = w.inode]
        BY <1>8, <3>3
      <4>3. m = {} => leaks = {} /\ w.inode.data.length >= open_inodes[s].data.length
        BY <1>6, <3>1, <3>3
      <4>4. Wrap(pos + size) <= OFF_MAX
        BY <2>3, <2>4
      <4> QED  BY <1>1, <1>2, <2>1, <3>4, <4>1, <4>2, <4>3, <4>4, FitsWritten
    <3> QED  BY <1>8, <3>2, <3>3, <3>4, FitNext
  <2>9. ShortensByWriting
    <3>1. /\ DOMAIN open_inodes' = DOMAIN open_inodes
          /\ open_inodes'[s] = w.inode
          /\ \A t \in DOMAIN open_inodes : t # s => open_inodes'[t] = open_inodes[t]
      BY <1>5, <1>6, <1>8
    <3>2. ASSUME NEW t \in DOMAIN open_inodes,
                 open_inodes'[t].data.length < open_inodes[t].data.length
          PROVE  t = s
      <4>1. PICK a : a = open_inodes[t].data.length
        OBVIOUS
      <4>2. a \in Int
        BY <1>2, <4>1, OpenLength
      <4>3. t # s => open_inodes'[t].data.length = a
        BY <3>1, <4>1
      <4> QED  BY <3>2, <4>1, <4>2, <4>3
    <3>3. ASSUME w.inode.data.length < inode.data.length
          PROVE  \E x \in OpenFiles : /\ FileAt(x).sector = s
                                      /\ \/ FileAt(x).pos = 0
                                         \/ \E n \in Sizes : FileAt(x).pos + n > OFF_MAX
      <4>1. PICK x \in OpenFiles : FileAt(x) = f
        BY <1>5
      <4>2. FileAt(x).sector = s /\ FileAt(x).pos = pos
        BY <1>6, <4>1
      <4>3. pos = 0 \/ pos + size > OFF_MAX
        BY <2>2, <3>3
      <4> QED  BY <4>2, <4>3
    <3> QED  BY <1>6, <2>2, <3>1, <3>2, <3>3 DEF ShortensByWriting
  <2> QED  BY <2>6, <2>7, <2>8, <2>9
<1> QED  BY <1>3, <1>4, <1>6, <1>7, <1>8 DEF Write

-----------------------------------------------------------------------------
(* The start, a boot, every step.                                          *)

(* No file is open. *)
LEMMA NothingOpenOffsets == NothingOpen => Offsets
<1> SUFFICES ASSUME NothingOpen, NEW x \in OpenFiles PROVE FALSE
  BY DEF Offsets
<1>1. Inv /\ DOMAIN open_inodes = {}
  BY NothingOpenInv DEF NothingOpen
<1> QED  BY <1>1, DenierCounted

(* The same after a step. *)
LEMMA NothingOpenOffsetsNext == NothingOpen' => Offsets'
BY NothingOpenOffsets, PTL

(* What do_format leaves. *)
LEMMA InitFits == Init => FsInv
<1> SUFFICES ASSUME Init PROVE FsInv
  OBVIOUS
<1>1. /\ vol = Formatted /\ panic = Formatted.failed /\ leaks = {} /\ open_inodes = <<>>
      /\ dir = [i \in 1 .. ROOT_ENTRIES |-> EmptyEntry] /\ NothingOpen
  BY DEF Init, NothingOpen
<1>2. Inv /\ Offsets
  BY <1>1, NothingOpenInv, NothingOpenOffsets
<1>3. ROOT_ENTRIES \in Nat /\ DIR_ENTRY_SIZE \in Nat
  BY FileSystemAssumption
<1>4. BookkeepingAsserts
  <2>1. PICK m, n : m = BITMAP_SIZE /\ n = ROOT_ENTRIES * DIR_ENTRY_SIZE
    OBVIOUS
  <2>2. m \in Int /\ n \in Int
    BY <1>3, <2>1 DEF BITMAP_SIZE
  <2>3. PICK v, u, w : /\ v = Blank /\ u = inode_create(v, FREE_MAP_SECTOR, m)
                       /\ w = inode_create(u, ROOT_DIR_SECTOR, n)
    OBVIOUS
  <2>4. w = Formatted
    BY <2>1, <2>3 DEF Formatted, Blank
  <2>5. v.failed = {}
    BY <2>3 DEF Blank, Volume
  <2>6. u.failed \in {v.failed, v.failed \cup {"inode_create"}, v.failed \cup {"inode_allocate"}}
    BY <2>2, <2>3, CreateKeeps
  <2>7. w.failed \in {u.failed, u.failed \cup {"inode_create"}, u.failed \cup {"inode_allocate"}}
    BY <2>2, <2>3, CreateKeeps
  <2>8. w.failed \subseteq {"inode_create", "inode_allocate"}
    BY <2>5, <2>6, <2>7
  <2> QED  BY <1>1, <2>4, <2>8 DEF BookkeepingAsserts
<1>5. /\ IsDir(dir) /\ Named(dir) = {}
  <2>1. PICK n, e : n = ROOT_ENTRIES /\ e = EmptyEntry
    OBVIOUS
  <2>2. IsEntry(e) /\ ~e.in_use
    BY <2>1 DEF EmptyEntry, IsEntry
  <2>3. dir = [i \in 1 .. n |-> e] /\ n \in Nat
    BY <1>1, <1>3, <2>1
  <2>4. dir \in [1 .. n -> {e}]
    BY <2>3
  <2>5. dir \in Seq({e})
    BY <2>3, <2>4, SeqDef
  <2>6. IsList(dir)
    BY <2>5, ListOf
  <2>7. DOMAIN dir = 1 .. Len(dir) /\ \A i \in DOMAIN dir : dir[i] = e
    BY <2>3, <2>6, ListShape
  <2> QED  BY <2>2, <2>6, <2>7 DEF IsDir, Named
<1>6. NamedIn(dir) = {} /\ DOMAIN open_inodes = {}
  <2>1. NamedIn(dir) = {}
    BY <1>5 DEF NamedIn
  <2>2. DOMAIN open_inodes = {}
    BY <1>1
  <2> QED  BY <2>1, <2>2
<1>7. Fit
  <2> SUFFICES ASSUME Running PROVE Fits(vol, dir, open_inodes, leaks)
    BY DEF Fit
  <2>1. ~Formatted.full /\ Formatted.failed = {}
    BY <1>1 DEF Running
  <2>2. PICK ids : ids = [s \in {0, 1} |-> Formatted.disk[s]]
    OBVIOUS
  <2>3. Good(Formatted, ids) /\ Tight(Formatted, ids)
    BY <2>1, <2>2, FormattedGood
  <2>4. HeldBy(dir, open_inodes) = {0, 1}
    BY <1>6 DEF HeldBy, SystemSectors, FREE_MAP_SECTOR, ROOT_DIR_SECTOR
  <2>5. IdsOf(vol, dir, open_inodes) = ids
    BY <1>1, <1>6, <2>2, <2>4 DEF IdsOf
  <2>6. SystemSectors \cap (NamedIn(dir) \cup DOMAIN open_inodes) = {}
    BY <1>6
  <2>7. Distinct(dir) /\ Matches(dir, open_inodes)
    BY <1>5, <1>6 DEF Distinct, Matches
  <2> QED  BY <1>1, <1>5, <2>3, <2>5, <2>6, <2>7 DEF Fits
<1> QED  BY <1>2, <1>4, <1>7 DEF FsInv

(* halt and a boot. *)
LEMMA HaltFits ==
    ASSUME Fit, NEW p, Halt(p)
    PROVE  /\ Fit' /\ Offsets' /\ BookkeepingAsserts'
           /\ SameData(open_inodes, open_inodes')
<1>1. /\ Running /\ vol' = vol /\ dir' = dir /\ panic' = {} /\ open_inodes' = <<>>
      /\ leaks' = leaks \cup Forgotten /\ NothingOpen'
  BY DEF Halt, Reboot, Calls, Running, NothingOpen
<1>2. Fits(vol, dir, open_inodes, leaks)
  BY <1>1, InOrder
<1>3. PICK q, m : q = open_inodes' /\ m = leaks'
  OBVIOUS
<1>4. DOMAIN q = {}
  BY <1>1, <1>3
<1>5. m = {} => leaks = {} /\ \A s \in DOMAIN open_inodes : ~open_inodes[s].removed
  BY <1>1, <1>3 DEF Forgotten
<1>6. Fits(vol, dir, q, m)
  BY <1>2, <1>4, <1>5, FitsRebooted
<1>7. Fit'
  BY <1>1, <1>3, <1>6, FitNext
<1>8. SameData(open_inodes, open_inodes')
  BY <1>3, <1>4 DEF SameData
<1> QED  BY <1>1, <1>7, <1>8, NothingOpenOffsetsNext, NoPanic

(* A halt in the middle of a call. *)
LEMMA CutFits ==
    ASSUME Fit, NEW p, NEW c, Cuts(p, c), panic' = vol'.failed, vol'.failed \subseteq {"inode_allocate"},
           NEW o, o = open_inodes', NEW m, m = leaks',
           DOMAIN o = {} /\ m # {} /\ vol'.failed = {} /\ ~vol'.full => Fits(vol', dir', o, m)
    PROVE  /\ Fit' /\ Offsets' /\ BookkeepingAsserts'
           /\ SameData(open_inodes, open_inodes')
<1>1. NothingOpen' /\ DOMAIN o = {} /\ m # {}
  BY DEF Cuts, Reboot, NothingOpen
<1>2. Running' => vol'.failed = {} /\ ~vol'.full
  BY DEF Running
<1>3. Fit'
  BY <1>1, <1>2, FitNext
<1>4. SameData(open_inodes, open_inodes')
  BY <1>1 DEF SameData
<1>5. BookkeepingAsserts'
  BY OtherAsserts
<1> QED  BY <1>1, <1>3, <1>4, <1>5, NothingOpenOffsetsNext

(* A growth in its middle. *)
LEMMA GrowingKeeps ==
    ASSUME NEW v, NEW id, NEW length \in Int, NEW w \in Growing(v, id, length)
    PROVE  /\ w.failed = v.failed \/ w.failed = v.failed \cup {"inode_allocate"}
           /\ v.full => w.full
<1>1. PICK n, r, x : /\ n \in 0 .. length
                     /\ r = inode_allocate(v, Resized(id, n)) /\ w \in Marking(r.vol, x)
  BY DEF Growing
<1>2. PICK jd : jd = Resized(id, n)
  OBVIOUS
<1>3. jd.length \in Int
  BY <1>1, <1>2 DEF Resized, InodeDisk
<1>4. Kept(v, jd, r)
  BY <1>1, <1>2, <1>3, AllocateKeeps
<1>5. w.full = r.vol.full /\ w.failed = r.vol.failed
  BY <1>1 DEF Marking, Volume
<1> QED  BY <1>4, <1>5 DEF Kept

(* filesys_create is cut short with the file made and not named. *)
LEMMA FitsMade ==
    ASSUME NEW v, NEW d, NEW o, NEW l, Fits(v, d, o, l), FreeSectors(v) # {},
           NEW s, s = Min(FreeSectors(v)), NEW length \in Nat, length <= OFF_MAX,
           NEW u, u = inode_create(free_map_allocate(v), s, length), ~u.full, u.failed = {},
           NEW q, DOMAIN q = {}, NEW m, m # {}
    PROVE  Fits(u, d, q, m)
<1>1. PICK ids, id, jds, kds : /\ ids = IdsOf(v, d, o) /\ id = u.disk[s]
                               /\ jds = With(ids, s, id) /\ kds = IdsOf(u, d, q)
  OBVIOUS
<1>2. DOMAIN ids = HeldBy(d, o) /\ Good(v, ids)
  BY <1>1 DEF IdsOf, Fits
<1>3. s \notin DOMAIN ids /\ Good(u, jds)
  BY <1>1, <1>2, CreateNew DEF IsLength
<1>4. DOMAIN jds = DOMAIN ids \cup {s}
  BY <1>1 DEF With
<1>5. DOMAIN kds = HeldBy(d, q) /\ \A t \in DOMAIN kds : kds[t] = u.disk[t]
  BY <1>1 DEF IdsOf
<1>6. DOMAIN kds \subseteq DOMAIN jds
  BY <1>2, <1>4, <1>5 DEF HeldBy
<1>7. Good(u, kds)
  BY <1>3, <1>5, <1>6, Reread
<1>8. SystemSectors \cap (NamedIn(d) \cup DOMAIN q) = {} /\ Matches(d, q)
  BY DEF Fits, Matches
<1> QED  BY <1>1, <1>7, <1>8 DEF Fits

(* The directory has room for an entry that is not written. *)
LEMMA EntryUnwritten ==
    ASSUME NEW d, IsDir(d), Distinct(d), NEW e, e = Append(d, EmptyEntry)
    PROVE  IsDir(e) /\ Distinct(e) /\ NamedIn(e) = NamedIn(d)
<1>1. PICK b, n : b = EmptyEntry /\ n = Len(d)
  OBVIOUS
<1>2. IsEntry(b) /\ ~b.in_use
  BY <1>1 DEF EmptyEntry, IsEntry
<1>3. /\ IsList(d) /\ n \in Nat /\ DOMAIN d = 1 .. n /\ \A j \in 1 .. n : IsEntry(d[j])
  BY <1>1, ListShape DEF IsDir
<1>4. IsList(e) /\ Len(e) = n + 1 /\ e[n + 1] = b /\ \A j \in 1 .. n : e[j] = d[j]
  BY <1>1, <1>3, Appended
<1>5. DOMAIN e = 1 .. n + 1 /\ \A j \in 1 .. n + 1 : j \in 1 .. n \/ j = n + 1
  BY <1>3, <1>4, ListShape
<1>6. IsDir(e)
  BY <1>2, <1>3, <1>4, <1>5 DEF IsDir
<1>7. \A j \in 1 .. n : j \in 1 .. n + 1
  BY <1>3
<1>8. Named(e) = Named(d) /\ \A j \in Named(d) : e[j] = d[j]
  BY <1>2, <1>3, <1>4, <1>5, <1>7 DEF Named
<1>9. Distinct(e)
  <2>1. ASSUME NEW i \in Named(d), NEW j \in Named(d), i # j
        PROVE  e[i].name # e[j].name /\ e[i].sector # e[j].sector
    <3>1. d[i].name # d[j].name /\ d[i].sector # d[j].sector
      BY <2>1 DEF Distinct
    <3>2. e[i] = d[i] /\ e[j] = d[j]
      BY <1>8
    <3> QED  BY <3>1, <3>2
  <2>2. ASSUME NEW i \in Named(e), NEW j \in Named(e), i # j
        PROVE  e[i].name # e[j].name /\ e[i].sector # e[j].sector
    BY <1>8, <2>1, <2>2
  <2> QED  BY <2>2, Zenon DEF Distinct
<1>10. NamedIn(e) = NamedIn(d)
  BY <1>8 DEF NamedIn
<1> QED  BY <1>6, <1>9, <1>10

(* filesys_create. *)
LEMMA CutCreateFits ==
    ASSUME Fit, NEW p, NEW c, NEW n, NEW size \in Sizes, CutCreate(p, c, n, size)
    PROVE  /\ Fit' /\ Offsets' /\ BookkeepingAsserts'
           /\ SameData(open_inodes, open_inodes')
<1>1. /\ Running /\ FreeSectors(vol) # {} /\ size \in Int /\ size <= OFF_MAX
      /\ Cuts(p, c) /\ panic' = vol'.failed
  BY Arguments DEF CutCreate, Cuts, Reboot, Calls
<1>2. /\ Fits(vol, dir, open_inodes, leaks) /\ IsDir(dir) /\ IsVolume(vol)
      /\ vol.failed = {} /\ ~vol.full
  BY <1>1, InOrder
<1>3. PICK s, u, made, w, e, o, m :
         /\ s = Min(FreeSectors(vol)) /\ u = free_map_allocate(vol)
         /\ made = inode_create(u, s, size) /\ w = vol' /\ e = dir'
         /\ o = open_inodes' /\ m = leaks'
  OBVIOUS
<1>4. PICK root, length : root = ROOT_DIR_SECTOR /\ length = FreeSlot * DIR_ENTRY_SIZE
  OBVIOUS
<1>5. \/ w \in Marking(vol, made) /\ e = dir
      \/ made.failed = {} /\ w \in Growing(made, made.disk[root], length) /\ e = dir
      \/ /\ made.failed = {} /\ ~Refuses(n) /\ FreeSlot > Len(dir)
         /\ w = DirWrite(made, FreeSlot) /\ e = Append(dir, EmptyEntry)
  BY <1>3, <1>4 DEF CutCreate
<1>6. u.failed = {}
  BY <1>2, <1>3 DEF free_map_allocate, Volume
<1>7. size < 0 => "inode_create" \in made.failed
  BY <1>1, <1>3, CreateKeeps
<1>8. made.failed = {} => size \in Nat
  BY <1>1, <1>7
<1>9. PICK k, b : k = FreeSlot /\ b = Append(dir, NewEntry(n, s))
  OBVIOUS
<1>10. k \in Nat /\ (k > Len(dir) => AddedTo(dir, k, n, s, b))
  <2>1. PICK g : g = IF k > Len(dir) THEN b ELSE [dir EXCEPT ![k] = NewEntry(n, s)]
    OBVIOUS
  <2>2. AddedTo(dir, k, n, s, g) /\ k \in Nat
    BY <1>2, <1>9, <2>1, EntryAdded
  <2> QED  BY <2>1, <2>2
<1>11. length \in Int /\ DIR_ENTRY_SIZE \in Int /\ (k - 1) * DIR_ENTRY_SIZE \in Int
  BY <1>4, <1>9, <1>10, FileSystemAssumption
<1>12. CASE w \in Marking(vol, made) /\ e = dir
  <2>1. w.failed = {}
    BY <1>2, <1>12 DEF Marking, Volume
  <2>2. ASSUME DOMAIN o = {}, m # {} PROVE Fits(w, e, o, m)
    <3>1. Fits(w, dir, open_inodes, m)
      BY <1>2, <1>12, <2>2, FitsMarking
    <3> QED  BY <1>12, <2>2, <3>1, FitsRebooted
  <2> QED  BY <1>1, <1>3, <2>1, <2>2, CutFits
<1>13. CASE made.failed = {} /\ w \in Growing(made, made.disk[root], length) /\ e = dir
  <2>1. /\ w.failed = {} \/ w.failed = {"inode_allocate"}
        /\ made.full => w.full
    BY <1>11, <1>13, GrowingKeeps
  <2>2. ASSUME DOMAIN o = {}, m # {}, w.failed = {}, ~w.full PROVE Fits(w, e, o, m)
    <3>1. ~made.full
      BY <2>1, <2>2
    <3>2. Fits(made, dir, o, m)
      BY <1>1, <1>2, <1>3, <1>8, <1>13, <2>2, <3>1, FitsMade
    <3>3. root \in HeldBy(dir, o) /\ root \notin DOMAIN o
      BY <1>4, <2>2 DEF HeldBy, SystemSectors
    <3>4. PICK id : id = made.disk[root]
      OBVIOUS
    <3>5. id = IF root \in DOMAIN o THEN o[root].data ELSE made.disk[root]
      BY <3>3, <3>4
    <3>6. w \in Growing(made, id, length)
      BY <1>13, <3>4
    <3>7. Fits(w, dir, o, m)
      BY <1>11, <2>2, <3>2, <3>3, <3>5, <3>6, FitsGrowing
    <3> QED  BY <1>13, <3>7
  <2> QED  BY <1>1, <1>3, <2>1, <2>2, CutFits
<1>14. CASE /\ made.failed = {} /\ ~Refuses(n) /\ FreeSlot > Len(dir)
            /\ w = DirWrite(made, FreeSlot) /\ e = Append(dir, EmptyEntry)
  <2>1. PICK bytes, offset, x : /\ bytes = DIR_ENTRY_SIZE /\ offset = (k - 1) * DIR_ENTRY_SIZE
                                /\ x = inode_write_at(made, root, NewOpen(made.disk[root]), bytes, offset)
    OBVIOUS
  <2>2. w = x.vol /\ bytes \in Int /\ offset \in Int
    BY <1>4, <1>9, <1>11, <1>14, <2>1 DEF DirWrite
  <2>3. /\ x.vol.failed = {} \/ x.vol.failed = {"inode_allocate"}
        /\ made.full => x.vol.full
    BY <1>14, <2>1, <2>2, WriteKeeps
  <2>4. \A i \in Named(dir) : dir[i].name # n
    BY <1>14 DEF Refuses, Listed, Slots, Named
  <2>5. AddedTo(dir, k, n, s, b)
    BY <1>9, <1>10, <1>14
  <2>6. ASSUME DOMAIN o = {}, m # {}, w.failed = {}, ~w.full PROVE Fits(w, e, o, m)
    <3>1. ~made.full
      BY <2>2, <2>3, <2>6
    <3>2. Fits(x.vol, b, open_inodes, leaks)
      BY <1>1, <1>2, <1>3, <1>4, <1>8, <1>14, <2>1, <2>2, <2>4, <2>5, <2>6, <3>1, FitsCreated
    <3>3. Distinct(dir)
      BY <1>2 DEF Fits
    <3>4. IsDir(e) /\ Distinct(e) /\ NamedIn(e) = NamedIn(dir)
      BY <1>2, <1>14, <3>3, EntryUnwritten
    <3>5. NamedIn(e) \subseteq NamedIn(b)
      <4>1. NamedIn(dir) \subseteq NamedIn(b)
        BY <2>5 DEF NamedIn, AddedTo
      <4> QED  BY <3>4, <4>1
    <3> QED  BY <2>2, <2>6, <3>2, <3>4, <3>5, FitsForgotten
  <2> QED  BY <1>1, <1>3, <2>2, <2>3, <2>6, CutFits
<1> QED  BY <1>5, <1>12, <1>13, <1>14

(* A write that makes a file grow. *)
LEMMA CutWriteFits ==
    ASSUME Inv, Fit, Offsets, NEW p, NEW c \in Procs, NEW fd, NEW size \in Sizes,
           CutWrite(p, c, fd, size)
    PROVE  /\ Fit' /\ Offsets' /\ BookkeepingAsserts'
           /\ SameData(open_inodes, open_inodes')
<1>1. /\ Running /\ Has(c, fd) /\ Cuts(p, c) /\ panic' = vol'.failed /\ dir' = dir
      /\ size \in Int /\ size >= 0
  BY Arguments DEF CutWrite, Cuts, Reboot, Calls
<1>2. /\ Fits(vol, dir, open_inodes, leaks) /\ vol.failed = {}
  BY <1>1, InOrder
<1>3. PICK f, s, id, end, w, o, m :
         /\ f = File(c, fd) /\ s = f.sector /\ id = open_inodes[s].data
         /\ end = Wrap(f.pos + size) /\ w = vol' /\ o = open_inodes' /\ m = leaks'
  OBVIOUS
<1>4. w \in Growing(vol, id, end)
  BY <1>3 DEF CutWrite
<1>5. f.pos \in 0 .. OFF_MAX /\ s \in DOMAIN open_inodes
  BY <1>1, <1>3, FoundOpen
<1>6. end \in Int
  BY <1>1, <1>3, <1>5, SectorAssumption DEF Wrap
<1>7. w.failed = {} \/ w.failed = {"inode_allocate"}
  BY <1>2, <1>4, <1>6, GrowingKeeps
<1>8. s \in HeldBy(dir, open_inodes)
  BY <1>5 DEF HeldBy
<1>9. ASSUME DOMAIN o = {}, m # {}, w.failed = {}, ~w.full PROVE Fits(w, dir, o, m)
  <2>1. id = IF s \in DOMAIN open_inodes THEN open_inodes[s].data ELSE vol.disk[s]
    BY <1>3, <1>5
  <2>2. Fits(w, dir, open_inodes, m)
    BY <1>2, <1>4, <1>6, <1>8, <1>9, <2>1, FitsGrowing
  <2> QED  BY <1>9, <2>2, FitsRebooted
<1> QED  BY <1>1, <1>3, <1>7, <1>9, CutFits

(* remove. *)
LEMMA CutRemoveFits ==
    ASSUME Fit, NEW p, NEW c, NEW n, CutRemove(p, c, n)
    PROVE  /\ Fit' /\ Offsets' /\ BookkeepingAsserts'
           /\ SameData(open_inodes, open_inodes')
<1>1. /\ Running /\ Listed(n) /\ Cuts(p, c) /\ panic' = vol'.failed
  BY DEF CutRemove, Cuts, Reboot, Calls
<1>2. Fits(vol, dir, open_inodes, leaks) /\ IsDir(dir)
  BY <1>1, InOrder
<1>3. PICK i, s, w, e, o, m : /\ i = Slot(n) /\ s = dir[i].sector /\ w = vol' /\ e = dir'
                              /\ o = open_inodes' /\ m = leaks'
  OBVIOUS
<1>4. TakenFrom(dir, i, e)
  <2>1. i \in Named(dir)
    BY <1>1, <1>2, <1>3, SlotIs
  <2>2. e = [dir EXCEPT ![i].in_use = FALSE]
    BY <1>3 DEF CutRemove
  <2> QED  BY <1>2, <2>1, <2>2, Erased
<1>5. PICK a, q, d : /\ a = inode_open(vol, open_inodes, s) /\ q = Put(a, s, Removed(a[s]))
                     /\ d = inode_close(vol, q, s)
  OBVIOUS
<1>6. w \in Releasing(vol, d.vol)
  BY <1>3, <1>5 DEF CutRemove, RemovedClosed
<1>7. s \in NamedIn(dir)
  BY <1>3, <1>4 DEF TakenFrom, NamedIn
<1>8. Fits(vol, dir, a, leaks) /\ s \in DOMAIN a
  <2>1. Fits(vol, dir, a, leaks) /\ OneMore(open_inodes, s, a)
    BY <1>2, <1>5, <1>7, FitsOpened
  <2> QED  BY <2>1 DEF OneMore
<1>9. Fits(vol, e, q, leaks) /\ s \in DOMAIN q
  <2>1. Fits(vol, e, q, leaks) /\ OneMore(a, s, q)
    BY <1>3, <1>4, <1>5, <1>8, FitsRemoved
  <2> QED  BY <2>1 DEF OneMore
<1>10. ASSUME DOMAIN o = {}, m # {} PROVE Fits(w, e, o, m) /\ w.failed = {}
  BY <1>5, <1>6, <1>9, <1>10, FitsReleasing
<1>11. DOMAIN o = {} /\ m # {}
  BY <1>1, <1>3 DEF Cuts, Reboot
<1> QED  BY <1>1, <1>3, <1>10, <1>11, CutFits

(* close, and the closing of thread_exit. *)
LEMMA CutCloseFits ==
    ASSUME Inv, Fit, NEW p, NEW c \in Procs, CutClose(p, c)
    PROVE  /\ Fit' /\ Offsets' /\ BookkeepingAsserts'
           /\ SameData(open_inodes, open_inodes')
<1>1. /\ Running /\ Cuts(p, c) /\ panic' = vol'.failed /\ dir' = dir
  BY DEF CutClose, Cuts, Reboot, Calls
<1>2. Fits(vol, dir, open_inodes, leaks)
  BY <1>1, InOrder
<1>3. PICK w, o, m : w = vol' /\ o = open_inodes' /\ m = leaks'
  OBVIOUS
<1>4. PICK i \in DOMAIN file_list[c] :
         w \in Releasing(vol, file_close(vol, open_inodes, file_list[c][i].file).vol)
  BY <1>3 DEF CutClose
<1>5. PICK f, s, x : f = file_list[c][i].file /\ s = f.sector /\ x = <<c, i>>
  OBVIOUS
<1>6. i \in 1 .. Len(file_list[c])
  BY ListShape DEF Inv, Lists
<1>7. x \in OpenFiles /\ FileAt(x) = f
  BY <1>5, <1>6, Places DEF Placed, Inv
<1>8. s \in DOMAIN open_inodes /\ (f.deny_write => open_inodes[s].deny_write_cnt > 0)
  BY <1>5, <1>7, DenierCounted
<1>9. DenyInRange(open_inodes[s]) /\ open_inodes[s].deny_write_cnt \in Nat
  BY <1>8, InRange, Numbers DEF Inv
<1>10. PICK q, a : /\ q = IF f.deny_write THEN Put(open_inodes, s, Counted(open_inodes[s], 0, -1))
                           ELSE open_inodes
                   /\ a = inode_close(vol, q, s)
  OBVIOUS
<1>11. a = file_close(vol, open_inodes, f)
  <2>1. CASE ~f.deny_write
    BY <1>5, <1>10, <2>1 DEF file_close
  <2>2. CASE f.deny_write
    <3>1. Counted(open_inodes[s], 0, -1).deny_write_cnt = open_inodes[s].deny_write_cnt + (-1)
      BY DEF Counted, OpenInode
    <3>2. Counted(open_inodes[s], 0, -1).deny_write_cnt >= 0
      BY <1>8, <1>9, <2>2, <3>1
    <3> QED  BY <1>5, <1>9, <1>10, <2>2, <3>2 DEF file_close
  <2> QED  BY <2>1, <2>2
<1>12. Fits(vol, dir, q, leaks) /\ s \in DOMAIN q
  <2>1. CASE ~f.deny_write
    BY <1>2, <1>8, <1>10, <2>1
  <2>2. CASE f.deny_write
    <3>1. q = Put(open_inodes, s, Counted(open_inodes[s], 0, -1))
      BY <1>10, <2>2
    <3>2. Fits(vol, dir, q, leaks) /\ OneMore(open_inodes, s, q)
      BY <1>2, <1>8, <3>1, FitsPut
    <3> QED  BY <3>2 DEF OneMore
  <2> QED  BY <2>1, <2>2
<1>13. w \in Releasing(vol, a.vol)
  BY <1>4, <1>5, <1>11
<1>14. DOMAIN o = {} /\ m # {}
  BY <1>1, <1>3 DEF Cuts, Reboot
<1>15. Fits(w, dir, o, m) /\ w.failed = {}
  BY <1>10, <1>12, <1>13, <1>14, FitsReleasing
<1> QED  BY <1>1, <1>3, <1>14, <1>15, CutFits

(* The positions when a file is opened. *)
LEMMA OpenOffsets ==
    ASSUME Inv, Offsets, NEW p \in Procs, NEW n, Open(p, n) \/ OpenNoPage(p, n)
    PROVE  Offsets'
<1>1. PICK f : f = OpenedFile(p, n)
  OBVIOUS
<1>2. IsFile(f) /\ f.pos = 0
  BY <1>1 DEF IsFile, OpenedFile
<1>3. 0 \in 0 .. OFF_MAX
  BY SectorAssumption
<1>4. PICK x : /\ OpenFiles' = OpenFiles \cup {x} /\ FileAt(x)' = f
               /\ \A y \in OpenFiles : FileAt(y)' = FileAt(y)
  <2>1. CASE Open(p, n)
    <3>1. PICK x : x = <<p, Len(file_list[p]) + 1>>
      OBVIOUS
    <3>2. file_list' = [file_list EXCEPT ![p] = Append(@, [fd |-> next_fd[p], file |-> f])]
          /\ lost' = lost
      BY <1>1, <2>1 DEF Open
    <3>3. Lists
      BY DEF Inv
    <3>4. /\ OpenFiles' = OpenFiles \cup {x} /\ FileAt(x)' = f
          /\ \A y \in OpenFiles : FileAt(y)' = FileAt(y)
      BY <1>2, <3>1, <3>2, <3>3, FileListed
    <3> QED  BY <3>4
  <2>2. CASE OpenNoPage(p, n)
    <3>1. PICK x : x = <<"lost", Len(lost) + 1>>
      OBVIOUS
    <3>2. lost' = Append(lost, f) /\ file_list' = file_list
      BY <1>1, <2>2 DEF OpenNoPage, procVars
    <3>3. Lists
      BY DEF Inv
    <3> QED  BY <1>2, <3>1, <3>2, <3>3, FileLost
  <2> QED  BY <2>1, <2>2
<1>5. \A y \in OpenFiles' : FileAt(y)'.pos \in 0 .. OFF_MAX
  BY <1>2, <1>3, <1>4 DEF Offsets
<1> QED  BY <1>5 DEF Offsets

(* A call that is refused, or concerns a process only. *)
LEMMA QuietStep ==
    ASSUME FsInv, Inv', Running, vol' = vol, dir' = dir, open_inodes' = open_inodes,
           leaks' = leaks, file_list' = file_list, lost' = lost,
           panic' \subseteq {"list_next", "file_deny_write", "filesys_done"}
    PROVE  FsInv' /\ ShortensByWriting
<1>1. Fit /\ Offsets /\ Lists
  BY DEF FsInv, Inv
<1>2. Fit' /\ SameData(open_inodes, open_inodes')
  BY <1>1, FitStays
<1>3. Offsets'
  BY <1>1, OffsetsStay
<1>4. BookkeepingAsserts'
  BY OtherAsserts
<1>5. ShortensByWriting
  BY <1>1, <1>2, SameLengths
<1> QED  BY <1>2, <1>3, <1>4, <1>5 DEF FsInv

(* Every step keeps the invariant and shortens files only as said. *)
LEMMA FsStep ==
    ASSUME FsInv, Next
    PROVE  FsInv' /\ ShortensByWriting
<1>1. Inv /\ Fit /\ Offsets /\ Lists
  BY DEF FsInv, Inv
<1>2. Inv'
  BY <1>1, InvStep
<1>3. ASSUME Running, Fit', Offsets', BookkeepingAsserts', SameData(open_inodes, open_inodes')
      PROVE  FsInv' /\ ShortensByWriting
  BY <1>1, <1>2, <1>3, SameLengths DEF FsInv
<1>4. ASSUME NEW p \in Procs, NEW n \in Names, NEW size \in Sizes, Create(p, n, size)
      PROVE  FsInv' /\ ShortensByWriting
  <2>1. /\ Running /\ open_inodes' = open_inodes /\ file_list' = file_list /\ lost' = lost
    BY <1>4 DEF Create, Calls, procVars
  <2>2. Fit' /\ BookkeepingAsserts'
    BY <1>1, <1>4, CreateFits
  <2>3. Offsets'
    BY <1>1, <2>1, OffsetsStay
  <2>4. SameData(open_inodes, open_inodes')
    BY <2>1 DEF SameData
  <2> QED  BY <1>3, <2>1, <2>2, <2>3, <2>4
<1>5. ASSUME NEW p \in Procs, NEW n \in Names, CreateFull(p, n) \/ RemoveMissing(p, n)
      PROVE  FsInv' /\ ShortensByWriting
  <2>1. Running /\ UNCHANGED vars
    BY <1>5 DEF CreateFull, RemoveMissing, Calls
  <2>2. /\ vol' = vol /\ dir' = dir /\ open_inodes' = open_inodes /\ leaks' = leaks
        /\ file_list' = file_list /\ lost' = lost /\ panic' = {}
    BY <2>1 DEF vars, procVars, Running
  <2> QED  BY <1>2, <2>1, <2>2, QuietStep
<1>6. ASSUME NEW p \in Procs, NEW n \in Names, RemoveFile(p, n)
      PROVE  FsInv' /\ ShortensByWriting
  <2>1. /\ Running /\ file_list' = file_list /\ lost' = lost
    BY <1>6 DEF RemoveFile, Calls, procVars
  <2>2. Fit' /\ BookkeepingAsserts' /\ SameData(open_inodes, open_inodes')
    BY <1>1, <1>6, RemoveFits
  <2>3. Offsets'
    BY <1>1, <2>1, OffsetsStay
  <2> QED  BY <1>3, <2>1, <2>2, <2>3
<1>7. ASSUME NEW p \in Procs, NEW n \in Names, Open(p, n) \/ OpenNoPage(p, n)
      PROVE  FsInv' /\ ShortensByWriting
  <2>1. Running
    BY <1>7 DEF Open, OpenNoPage, Calls
  <2>2. Fit' /\ BookkeepingAsserts' /\ SameData(open_inodes, open_inodes')
    BY <1>1, <1>2, <1>7, OpenFits
  <2>3. Offsets'
    BY <1>1, <1>7, OpenOffsets
  <2> QED  BY <1>3, <2>1, <2>2, <2>3
<1>8. ASSUME NEW p \in Procs, NEW n \in Names, OpenMissing(p, n)
      PROVE  FsInv' /\ ShortensByWriting
  <2>1. /\ Running /\ vol' = vol /\ dir' = dir /\ open_inodes' = open_inodes /\ leaks' = leaks
        /\ file_list' = file_list /\ lost' = lost /\ panic' \subseteq {"file_deny_write"}
    BY <1>8 DEF OpenMissing, Calls, procVars
  <2> QED  BY <1>2, <2>1, QuietStep
<1>9. ASSUME NEW p \in Procs, NEW fd \in Fds, NEW size \in Sizes, Read(p, fd, size)
      PROVE  FsInv' /\ ShortensByWriting
  <2>1. Running
    BY <1>9 DEF Read, Calls
  <2> QED  BY <1>1, <1>3, <1>9, <2>1, ReadFits
<1>10. ASSUME NEW p \in Procs, NEW fd \in Fds, NEW size \in Sizes, Write(p, fd, size)
       PROVE  FsInv' /\ ShortensByWriting
  BY <1>2, <1>10, WriteFits DEF FsInv
<1>11. ASSUME NEW p \in Procs, NEW fd \in Fds, NEW pos \in Positions, Seek(p, fd, pos)
       PROVE  FsInv' /\ ShortensByWriting
  <2>1. Running
    BY <1>11 DEF Seek, Calls
  <2> QED  BY <1>1, <1>3, <1>11, <2>1, SeekFits
<1>12. ASSUME NEW p \in Procs, NEW fd, Close(p, fd) \/ ExitCloses(p)
       PROVE  FsInv' /\ ShortensByWriting
  <2>1. Running
    BY <1>12 DEF Close, ExitCloses, Calls
  <2> QED  BY <1>1, <1>3, <1>12, <2>1, CloseFits
<1>13. ASSUME NEW p \in Procs, NEW fd \in Fds, CloseMissing(p, fd) \/ NoSuchFd(p, fd)
       PROVE  FsInv' /\ ShortensByWriting
  <2>1. /\ Running /\ vol' = vol /\ dir' = dir /\ open_inodes' = open_inodes /\ leaks' = leaks
        /\ file_list' = file_list /\ lost' = lost /\ panic' \subseteq {"list_next"}
    BY <1>13 DEF CloseMissing, NoSuchFd, Calls, Running, procVars
  <2> QED  BY <1>2, <2>1, QuietStep
<1>14. ASSUME NEW p \in Procs, Exit(p)
       PROVE  FsInv' /\ ShortensByWriting
  <2>1. /\ Running /\ vol' = vol /\ dir' = dir /\ open_inodes' = open_inodes /\ leaks' = leaks
        /\ file_list' = file_list /\ lost' = lost /\ panic' = {}
    BY <1>14 DEF Exit, Calls, Running
  <2> QED  BY <1>2, <2>1, QuietStep
<1>15. ASSUME NEW p \in Procs, Halt(p)
       PROVE  FsInv' /\ ShortensByWriting
  <2>1. Running
    BY <1>15 DEF Halt, Reboot, Calls
  <2> QED  BY <1>1, <1>3, <1>15, <2>1, HaltFits
<1>16. ASSUME NEW p \in Procs, NEW q \in Procs, NEW n \in Names, NEW size \in Sizes,
              CutCreate(p, q, n, size)
       PROVE  FsInv' /\ ShortensByWriting
  <2>1. Running
    BY <1>16 DEF CutCreate, Cuts, Reboot, Calls
  <2> QED  BY <1>1, <1>3, <1>16, <2>1, CutCreateFits
<1>17. ASSUME NEW p \in Procs, NEW q \in Procs, NEW n \in Names, CutRemove(p, q, n)
       PROVE  FsInv' /\ ShortensByWriting
  <2>1. Running
    BY <1>17 DEF CutRemove, Cuts, Reboot, Calls
  <2> QED  BY <1>1, <1>3, <1>17, <2>1, CutRemoveFits
<1>18. ASSUME NEW p \in Procs, NEW q \in Procs, NEW fd \in Fds, NEW size \in Sizes,
              CutWrite(p, q, fd, size)
       PROVE  FsInv' /\ ShortensByWriting
  <2>1. Running
    BY <1>18 DEF CutWrite, Cuts, Reboot, Calls
  <2> QED  BY <1>1, <1>3, <1>18, <2>1, CutWriteFits
<1>19. ASSUME NEW p \in Procs, NEW q \in Procs, CutClose(p, q)
       PROVE  FsInv' /\ ShortensByWriting
  <2>1. Running
    BY <1>19 DEF CutClose, Cuts, Reboot, Calls
  <2> QED  BY <1>1, <1>3, <1>19, <2>1, CutCloseFits
<1>20. ASSUME NEW p \in Procs, NEW q \in Procs, HaltAstray(p, q)
       PROVE  FsInv' /\ ShortensByWriting
  <2>1. /\ Running /\ vol' = vol /\ dir' = dir /\ open_inodes' = open_inodes /\ leaks' = leaks
        /\ file_list' = file_list /\ lost' = lost /\ panic' \subseteq {"filesys_done"}
    BY <1>20 DEF HaltAstray, Calls, procVars
  <2> QED  BY <1>2, <2>1, QuietStep
<1> QED
  BY <1>4, <1>5, <1>6, <1>7, <1>8, <1>9, <1>10, <1>11, <1>12, <1>13, <1>14, <1>15, <1>16,
     <1>17, <1>18, <1>19, <1>20 DEF Next

(* The inodes of the properties are those of the invariant. *)
LEMMA HoldersAre ==
    ASSUME NEW ids, ids = IdsOf(vol, dir, open_inodes)
    PROVE  DOMAIN ids = Holders /\ \A s \in Holders : ids[s] = InodeOf(s)
<1>1. HeldBy(dir, open_inodes) = Holders
  BY DEF HeldBy, Holders, FileInodes, NamedIn, Named, Listings
<1> QED  BY <1>1 DEF IdsOf, InodeOf

(***************************************************************************)
(* In every reachable state, until an assertion fails or the device is     *)
(* full, the volume, the directory and the open inodes fit together; the   *)
(* positions of open files are never negative; and the free map and the    *)
(* denials of writing have failed no assertion.                            *)
(***************************************************************************)
THEOREM FsInvHolds == Spec => []FsInv
<1>1. FsInv /\ [Next]_vars => FsInv'
  BY FsStep, FsStays
<1> QED  BY <1>1, InitFits, PTL DEF Spec

(***************************************************************************)
(* No sector belongs to two files, or to a file and the file system; each  *)
(* is marked in the free map, and byte_to_sector finds a sector of its own *)
(* file for every byte below the length.  inode_allocate, inode_deallocate *)
(* and the order of remove and close achieve this on a device of any size, *)
(* with direct, indirect and doubly indirect blocks of any number.         *)
(***************************************************************************)
THEOREM SectorsHold == Spec => []SectorsOwnedOnce
<1>1. FsInv => SectorsOwnedOnce
  <2> SUFFICES ASSUME FsInv, Running
               PROVE  /\ \A s \in Holders : Belongings(s) \subseteq vol.used
                      /\ \A s, t \in Holders : s # t => Belongings(s) \cap Belongings(t) = {}
                      /\ \A s \in Holders : \A pos \in 0 .. InodeOf(s).length - 1 :
                            byte_to_sector(vol, InodeOf(s), pos) \in Owned(vol, InodeOf(s))
    BY DEF SectorsOwnedOnce
  <2>1. Fits(vol, dir, open_inodes, leaks)
    BY InOrder DEF FsInv
  <2>2. PICK ids : ids = IdsOf(vol, dir, open_inodes)
    OBVIOUS
  <2>3. DOMAIN ids = Holders /\ \A s \in Holders : ids[s] = InodeOf(s)
    BY <2>2, HoldersAre
  <2>4. /\ Sound(vol, ids) /\ IsVolume(vol)
        /\ \A s \in Holders : IsInode(ids[s]) /\ Covered(vol, ids[s], Blocks(ids[s]))
    BY <2>1, <2>2, <2>3 DEF Fits, Good, Sound, Backed
  <2>5. \A s \in Holders : \A c : c \in Belongings(s) <=>
           c = s \/ (c # 0 /\ \E x \in Entries : Tree(vol, ids[s])[x] = c)
    <3> TAKE s \in Holders
    <3>1. \A c : c \in Owned(vol, ids[s]) <=> c # 0 /\ \E x \in Entries : Tree(vol, ids[s])[x] = c
      BY <2>4, OwnedIs
    <3> QED  BY <2>3, <3>1 DEF Belongings
  <2>6. \A s \in Holders : Belongings(s) \subseteq vol.used
    BY <2>3, <2>4, <2>5 DEF Sound
  <2>7. ASSUME NEW s \in Holders, NEW t \in Holders, s # t,
               NEW c, c \in Belongings(s), c \in Belongings(t)
        PROVE  FALSE
    <3>1. /\ \A x \in Entries : /\ Tree(vol, ids[s])[x] # 0 => Tree(vol, ids[s])[x] \notin Holders
                                /\ Tree(vol, ids[t])[x] # 0 => Tree(vol, ids[t])[x] \notin Holders
          /\ \A x, y \in Entries :
                ~(Tree(vol, ids[s])[x] = Tree(vol, ids[t])[y] /\ Tree(vol, ids[s])[x] # 0)
      BY <2>3, <2>4, <2>7 DEF Sound
    <3>2. /\ c = s \/ (c # 0 /\ \E x \in Entries : Tree(vol, ids[s])[x] = c)
          /\ c = t \/ (c # 0 /\ \E x \in Entries : Tree(vol, ids[t])[x] = c)
      BY <2>5, <2>7
    <3> QED  BY <2>7, <3>1, <3>2
  <2>8. \A s \in Holders : \A pos \in 0 .. InodeOf(s).length - 1 :
           byte_to_sector(vol, InodeOf(s), pos) \in Owned(vol, InodeOf(s))
    BY <2>3, <2>4, ByteOwned
  <2> QED  BY <2>6, <2>7, <2>8
<1> QED  BY <1>1, FsInvHolds, PTL

(***************************************************************************)
(* As long as no create has failed in dir_add, no write has shortened a    *)
(* file and no halt has met a removed file that was open or another        *)
(* process's call in its middle, every sector marked in the free map       *)
(* belongs to a file or to the file system: closing a removed file gives   *)
(* back exactly what its growth took.                                      *)
(***************************************************************************)
THEOREM NoLeaksHold == Spec => []NoOtherLeaks
<1>1. FsInv => NoOtherLeaks
  <2> SUFFICES ASSUME FsInv, Running, leaks = {}
               PROVE  vol.used = UNION {Belongings(s) : s \in Holders}
    BY DEF NoOtherLeaks
  <2>1. Fits(vol, dir, open_inodes, leaks)
    BY InOrder DEF FsInv
  <2>2. PICK ids : ids = IdsOf(vol, dir, open_inodes)
    OBVIOUS
  <2>3. DOMAIN ids = Holders /\ \A s \in Holders : ids[s] = InodeOf(s)
    BY <2>2, HoldersAre
  <2>4. /\ Sound(vol, ids) /\ IsVolume(vol) /\ Accounted(vol, ids)
        /\ \A s \in Holders : IsInode(ids[s])
    BY <2>1, <2>2, <2>3 DEF Fits, Good, Sound, Tight
  <2>5. \A s \in Holders : \A c : c \in Belongings(s) <=>
           c = s \/ (c # 0 /\ \E x \in Entries : Tree(vol, ids[s])[x] = c)
    <3> TAKE s \in Holders
    <3>1. \A c : c \in Owned(vol, ids[s]) <=> c # 0 /\ \E x \in Entries : Tree(vol, ids[s])[x] = c
      BY <2>4, OwnedIs
    <3> QED  BY <2>3, <3>1 DEF Belongings
  <2>6. ASSUME NEW c \in vol.used PROVE \E s \in Holders : c \in Belongings(s)
    <3>1. CASE c \in Holders
      BY <2>5, <3>1
    <3>2. CASE c \notin Holders
      BY <2>3, <2>4, <2>5, <3>2 DEF Accounted
    <3> QED  BY <3>1, <3>2
  <2>7. ASSUME NEW s \in Holders, NEW c \in Belongings(s) PROVE c \in vol.used
    BY <2>3, <2>4, <2>5 DEF Sound
  <2>8. \A c : c \in UNION {Belongings(s) : s \in Holders} <=> \E s \in Holders : c \in Belongings(s)
    OBVIOUS
  <2> QED  BY <2>6, <2>7, <2>8
<1> QED  BY <1>1, FsInvHolds, PTL

(***************************************************************************)
(* dir_add and dir_remove keep the directory in agreement with the open    *)
(* inodes: no two entries share a name or a file, and an open inode is     *)
(* marked removed exactly when no entry names it.                          *)
(***************************************************************************)
THEOREM DirectoryHolds == Spec => []DirectoryMatchesInodes
<1>1. FsInv => DirectoryMatchesInodes
  <2> SUFFICES ASSUME FsInv, Running
               PROVE  /\ \A i, j \in Listings :
                            i # j => dir[i].name # dir[j].name /\ dir[i].sector # dir[j].sector
                      /\ \A s \in DOMAIN open_inodes :
                            open_inodes[s].removed <=> s \notin {dir[i].sector : i \in Listings}
    BY DEF DirectoryMatchesInodes
  <2>1. Fits(vol, dir, open_inodes, leaks)
    BY InOrder DEF FsInv
  <2>2. Distinct(dir) /\ Matches(dir, open_inodes)
    BY <2>1 DEF Fits
  <2>3. Listings = Named(dir) /\ {dir[i].sector : i \in Listings} = NamedIn(dir)
    BY DEF Listings, Named, NamedIn
  <2> QED  BY <2>2, <2>3 DEF Distinct, Matches
<1> QED  BY <1>1, FsInvHolds, PTL

(***************************************************************************)
(* free_map_release never meets a sector that is free, inode_allow_write   *)
(* never allows what was not denied and inode_deny_write never denies more *)
(* than there are openers: their assertions hold in every run.             *)
(***************************************************************************)
THEOREM AssertsHold == Spec => []BookkeepingAsserts
<1>1. FsInv => BookkeepingAsserts
  BY DEF FsInv
<1> QED  BY <1>1, FsInvHolds, PTL

(***************************************************************************)
(* inode_write_at is the only way to shorten a file: with an empty write   *)
(* at position 0, or with one that ends above the largest off_t; and it    *)
(* never changes the length of another file.                               *)
(***************************************************************************)
THEOREM ShorteningHolds == Spec => OnlyEmptyWritesShorten
<1>1. FsInv /\ [Next]_vars => [ShortensByWriting]_vars
  BY FsStep
<1> QED  BY <1>1, FsInvHolds, PTL DEF Spec, OnlyEmptyWritesShorten
=============================================================================
