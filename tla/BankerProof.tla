---------------------------- MODULE BankerProof ----------------------------
(***************************************************************************)
(* Proofs about the banker's algorithm of module Banker.  A state is safe  *)
(* (there is an order in which everybody can finish), and safe_check says  *)
(* so, exactly if no set of processes is stuck: NoneStuck, which the       *)
(* commands preserve and which is a part of the inductive invariant Inv.   *)
(***************************************************************************)
EXTENDS Banker, FiniteSetTheorems, FunctionTheorems, WellFoundedInduction, TLAPS

-----------------------------------------------------------------------------
(* Induction over finite sets. *)

(* Induction over the naturals, for a set. *)
LEMMA SetInduction ==
    ASSUME NEW S, 0 \in S, \A n \in Nat : n \in S => n + 1 \in S
    PROVE  Nat \subseteq S
<1> DEFINE T == Nat \ S
<1> SUFFICES ASSUME T # {} PROVE FALSE
  OBVIOUS
<1>1. PICK x \in T : \A y \in T : ~(<<y, x>> \in OpToRel(<, Nat))
  <2>1. \E x \in T : \A y \in T : ~(<<y, x>> \in OpToRel(<, Nat))
    BY WFMin, NatLessThanWellFounded
  <2> QED  BY <2>1
<1>2. x \in Nat /\ x # 0
  OBVIOUS
<1>3. x - 1 \in Nat /\ x - 1 < x /\ (x - 1) + 1 = x
  BY <1>2
<1>4. x - 1 \in T
  BY <1>2, <1>3
<1>5. <<x - 1, x>> \in OpToRel(<, Nat)
  BY <1>2, <1>3 DEF OpToRel
<1> QED  BY <1>1, <1>4, <1>5

(* A finite set, and one with an element less. *)
LEMMA OneLess ==
    ASSUME NEW S, IsFiniteSet(S), NEW T \in SUBSET S, NEW p \in T
    PROVE  /\ IsFiniteSet(T) /\ Cardinality(T) \in Nat /\ Cardinality(T) # 0
           /\ T \ {p} \in SUBSET S
           /\ Cardinality(T \ {p}) = Cardinality(T) - 1
<1>1. IsFiniteSet(T)
  BY FS_Subset
<1>2. Cardinality(T) \in Nat
  BY <1>1, FS_CardinalityType
<1>3. Cardinality(T) # 0
  BY <1>1, FS_EmptySet
<1>4. Cardinality(T \ {p}) = Cardinality(T) - 1
  BY <1>1, FS_RemoveElement
<1> QED  BY <1>1, <1>2, <1>3, <1>4

(* Induction over the subsets of a finite set, for a set of them. *)
LEMMA SubsetInduction ==
    ASSUME NEW S, IsFiniteSet(S), NEW G,
           \A T \in SUBSET S : (\A p \in T : T \ {p} \in G) => T \in G
    PROVE  \A T \in SUBSET S : T \in G
<1> DEFINE N == { n \in Nat : \A T \in SUBSET S : Cardinality(T) = n => T \in G }
<1>1. 0 \in N
  <2>1. ASSUME NEW T \in SUBSET S, Cardinality(T) = 0 PROVE T \in G
    <3>1. T = {}
      BY <2>1, FS_Subset, FS_EmptySet
    <3> QED  BY <3>1
  <2> QED  BY <2>1
<1>2. ASSUME NEW n \in Nat, n \in N PROVE n + 1 \in N
  <2>1. ASSUME NEW T \in SUBSET S, Cardinality(T) = n + 1 PROVE T \in G
    <3>1. ASSUME NEW p \in T PROVE T \ {p} \in G
      <4>1. T \ {p} \in SUBSET S /\ Cardinality(T \ {p}) = (n + 1) - 1
        BY <2>1, OneLess
      <4>2. (n + 1) - 1 = n
        OBVIOUS
      <4> QED  BY <1>2, <4>1, <4>2
    <3> QED  BY <3>1
  <2> QED  BY <2>1
<1> HIDE DEF N
<1>3. Nat \subseteq N
  BY <1>1, <1>2, SetInduction
<1> QED
  <2> TAKE T \in SUBSET S
  <2>1. Cardinality(T) \in Nat
    BY FS_Subset, FS_CardinalityType
  <2> QED  BY <1>3, <2>1 DEF N

(* A finite set of process numbers has a last one. *)
LEMMA HasMax ==
    ASSUME NEW S \in SUBSET Int, IsFiniteSet(S), S # {}
    PROVE  Max(S) \in S
<1> DEFINE G == { T \in SUBSET S : T # {} => \E x \in T : \A y \in T : x >= y }
<1>1. ASSUME NEW T \in SUBSET S, \A p \in T : T \ {p} \in G PROVE T \in G
  <2> SUFFICES ASSUME T # {} PROVE \E x \in T : \A y \in T : x >= y
    OBVIOUS
  <2>1. PICK p \in T : TRUE
    OBVIOUS
  <2>2. CASE T \ {p} = {}
    <3>1. \A y \in T : y = p
      BY <2>2
    <3> QED  BY <2>1, <3>1
  <2>3. CASE T \ {p} # {}
    <3>1. PICK x \in T \ {p} : \A y \in T \ {p} : x >= y
      BY <1>1, <2>3
    <3>2. x \in Int /\ p \in Int /\ \A y \in T : y \in Int
      OBVIOUS
    <3>3. CASE x >= p
      BY <3>1, <3>3
    <3>4. CASE p >= x
      <4>1. \A y \in T : p >= y
        BY <3>1, <3>2, <3>4
      <4> QED  BY <4>1
    <3>5. x >= p \/ p >= x
      BY <3>2
    <3> QED  BY <3>3, <3>4, <3>5
  <2> QED  BY <2>2, <2>3
<1> HIDE DEF G
<1>2. S \in G
  BY <1>1, SubsetInduction
<1>3. \E x \in S : \A y \in S : x >= y
  BY <1>2 DEF G
<1> QED  BY <1>3 DEF Max

(* Of a subset. *)
LEMMA MaxIn ==
    ASSUME NEW S \in SUBSET Int, IsFiniteSet(S), NEW T \in SUBSET S, T # {}
    PROVE  Max(T) \in T
<1>1. IsFiniteSet(T) /\ T \in SUBSET Int
  BY FS_Subset
<1> QED  BY <1>1, HasMax

(* f holds what a loop over the subsets gives that starts at base. *)
Loop(f, S, base, step) ==
    \A T \in SUBSET S : f[T] = IF T = {} THEN base
                               ELSE step[<<f[T \ {Max(T)}], Max(T)>>]

(* There is a result. *)
LEMMA LoopRuns ==
    ASSUME NEW S \in SUBSET Int, IsFiniteSet(S), NEW V, NEW base \in V, NEW step,
           \A v \in V, p \in S : step[<<v, p>>] \in V
    PROVE  \E f \in [SUBSET S -> V] : Loop(f, S, base, step)
<1> DEFINE Upto(f, n) == \A T \in SUBSET S : Cardinality(T) <= n =>
                            f[T] = IF T = {} THEN base
                                   ELSE step[<<f[T \ {Max(T)}], Max(T)>>]
           N == { n \in Nat : \E f \in [SUBSET S -> V] : Upto(f, n) }
<1>1. 0 \in N
  <2> DEFINE f == [T \in SUBSET S |-> base]
  <2>1. f \in [SUBSET S -> V]
    OBVIOUS
  <2>2. ASSUME NEW T \in SUBSET S, Cardinality(T) <= 0 PROVE T = {}
    <3>1. IsFiniteSet(T) /\ Cardinality(T) \in Nat
      BY FS_Subset, FS_CardinalityType
    <3>2. Cardinality(T) = 0
      BY <2>2, <3>1
    <3> QED  BY <3>1, <3>2, FS_EmptySet
  <2>3. Upto(f, 0)
    BY <2>2
  <2> QED  BY <2>1, <2>3
<1>2. ASSUME NEW n \in Nat, n \in N PROVE n + 1 \in N
  <2>1. PICK f \in [SUBSET S -> V] : Upto(f, n)
    BY <1>2
  <2> DEFINE Val(T) == IF T = {} THEN base ELSE step[<<f[T \ {Max(T)}], Max(T)>>]
             g == [T \in SUBSET S |-> IF Cardinality(T) <= n THEN f[T] ELSE Val(T)]
  <2>2. ASSUME NEW T \in SUBSET S PROVE Val(T) \in V
    <3>1. CASE T = {}
      BY <3>1
    <3>2. CASE T # {}
      <4>1. Max(T) \in T
        BY <3>2, MaxIn
      <4>2. f[T \ {Max(T)}] \in V /\ Max(T) \in S
        BY <4>1
      <4> QED  BY <3>2, <4>2
    <3> QED  BY <3>1, <3>2
  <2>3. g \in [SUBSET S -> V]
    BY <2>2
  <2>4. ASSUME NEW T \in SUBSET S, Cardinality(T) <= n + 1
        PROVE  g[T] = IF T = {} THEN base ELSE step[<<g[T \ {Max(T)}], Max(T)>>]
    <3>1. g[T] = Val(T)
      BY <2>1
    <3>2. CASE T = {}
      BY <3>1, <3>2
    <3>3. CASE T # {}
      <4>1. Max(T) \in T
        BY <3>3, MaxIn
      <4>2. /\ T \ {Max(T)} \in SUBSET S /\ Cardinality(T) \in Nat
            /\ Cardinality(T \ {Max(T)}) = Cardinality(T) - 1
        BY <4>1, OneLess
      <4>3. Cardinality(T \ {Max(T)}) <= n
        BY <2>4, <4>2
      <4>4. g[T \ {Max(T)}] = f[T \ {Max(T)}]
        BY <4>2, <4>3
      <4> QED  BY <3>1, <3>3, <4>4
    <3> QED  BY <3>2, <3>3
  <2> HIDE DEF g
  <2>5. Upto(g, n + 1)
    BY <2>4
  <2> HIDE DEF Upto
  <2> QED  BY <2>3, <2>5
<1> HIDE DEF N
<1>3. Nat \subseteq N
  BY <1>1, <1>2, SetInduction
<1>4. Cardinality(S) \in Nat
  BY FS_CardinalityType
<1>5. PICK f \in [SUBSET S -> V] : Upto(f, Cardinality(S))
  BY <1>3, <1>4 DEF N
<1>6. \A T \in SUBSET S : Cardinality(T) <= Cardinality(S)
  BY FS_Subset
<1> QED  BY <1>5, <1>6 DEF Loop

-----------------------------------------------------------------------------
(* What the processes of a set have. *)

(* A set of processes whose shares of kind k can be added up. *)
Countable(a, S, k) ==
    S \in SUBSET Int /\ IsFiniteSet(S) /\ \A p \in S : a[p][k] \in Nat

(* f holds the sums over the subsets of S. *)
Sums(f, a, S, k) ==
    f = [T \in SUBSET S |-> IF T = {} THEN 0 ELSE f[T \ {Max(T)}] + a[Max(T)][k]]

(* Total is the last of such sums. *)
IsSum(f, a, S, k) ==
    f \in [SUBSET S -> Nat] /\ Sums(f, a, S, k) /\ Total(a, S, k) = f[S]

(* There are such sums. *)
LEMMA TotalSums ==
    ASSUME NEW a, NEW S, NEW k, Countable(a, S, k)
    PROVE  \E f : IsSum(f, a, S, k)
<1> DEFINE step == [x \in Nat \X S |-> x[1] + a[x[2]][k]]
<1>1. \A v \in Nat, p \in S : step[<<v, p>>] = v + a[p][k] /\ step[<<v, p>>] \in Nat
  BY DEF Countable
<1> HIDE DEF step
<1>2. PICK f \in [SUBSET S -> Nat] : Loop(f, S, 0, step)
  BY <1>1, LoopRuns DEF Countable
<1>3. ASSUME NEW T \in SUBSET S
      PROVE  f[T] = IF T = {} THEN 0 ELSE f[T \ {Max(T)}] + a[Max(T)][k]
  <2>1. CASE T = {}
    BY <1>2, <2>1 DEF Loop
  <2>2. CASE T # {}
    <3>1. Max(T) \in T
      BY <2>2, MaxIn DEF Countable
    <3>2. f[T \ {Max(T)}] \in Nat /\ Max(T) \in S
      BY <3>1
    <3>3. f[T] = step[<<f[T \ {Max(T)}], Max(T)>>]
      BY <1>2, <2>2 DEF Loop
    <3> QED  BY <1>1, <2>2, <3>2, <3>3
  <2> QED  BY <2>1, <2>2
<1>4. Sums(f, a, S, k)
  BY <1>3 DEF Sums
<1> DEFINE sum == CHOOSE g : Sums(g, a, S, k)
<1>5. Sums(sum, a, S, k)
  BY <1>4
<1>6. Total(a, S, k) = sum[S]
  BY DEF Total, Sums
<1>7. sum \in [SUBSET S -> Nat]
  <2> HIDE DEF sum
  <2> DEFINE G == { T \in SUBSET S : sum[T] \in Nat }
  <2>1. \A T \in SUBSET S : sum[T] = IF T = {} THEN 0 ELSE sum[T \ {Max(T)}] + a[Max(T)][k]
    BY <1>5 DEF Sums
  <2>2. ASSUME NEW T \in SUBSET S, \A p \in T : T \ {p} \in G PROVE T \in G
    <3>1. CASE T = {}
      <4>1. sum[T] = 0
        BY <2>1, <3>1
      <4> QED  BY <4>1
    <3>2. CASE T # {}
      <4>1. Max(T) \in T
        BY <3>2, MaxIn DEF Countable
      <4>2. sum[T \ {Max(T)}] \in Nat /\ a[Max(T)][k] \in Nat
        BY <2>2, <4>1 DEF Countable
      <4>3. sum[T] = sum[T \ {Max(T)}] + a[Max(T)][k]
        BY <2>1, <3>2
      <4> QED  BY <4>2, <4>3
    <3> QED  BY <3>1, <3>2
  <2> HIDE DEF G
  <2>3. \A T \in SUBSET S : T \in G
    BY <2>2, SubsetInduction DEF Countable
  <2>4. \A T \in SUBSET S : sum[T] \in Nat
    BY <2>3 DEF G
  <2>5. sum = [T \in SUBSET S |-> sum[T]]
    BY <1>5 DEF Sums
  <2> QED  BY <2>4, <2>5
<1> QED  BY <1>5, <1>6, <1>7 DEF IsSum

(* The same shares for the processes of S. *)
SameShares(a, b, S, k) == \A p \in S : a[p][k] = b[p][k]

(* f and g agree on the subsets of S. *)
Agree(f, g, S) == \A T \in SUBSET S : f[T] = g[T]

(* Sums over the same processes with the same shares agree. *)
LEMMA SumsAgree ==
    ASSUME NEW a, NEW b, NEW S, NEW R, NEW k, NEW f, NEW g,
           S \in SUBSET Int, IsFiniteSet(S), S \subseteq R,
           Sums(f, a, S, k), Sums(g, b, R, k), SameShares(a, b, S, k)
    PROVE  Agree(f, g, S)
<1> DEFINE G == { T \in SUBSET S : f[T] = g[T] }
<1>1. ASSUME NEW T \in SUBSET S, \A p \in T : T \ {p} \in G PROVE T \in G
  <2>1. f[T] = IF T = {} THEN 0 ELSE f[T \ {Max(T)}] + a[Max(T)][k]
    BY DEF Sums
  <2>2. g[T] = IF T = {} THEN 0 ELSE g[T \ {Max(T)}] + b[Max(T)][k]
    BY DEF Sums
  <2>3. CASE T = {}
    BY <2>1, <2>2, <2>3
  <2>4. CASE T # {}
    <3>1. Max(T) \in T
      BY <2>4, MaxIn
    <3>2. f[T \ {Max(T)}] = g[T \ {Max(T)}] /\ a[Max(T)][k] = b[Max(T)][k]
      BY <1>1, <3>1 DEF SameShares
    <3> QED  BY <2>1, <2>2, <2>4, <3>2
  <2> QED  BY <2>3, <2>4
<1> HIDE DEF G
<1>2. \A T \in SUBSET S : T \in G
  BY <1>1, SubsetInduction
<1> QED  BY <1>2 DEF G, Agree

(* The same for Total. *)
LEMMA TotalSame ==
    ASSUME NEW a, NEW b, NEW S, NEW k, Countable(a, S, k), SameShares(a, b, S, k)
    PROVE  Total(b, S, k) = Total(a, S, k)
<1>1. Countable(b, S, k)
  BY DEF Countable, SameShares
<1>2. PICK f : IsSum(f, a, S, k)
  BY TotalSums
<1>3. PICK g : IsSum(g, b, S, k)
  BY <1>1, TotalSums
<1>4. f[S] = g[S]
  <2>1. S \in SUBSET Int /\ IsFiniteSet(S)
    BY DEF Countable
  <2>2. Sums(f, a, S, k) /\ Sums(g, b, S, k) /\ S \subseteq S
    BY <1>2, <1>3 DEF IsSum
  <2>3. Agree(f, g, S)
    BY <2>1, <2>2, SumsAgree
  <2> QED  BY <2>3 DEF Agree
<1> QED  BY <1>2, <1>3, <1>4 DEF IsSum

(* Total is a number; any process's share can be taken out of it. *)
LEMMA TotalOf ==
    ASSUME NEW a, NEW S, NEW k, Countable(a, S, k)
    PROVE  /\ Total(a, S, k) \in Nat
           /\ S = {} => Total(a, S, k) = 0
           /\ \A p \in S : Total(a, S, k) = Total(a, S \ {p}, k) + a[p][k]
<1>0. PICK f : IsSum(f, a, S, k)
  BY TotalSums
<1>1. f \in [SUBSET S -> Nat] /\ Sums(f, a, S, k) /\ Total(a, S, k) = f[S]
  BY <1>0 DEF IsSum
<1>f. \A T \in SUBSET S : f[T] = IF T = {} THEN 0 ELSE f[T \ {Max(T)}] + a[Max(T)][k]
  BY <1>1 DEF Sums
<1>s. S \in SUBSET Int /\ IsFiniteSet(S) /\ \A p \in S : a[p][k] \in Nat
  BY DEF Countable
<1> DEFINE G == { T \in SUBSET S : \A p \in T : f[T] = f[T \ {p}] + a[p][k] }
<1>2. ASSUME NEW T \in SUBSET S, \A p \in T : T \ {p} \in G PROVE T \in G
  <2> SUFFICES ASSUME NEW p \in T PROVE f[T] = f[T \ {p}] + a[p][k]
    OBVIOUS
  <2> DEFINE m == Max(T)
             U == (T \ {m}) \ {p}
  <2>1. m \in T
    BY <1>s, MaxIn
  <2> HIDE DEF m
  <2>2. f[T] = f[T \ {m}] + a[m][k]
    BY <1>f DEF m
  <2>3. CASE p = m
    BY <2>2, <2>3
  <2>4. CASE p # m
    <3>1. f[T \ {m}] = f[U] + a[p][k]
      BY <1>2, <2>1, <2>4
    <3>2. f[T \ {p}] = f[(T \ {p}) \ {m}] + a[m][k]
      BY <1>2, <2>1, <2>4
    <3>3. (T \ {p}) \ {m} = U
      OBVIOUS
    <3>4. f[U] \in Nat /\ a[p][k] \in Nat /\ a[m][k] \in Nat
      <4>1. U \in SUBSET S /\ p \in S /\ m \in S
        BY <2>1
      <4> HIDE DEF U
      <4> QED  BY <1>1, <1>s, <4>1
    <3> HIDE DEF U
    <3>5. f[T] = (f[U] + a[p][k]) + a[m][k] /\ f[T \ {p}] = f[U] + a[m][k]
      BY <2>2, <3>1, <3>2, <3>3
    <3> QED  BY <3>4, <3>5
  <2> QED  BY <2>3, <2>4
<1> HIDE DEF G
<1>3. S \in G
  <2>1. \A T \in SUBSET S : T \in G
    BY <1>2, <1>s, SubsetInduction
  <2> QED  BY <2>1
<1>4. ASSUME NEW p \in S PROVE Total(a, S, k) = Total(a, S \ {p}, k) + a[p][k]
  <2>1. Countable(a, S \ {p}, k)
    BY <1>s, FS_Subset DEF Countable
  <2>g. PICK g : IsSum(g, a, S \ {p}, k)
    BY <2>1, TotalSums
  <2>2. Sums(g, a, S \ {p}, k) /\ Total(a, S \ {p}, k) = g[S \ {p}]
    BY <2>g DEF IsSum
  <2>3. g[S \ {p}] = f[S \ {p}]
    <3>1. S \ {p} \in SUBSET Int /\ IsFiniteSet(S \ {p}) /\ S \ {p} \subseteq S
      BY <2>1 DEF Countable
    <3>2. SameShares(a, a, S \ {p}, k)
      BY DEF SameShares
    <3>3. Agree(g, f, S \ {p})
      BY <1>1, <2>2, <3>1, <3>2, SumsAgree
    <3> QED  BY <3>3 DEF Agree
  <2>4. f[S] = f[S \ {p}] + a[p][k]
    BY <1>3 DEF G
  <2> QED  BY <1>1, <2>2, <2>3, <2>4
<1> QED  BY <1>1, <1>f, <1>4

(* More processes have at least as much. *)
LEMMA TotalGrows ==
    ASSUME NEW a, NEW S, NEW k, Countable(a, S, k), NEW R \in SUBSET S
    PROVE  Total(a, R, k) <= Total(a, S, k) /\ Countable(a, R, k)
<1>c. \A T \in SUBSET S : Countable(a, T, k)
  BY FS_Subset DEF Countable
<1> DEFINE G == { T \in SUBSET S : \A U \in SUBSET T : Total(a, U, k) <= Total(a, T, k) }
<1>1. ASSUME NEW T \in SUBSET S, \A p \in T : T \ {p} \in G PROVE T \in G
  <2> SUFFICES ASSUME NEW U \in SUBSET T PROVE Total(a, U, k) <= Total(a, T, k)
    OBVIOUS
  <2>0. Countable(a, T, k) /\ Countable(a, U, k) /\ U \in SUBSET S
    BY <1>c
  <2>1. Total(a, T, k) \in Nat /\ Total(a, U, k) \in Nat
    BY <2>0, TotalOf
  <2>2. CASE U = T
    BY <2>1, <2>2
  <2>3. CASE U # T
    <3>1. PICK p \in T : p \notin U
      BY <2>3
    <3>2. Total(a, T, k) = Total(a, T \ {p}, k) + a[p][k]
      BY <2>0, TotalOf
    <3>3. Total(a, U, k) <= Total(a, T \ {p}, k)
      BY <1>1, <3>1
    <3>4. a[p][k] \in Nat /\ Total(a, T \ {p}, k) \in Nat
      <4>1. Countable(a, T \ {p}, k)
        BY <1>c
      <4> QED  BY <4>1, TotalOf DEF Countable
    <3> QED  BY <2>1, <3>2, <3>3, <3>4
  <2> QED  BY <2>2, <2>3
<1> HIDE DEF G
<1>2. S \in G
  BY <1>1, SubsetInduction DEF Countable
<1> QED  BY <1>2, <1>c DEF G

(* A process more. *)
LEMMA TotalAdded ==
    ASSUME NEW a, NEW S, NEW k, NEW p, p \notin S, Countable(a, S \cup {p}, k)
    PROVE  Total(a, S \cup {p}, k) = Total(a, S, k) + a[p][k]
<1>1. (S \cup {p}) \ {p} = S
  OBVIOUS
<1> QED  BY <1>1, TotalOf

-----------------------------------------------------------------------------
(* safe_check: its inner loop. *)

(* Tables safe_check can be asked about. *)
Tables(alloc, need, work) ==
    /\ DOMAIN need \in SUBSET Int /\ IsFiniteSet(DOMAIN need)
    /\ \A p \in DOMAIN need, k \in Kinds : alloc[p][k] \in Nat /\ need[p][k] \in Nat
    /\ \A k \in Kinds : work[k] \in Nat

(* Process p can get all it needs once the processes of F have finished. *)
Fits(alloc, need, work, F, p) ==
    \A k \in Kinds : need[p][k] <= work[k] + Total(alloc, F, k)

(* In the set B of processes somebody can finish before the others of B do. *)
Moves(alloc, need, work, B) ==
    \E p \in B : Fits(alloc, need, work, DOMAIN need \ B, p)

(* No set of processes is stuck: in each somebody can finish first. *)
NoneStuck(alloc, need, work) ==
    \A B \in SUBSET DOMAIN need : B # {} => Moves(alloc, need, work, B)

(* Shares of subsets can be added up. *)
LEMMA TablesCount ==
    ASSUME NEW alloc, NEW need, NEW work, Tables(alloc, need, work),
           NEW F \in SUBSET DOMAIN need, NEW k \in Kinds
    PROVE  /\ Countable(alloc, F, k) /\ Total(alloc, F, k) \in Nat
           /\ work[k] \in Nat
           /\ \A p \in DOMAIN need : need[p][k] \in Nat /\ alloc[p][k] \in Nat
<1>1. Countable(alloc, F, k)
  BY FS_Subset DEF Tables, Countable
<1>2. Total(alloc, F, k) \in Nat
  BY <1>1, TotalOf
<1> QED  BY <1>1, <1>2 DEF Tables

(* Who can finish early can finish late. *)
LEMMA FitsLater ==
    ASSUME NEW alloc, NEW need, NEW work, Tables(alloc, need, work),
           NEW F \in SUBSET DOMAIN need, NEW E \in SUBSET F, NEW p \in DOMAIN need,
           Fits(alloc, need, work, E, p)
    PROVE  Fits(alloc, need, work, F, p)
<1> SUFFICES ASSUME NEW k \in Kinds
             PROVE  need[p][k] <= work[k] + Total(alloc, F, k)
  BY DEF Fits
<1>1. Countable(alloc, F, k) /\ Total(alloc, F, k) \in Nat
  BY TablesCount
<1>2. Total(alloc, E, k) \in Nat /\ work[k] \in Nat /\ need[p][k] \in Nat
  BY TablesCount
<1>3. Total(alloc, E, k) <= Total(alloc, F, k)
  BY <1>1, TotalGrows
<1>4. need[p][k] <= work[k] + Total(alloc, E, k)
  BY DEF Fits
<1> QED  BY <1>1, <1>2, <1>3, <1>4

(* The states of safe_check's loops. *)
States(need) == [work : [Kinds -> Nat], finish : SUBSET DOMAIN need]

(* In state s the finished processes have given back what they had, and no *)
(* set one of them is in is stuck.                                         *)
Sound(s, alloc, need, work) ==
    /\ s \in States(need)
    /\ \A k \in Kinds : s.work[k] = work[k] + Total(alloc, s.finish, k)
    /\ \A B \in SUBSET DOMAIN need : B \cap s.finish # {} => Moves(alloc, need, work, B)

(* A visit keeps the state in shape. *)
LEMMA VisitStates ==
    ASSUME NEW alloc, NEW need, NEW work, Tables(alloc, need, work),
           NEW s \in States(need), NEW p \in DOMAIN need
    PROVE  Visit(s, p, alloc, need) \in States(need)
<1>1. s.work \in [Kinds -> Nat] /\ s.finish \in SUBSET DOMAIN need
  BY DEF States
<1>2. s.work ++ alloc[p] \in [Kinds -> Nat]
  BY <1>1 DEF ++, Tables
<1>3. s.finish \cup {p} \in SUBSET DOMAIN need
  BY <1>1
<1> HIDE DEF ++
<1> QED  BY <1>2, <1>3 DEF Visit, States

(* A visit finishes p if p can finish, and keeps the state sound. *)
LEMMA VisitSound ==
    ASSUME NEW alloc, NEW need, NEW work, Tables(alloc, need, work),
           NEW s, Sound(s, alloc, need, work), NEW p \in DOMAIN need
    PROVE  /\ Sound(Visit(s, p, alloc, need), alloc, need, work)
           /\ s.finish \subseteq Visit(s, p, alloc, need).finish
           /\ Fits(alloc, need, work, s.finish, p) => p \in Visit(s, p, alloc, need).finish
<1>1. /\ s \in States(need) /\ s.finish \in SUBSET DOMAIN need
      /\ \A k \in Kinds : s.work[k] = work[k] + Total(alloc, s.finish, k)
      /\ \A B \in SUBSET DOMAIN need : B \cap s.finish # {} => Moves(alloc, need, work, B)
  BY DEF Sound, States
<1>2. Fits(alloc, need, work, s.finish, p) <=> need[p] \preceq s.work
  BY <1>1 DEF Fits, \preceq
<1>3. CASE p \notin s.finish /\ need[p] \preceq s.work
  <2> PICK t : t = Visit(s, p, alloc, need)
    OBVIOUS
  <2>1. t = [work |-> s.work ++ alloc[p], finish |-> s.finish \cup {p}]
    BY <1>3 DEF Visit
  <2>2. t.finish = s.finish \cup {p} /\ t.work = s.work ++ alloc[p]
    BY <2>1
  <2>3. t \in States(need)
    BY <1>1, VisitStates
  <2>4. ASSUME NEW k \in Kinds
        PROVE  t.work[k] = work[k] + Total(alloc, t.finish, k)
    <3>1. t.work[k] = s.work[k] + alloc[p][k]
      BY <2>2 DEF ++
    <3>2. s.finish \cup {p} \in SUBSET DOMAIN need
      BY <1>1
    <3>3. Countable(alloc, s.finish \cup {p}, k)
      BY <3>2, TablesCount
    <3>4. Total(alloc, s.finish \cup {p}, k) = Total(alloc, s.finish, k) + alloc[p][k]
      BY <1>3, <3>3, TotalAdded
    <3>5. Total(alloc, s.finish, k) \in Nat /\ work[k] \in Nat /\ alloc[p][k] \in Nat
      BY <1>1, TablesCount
    <3>6. s.work[k] = work[k] + Total(alloc, s.finish, k)
      BY <1>1
    <3> QED  BY <2>2, <3>1, <3>4, <3>5, <3>6
  <2>5. ASSUME NEW B \in SUBSET DOMAIN need, B \cap t.finish # {}
        PROVE  Moves(alloc, need, work, B)
    <3>1. CASE B \cap s.finish # {}
      BY <1>1, <3>1
    <3>2. CASE B \cap s.finish = {}
      <4>1. p \in B
        BY <2>2, <2>5, <3>2
      <4>2. s.finish \in SUBSET (DOMAIN need \ B) /\ DOMAIN need \ B \in SUBSET DOMAIN need
        BY <1>1, <3>2
      <4>3. Fits(alloc, need, work, DOMAIN need \ B, p)
        BY <1>2, <1>3, <4>2, FitsLater
      <4> QED  BY <4>1, <4>3 DEF Moves
    <3> QED  BY <3>1, <3>2
  <2>6. Sound(t, alloc, need, work)
    BY <2>3, <2>4, <2>5 DEF Sound
  <2> QED  BY <2>2, <2>6
<1>4. CASE ~(p \notin s.finish /\ need[p] \preceq s.work)
  <2>1. Visit(s, p, alloc, need) = s
    BY <1>4 DEF Visit
  <2> QED  BY <1>2, <1>4, <2>1
<1> QED  BY <1>3, <1>4

(* f holds the states of a pass that starts at s. *)
Visits(f, s, alloc, need) ==
    f = [T \in SUBSET DOMAIN need |->
           IF T = {} THEN s ELSE Visit(f[T \ {Max(T)}], Max(T), alloc, need)]

(* There are such states. *)
LEMMA PassRuns ==
    ASSUME NEW alloc, NEW need, NEW work, Tables(alloc, need, work), NEW s \in States(need)
    PROVE  \E f : Visits(f, s, alloc, need) /\ Pass(s, alloc, need) = f[DOMAIN need]
<1> DEFINE S == DOMAIN need
           step == [x \in States(need) \X S |-> Visit(x[1], x[2], alloc, need)]
<1>0. S \in SUBSET Int /\ IsFiniteSet(S)
  BY DEF Tables
<1>1. ASSUME NEW v \in States(need), NEW p \in S
      PROVE  step[<<v, p>>] = Visit(v, p, alloc, need) /\ step[<<v, p>>] \in States(need)
  <2>1. Visit(v, p, alloc, need) \in States(need)
    BY VisitStates
  <2>2. step[<<v, p>>] = Visit(v, p, alloc, need)
    OBVIOUS
  <2> QED  BY <2>1, <2>2
<1> HIDE DEF step
<1>2. PICK f \in [SUBSET S -> States(need)] : Loop(f, S, s, step)
  <2>1. \A v \in States(need), p \in S : step[<<v, p>>] \in States(need)
    BY <1>1
  <2> HIDE DEF S
  <2> QED  BY <1>0, <2>1, LoopRuns
<1>3. ASSUME NEW T \in SUBSET S
      PROVE  f[T] = IF T = {} THEN s ELSE Visit(f[T \ {Max(T)}], Max(T), alloc, need)
  <2>1. CASE T = {}
    BY <1>2, <2>1 DEF Loop
  <2>2. CASE T # {}
    <3>1. Max(T) \in T
      BY <1>0, <2>2, MaxIn
    <3>2. f[T \ {Max(T)}] \in States(need) /\ Max(T) \in S
      BY <3>1
    <3>3. f[T] = step[<<f[T \ {Max(T)}], Max(T)>>]
      BY <1>2, <2>2 DEF Loop
    <3> QED  BY <1>1, <2>2, <3>2, <3>3
  <2> QED  BY <2>1, <2>2
<1>4. Visits(f, s, alloc, need)
  <2>1. f = [T \in SUBSET S |-> f[T]]
    OBVIOUS
  <2> QED  BY <1>3, <2>1 DEF Visits
<1> DEFINE g == CHOOSE h : Visits(h, s, alloc, need)
<1>5. Visits(g, s, alloc, need)
  BY <1>4
<1>6. Pass(s, alloc, need) = g[DOMAIN need]
  BY DEF Pass, Visits
<1> QED  BY <1>5, <1>6

(* s and t are sound, t is later and everybody who could finish at s has. *)
Progress(s, t, alloc, need, work) ==
    /\ Sound(t, alloc, need, work)
    /\ s.finish \subseteq t.finish
    /\ \A p \in DOMAIN need : Fits(alloc, need, work, s.finish, p) => p \in t.finish

(* A pass finishes everybody who can finish at its start. *)
LEMMA PassProgress ==
    ASSUME NEW alloc, NEW need, NEW work, Tables(alloc, need, work),
           NEW s, Sound(s, alloc, need, work)
    PROVE  Progress(s, Pass(s, alloc, need), alloc, need, work)
<1> DEFINE S == DOMAIN need
<1>0. S \in SUBSET Int /\ IsFiniteSet(S) /\ s \in States(need)
  BY DEF Tables, Sound
<1>1. PICK f : Visits(f, s, alloc, need) /\ Pass(s, alloc, need) = f[S]
  BY <1>0, PassRuns
<1>2. \A T \in SUBSET S :
        f[T] = IF T = {} THEN s ELSE Visit(f[T \ {Max(T)}], Max(T), alloc, need)
  BY <1>1 DEF Visits
<1> DEFINE G == { T \in SUBSET S :
                    /\ Sound(f[T], alloc, need, work)
                    /\ s.finish \subseteq f[T].finish
                    /\ \A p \in T : Fits(alloc, need, work, s.finish, p) => p \in f[T].finish }
<1>3. ASSUME NEW T \in SUBSET S, \A p \in T : T \ {p} \in G PROVE T \in G
  <2>1. CASE T = {}
    <3>1. f[T] = s
      BY <1>2, <2>1
    <3> QED  BY <2>1, <3>1
  <2>2. CASE T # {}
    <3> PICK m : m = Max(T)
      OBVIOUS
    <3>1. m \in T /\ m \in S
      BY <1>0, <2>2, MaxIn
    <3> PICK u : u = f[T \ {m}]
      OBVIOUS
    <3>2. f[T] = Visit(u, m, alloc, need)
      BY <1>2, <2>2
    <3>3. /\ Sound(u, alloc, need, work)
          /\ s.finish \subseteq u.finish
          /\ \A p \in T \ {m} : Fits(alloc, need, work, s.finish, p) => p \in u.finish
      BY <1>3, <3>1
    <3>4. /\ Sound(f[T], alloc, need, work)
          /\ u.finish \subseteq f[T].finish
          /\ Fits(alloc, need, work, u.finish, m) => m \in f[T].finish
      <4>1. Sound(u, alloc, need, work) /\ m \in DOMAIN need
        BY <3>1, <3>3
      <4>2. /\ Sound(Visit(u, m, alloc, need), alloc, need, work)
            /\ u.finish \subseteq Visit(u, m, alloc, need).finish
            /\ Fits(alloc, need, work, u.finish, m) =>
                 m \in Visit(u, m, alloc, need).finish
        BY <4>1, VisitSound
      <4> QED  BY <3>2, <4>2
    <3>5. ASSUME NEW p \in T, Fits(alloc, need, work, s.finish, p) PROVE p \in f[T].finish
      <4>1. CASE p = m
        <5>1. u.finish \in SUBSET DOMAIN need
          BY <3>3 DEF Sound, States
        <5>2. s.finish \in SUBSET u.finish
          BY <3>3
        <5>3. Fits(alloc, need, work, u.finish, p)
          BY <3>5, <5>1, <5>2, FitsLater
        <5> QED  BY <3>4, <4>1, <5>3
      <4>2. CASE p # m
        BY <3>3, <3>4, <3>5, <4>2
      <4> QED  BY <4>1, <4>2
    <3> QED  BY <3>3, <3>4, <3>5
  <2> QED  BY <2>1, <2>2
<1>4. S \in G
  <2> HIDE DEF G
  <2>1. \A T \in SUBSET S : T \in G
    <3> HIDE DEF S
    <3> QED  BY <1>0, <1>3, SubsetInduction
  <2> QED  BY <2>1
<1> QED  BY <1>1, <1>4 DEF Progress

-----------------------------------------------------------------------------
(* safe_check: its outer loop. *)

(* f holds the states after the passes of safe_check's outer loop. *)
Passes(f, n, alloc, need, work) ==
    f = [i \in 0 .. n |-> IF i = 0 THEN [work |-> work, finish |-> {}]
                          ELSE Pass(f[i - 1], alloc, need)]

(* There are such states, for every number of passes. *)
LEMMA PassesRun ==
    ASSUME NEW alloc, NEW need, NEW work, NEW n \in Nat
    PROVE  \E f : Passes(f, n, alloc, need, work)
<1> DEFINE S == { m \in Nat : \E f : Passes(f, m, alloc, need, work) }
           start == [work |-> work, finish |-> {}]
<1>1. 0 \in S
  <2>1. Passes([i \in 0 .. 0 |-> start], 0, alloc, need, work)
    BY DEF Passes
  <2> QED  BY <2>1
<1>2. ASSUME NEW m \in Nat, m \in S PROVE m + 1 \in S
  <2>1. PICK f : Passes(f, m, alloc, need, work)
    BY <1>2
  <2> DEFINE g == [i \in 0 .. m + 1 |->
                     IF i <= m THEN f[i] ELSE Pass(f[m], alloc, need)]
  <2> HIDE DEF start
  <2>2. ASSUME NEW i \in 0 .. m + 1
        PROVE  g[i] = IF i = 0 THEN start ELSE Pass(g[i - 1], alloc, need)
    <3>1. CASE i = 0
      <4>1. f[0] = start
        BY <2>1 DEF Passes, start
      <4>2. g[i] = f[0]
        BY <3>1
      <4> HIDE DEF g
      <4> QED  BY <3>1, <4>1, <4>2
    <3>2. CASE i # 0 /\ i <= m
      <4>1. f[i] = Pass(f[i - 1], alloc, need)
        <5>1. i \in 0 .. m
          BY <3>2
        <5> HIDE DEF g
        <5> QED  BY <2>1, <3>2, <5>1 DEF Passes
      <4>2. g[i] = f[i] /\ g[i - 1] = f[i - 1]
        BY <3>2
      <4> QED  BY <3>2, <4>1, <4>2
    <3>3. CASE i = m + 1
      <4>1. g[i] = Pass(f[m], alloc, need) /\ g[m] = f[m] /\ i - 1 = m /\ i # 0
        BY <3>3
      <4> QED  BY <3>3, <4>1
    <3>4. i = 0 \/ (i # 0 /\ i <= m) \/ i = m + 1
      OBVIOUS
    <3> QED  BY <3>1, <3>2, <3>3, <3>4
  <2>3. Passes(g, m + 1, alloc, need, work)
    BY <2>2 DEF Passes, start
  <2> QED  BY <2>3
<1>3. Nat \subseteq S
  BY <1>1, <1>2, SetInduction
<1> QED  BY <1>3

(* safe_check answers by the state after its last pass. *)
LEMMA CheckRuns ==
    ASSUME NEW alloc, NEW need, NEW work, IsFiniteSet(DOMAIN need)
    PROVE  \E f : /\ Passes(f, Cardinality(DOMAIN need), alloc, need, work)
                  /\ SafeCheck(alloc, need, work) <=>
                       f[Cardinality(DOMAIN need)].finish = DOMAIN need
<1> DEFINE n == Cardinality(DOMAIN need)
           g == CHOOSE f : Passes(f, n, alloc, need, work)
<1>1. \E f : Passes(f, n, alloc, need, work)
  BY FS_CardinalityType, PassesRun
<1>2. Passes(g, n, alloc, need, work)
  BY <1>1
<1>3. SafeCheck(alloc, need, work) <=> g[n].finish = DOMAIN need
  BY DEF SafeCheck, Passes
<1> QED  BY <1>2, <1>3

(* safe_check says yes exactly if no set of processes is stuck. *)
LEMMA CheckIsUnstuck ==
    ASSUME NEW alloc, NEW need, NEW work, Tables(alloc, need, work),
           work \in [Kinds -> Nat]
    PROVE  SafeCheck(alloc, need, work) <=> NoneStuck(alloc, need, work)
<1> PICK D : D = DOMAIN need
  OBVIOUS
<1> PICK n : n = Cardinality(D)
  OBVIOUS
<1>0. IsFiniteSet(D) /\ n \in Nat
  BY FS_CardinalityType DEF Tables
<1>1. PICK f : /\ Passes(f, n, alloc, need, work)
               /\ SafeCheck(alloc, need, work) <=> f[n].finish = D
  BY <1>0, CheckRuns
<1>2. /\ f[0] = [work |-> work, finish |-> {}]
      /\ \A i \in Nat : i + 1 <= n => f[i + 1] = Pass(f[i], alloc, need)
  <2>1. f[0] = [work |-> work, finish |-> {}]
    BY <1>0, <1>1 DEF Passes
  <2>2. ASSUME NEW i \in Nat, i + 1 <= n PROVE f[i + 1] = Pass(f[i], alloc, need)
    <3>1. i + 1 \in 0 .. n /\ i + 1 # 0 /\ (i + 1) - 1 = i
      BY <1>0, <2>2
    <3> QED  BY <1>1, <3>1 DEF Passes
  <2> QED  BY <2>1, <2>2
<1> DEFINE S == { i \in Nat : i <= n =>
                    /\ Sound(f[i], alloc, need, work)
                    /\ NoneStuck(alloc, need, work) =>
                         f[i].finish = D \/ i <= Cardinality(f[i].finish) }
<1>3. 0 \in S
  <2>1. f[0].finish = {} /\ f[0].work = work /\ f[0] \in States(need)
    BY <1>2 DEF States
  <2>2. ASSUME NEW k \in Kinds PROVE work[k] = work[k] + Total(alloc, {}, k)
    <3>1. Countable(alloc, {}, k)
      BY FS_EmptySet DEF Countable
    <3>2. Total(alloc, {}, k) = 0
      BY <3>1, TotalOf
    <3>3. work[k] \in Nat
      OBVIOUS
    <3> QED  BY <3>2, <3>3
  <2>3. Sound(f[0], alloc, need, work)
    BY <2>1, <2>2 DEF Sound
  <2>4. 0 <= Cardinality(f[0].finish)
    BY <2>1, FS_EmptySet
  <2> QED  BY <2>3, <2>4
<1>4. ASSUME NEW i \in Nat, i \in S PROVE i + 1 \in S
  <2> SUFFICES ASSUME i + 1 <= n
               PROVE  /\ Sound(f[i + 1], alloc, need, work)
                      /\ NoneStuck(alloc, need, work) =>
                           f[i + 1].finish = D \/ i + 1 <= Cardinality(f[i + 1].finish)
    OBVIOUS
  <2>1. i <= n
    BY <1>0
  <2>2. /\ Sound(f[i], alloc, need, work)
        /\ NoneStuck(alloc, need, work) =>
             f[i].finish = D \/ i <= Cardinality(f[i].finish)
    BY <1>4, <2>1
  <2> HIDE DEF S
  <2>3. Progress(f[i], f[i + 1], alloc, need, work)
    BY <1>2, <2>2, PassProgress
  <2> PICK E, F : E = f[i].finish /\ F = f[i + 1].finish
    OBVIOUS
  <2>4. /\ Sound(f[i + 1], alloc, need, work) /\ E \in SUBSET F /\ F \in SUBSET D
        /\ \A p \in D : Fits(alloc, need, work, E, p) => p \in F
    BY <2>3 DEF Progress, Sound, States
  <2>5. ASSUME NoneStuck(alloc, need, work) PROVE F = D \/ i + 1 <= Cardinality(F)
    <3>1. CASE E = D
      BY <2>4, <3>1
    <3>2. CASE E # D
      <4>1. D \ E # {} /\ D \ E \in SUBSET DOMAIN need /\ D \ (D \ E) = E
        BY <2>4, <3>2
      <4>2. Moves(alloc, need, work, D \ E)
        BY <2>5, <4>1 DEF NoneStuck
      <4>3. PICK p \in D \ E : Fits(alloc, need, work, E, p)
        BY <4>1, <4>2 DEF Moves
      <4>4. p \in F /\ p \notin E
        BY <2>4, <4>3
      <4>5. IsFiniteSet(F) /\ Cardinality(F) \in Nat
        BY <1>0, <2>4, FS_Subset, FS_CardinalityType
      <4>6. IsFiniteSet(E) /\ Cardinality(E) \in Nat
        BY <2>4, <4>5, FS_Subset, FS_CardinalityType
      <4>7. Cardinality(E) <= Cardinality(F) /\ Cardinality(E) # Cardinality(F)
        BY <2>4, <4>4, <4>5, FS_Subset
      <4>8. i <= Cardinality(E)
        BY <2>2, <2>5, <3>2
      <4> QED  BY <4>5, <4>6, <4>7, <4>8
    <3> QED  BY <3>1, <3>2
  <2> QED  BY <2>4, <2>5
<1>5. n \in S
  <2> HIDE DEF S
  <2>1. Nat \subseteq S
    BY <1>3, <1>4, SetInduction
  <2> QED  BY <1>0, <2>1
<1>6. /\ Sound(f[n], alloc, need, work)
      /\ NoneStuck(alloc, need, work) => f[n].finish = D \/ n <= Cardinality(f[n].finish)
  BY <1>0, <1>5
<1> HIDE DEF S
<1>7. ASSUME f[n].finish = D PROVE NoneStuck(alloc, need, work)
  <2>1. \A B \in SUBSET DOMAIN need : B \cap D # {} => Moves(alloc, need, work, B)
    BY <1>6, <1>7 DEF Sound
  <2>2. \A B \in SUBSET DOMAIN need : B # {} => B \cap D # {}
    OBVIOUS
  <2> QED  BY <2>1, <2>2 DEF NoneStuck
<1>8. ASSUME NoneStuck(alloc, need, work) PROVE f[n].finish = D
  <2> PICK F : F = f[n].finish
    OBVIOUS
  <2>1. F \in SUBSET D
    BY <1>6 DEF Sound, States
  <2>2. CASE n <= Cardinality(F)
    <3>1. Cardinality(F) <= n /\ Cardinality(F) \in Nat /\ (n = Cardinality(F) => D = F)
      BY <1>0, <2>1, FS_Subset, FS_CardinalityType
    <3> QED  BY <1>0, <2>2, <3>1
  <2> QED  BY <1>6, <1>8, <2>2
<1> QED  BY <1>1, <1>7, <1>8

-----------------------------------------------------------------------------
(* Safe states. *)

(* A set of numbers has a least one. *)
LEMMA HasLeast ==
    ASSUME NEW T \in SUBSET Nat, T # {}
    PROVE  \E x \in T : \A y \in T : x <= y
<1> DEFINE S == { n \in Nat : \A y \in T : n < y }
<1> SUFFICES ASSUME \A x \in T : \E y \in T : ~(x <= y) PROVE FALSE
  OBVIOUS
<1>1. 0 \in S
  <2>1. 0 \notin T
    OBVIOUS
  <2> QED  BY <2>1
<1>2. ASSUME NEW n \in Nat, n \in S PROVE n + 1 \in S
  <2>1. \A y \in T : n + 1 <= y
    BY <1>2
  <2>2. n + 1 \notin T
    BY <2>1
  <2> QED  BY <2>1, <2>2
<1>3. Nat \subseteq S
  <2> HIDE DEF S
  <2> QED  BY <1>1, <1>2, SetInduction
<1>4. PICK m \in T : TRUE
  OBVIOUS
<1>5. m \in Nat /\ m < m
  BY <1>3
<1> QED  BY <1>5

(* An order names everybody. *)
LEMMA OrderNamesAll ==
    ASSUME NEW S, IsFiniteSet(S), NEW order \in SetToSeqs(S)
    PROVE  /\ Cardinality(S) \in Nat
           /\ order \in [1 .. Cardinality(S) -> S]
           /\ \A p \in S : \E i \in 1 .. Cardinality(S) : order[i] = p
<1> PICK n : n = Cardinality(S)
  OBVIOUS
<1>1. n \in Nat
  BY FS_CardinalityType
<1>2. order \in [1 .. n -> S] /\ \A i, j \in 1 .. n : i # j => order[i] # order[j]
  BY DEF SetToSeqs
<1>3. order \in Injection(1 .. n, S)
  <2>1. order \in [1 .. n -> S] /\ \A i, j \in 1 .. n : order[i] = order[j] => i = j
    BY <1>2
  <2> QED  BY <2>1, Fun_IsInj
<1>4. IsFiniteSet(1 .. n) /\ Cardinality(1 .. n) = n
  <2>1. IsFiniteSet(1 .. n) /\ Cardinality(1 .. n) = IF 1 > n THEN 0 ELSE n - 1 + 1
    <3>1. 1 \in Int /\ n \in Int
      BY <1>1
    <3> QED  BY <3>1, FS_Interval
  <2> QED  BY <1>1, <2>1
<1>5. order \in Surjection(1 .. n, S)
  BY <1>3, <1>4, FS_Injection
<1> QED  BY <1>1, <1>2, <1>5 DEF Surjection

(* In a safe state no set of processes is stuck: its first one in the order *)
(* can finish before the others.                                            *)
LEMMA SafeUnstuck ==
    ASSUME NEW alloc, NEW need, NEW work, Tables(alloc, need, work),
           SafeState(alloc, need, work)
    PROVE  NoneStuck(alloc, need, work)
<1> PICK D : D = DOMAIN need
  OBVIOUS
<1> PICK n : n = Cardinality(D)
  OBVIOUS
<1>1. IsFiniteSet(D)
  BY DEF Tables
<1>2. PICK order \in SetToSeqs(D) :
        \A i \in DOMAIN order : \A k \in Kinds :
            need[order[i]][k] <= work[k] + Total(alloc, { order[j] : j \in 1 .. i - 1 }, k)
  BY DEF SafeState
<1>3. /\ n \in Nat /\ order \in [1 .. n -> D]
      /\ \A p \in D : \E i \in 1 .. n : order[i] = p
  BY <1>1, OrderNamesAll
<1> SUFFICES ASSUME NEW B \in SUBSET D, B # {} PROVE Moves(alloc, need, work, B)
  BY DEF NoneStuck
<1> DEFINE I == { i \in 1 .. n : order[i] \in B }
<1>4. I # {}
  BY <1>3
<1>5. I \in SUBSET Nat
  BY <1>3
<1>6. PICK i \in I : \A j \in I : i <= j
  BY <1>4, <1>5, HasLeast
<1> DEFINE E == { order[j] : j \in 1 .. i - 1 }
<1>7. i \in 1 .. n /\ order[i] \in B /\ order[i] \in D
  BY <1>3
<1>8. E \in SUBSET (D \ B)
  <2> SUFFICES ASSUME NEW j \in 1 .. i - 1 PROVE order[j] \in D \ B
    OBVIOUS
  <2>1. j \in 1 .. n /\ ~(i <= j)
    BY <1>3, <1>7
  <2> QED  BY <1>3, <1>6, <2>1
<1>9. Fits(alloc, need, work, E, order[i])
  BY <1>2, <1>3, <1>7 DEF Fits
<1> HIDE DEF I, E
<1>10. Fits(alloc, need, work, D \ B, order[i])
  <2>1. D \ B \in SUBSET DOMAIN need /\ order[i] \in DOMAIN need
    BY <1>7
  <2> QED  BY <1>8, <1>9, <2>1, FitsLater
<1> QED  BY <1>7, <1>10 DEF Moves

(* f is an order of n processes in which each can finish in its turn. *)
Orders(f, n, alloc, need, work) ==
    /\ f \in [1 .. n -> DOMAIN need]
    /\ \A i, j \in 1 .. n : i # j => f[i] # f[j]
    /\ \A i \in 1 .. n : Fits(alloc, need, work, { f[j] : j \in 1 .. i - 1 }, f[i])

(* If no set is stuck, an order that does not name everybody can be extended. *)
LEMMA OrderGrows ==
    ASSUME NEW alloc, NEW need, NEW work, Tables(alloc, need, work),
           NoneStuck(alloc, need, work), NEW n \in Nat, n + 1 <= Cardinality(DOMAIN need),
           NEW f, Orders(f, n, alloc, need, work)
    PROVE  \E g : Orders(g, n + 1, alloc, need, work)
<1> PICK D : D = DOMAIN need
  OBVIOUS
<1>0. IsFiniteSet(D) /\ Cardinality(D) \in Nat
  BY FS_CardinalityType DEF Tables
<1>1. /\ f \in [1 .. n -> D]
      /\ \A i, j \in 1 .. n : i # j => f[i] # f[j]
      /\ \A i \in 1 .. n : Fits(alloc, need, work, { f[j] : j \in 1 .. i - 1 }, f[i])
  BY DEF Orders
<1> DEFINE E == { f[j] : j \in 1 .. n }
<1>2. E \in SUBSET D
  BY <1>1
<1>3. E # D
  <2>1. f \in Surjection(1 .. n, E)
    BY <1>1 DEF Surjection
  <2>2. IsFiniteSet(1 .. n) /\ Cardinality(1 .. n) = IF 1 > n THEN 0 ELSE n - 1 + 1
    <3>1. 1 \in Int /\ n \in Int
      OBVIOUS
    <3> QED  BY <3>1, FS_Interval
  <2>3. Cardinality(1 .. n) = n
    BY <2>2
  <2> HIDE DEF E
  <2>4. Cardinality(E) <= n
    BY <2>1, <2>2, <2>3, FS_Surjection
  <2>5. Cardinality(D) >= n + 1
    BY <1>0
  <2> QED  BY <1>0, <2>4, <2>5
<1>4. D \ E # {} /\ D \ E \in SUBSET DOMAIN need /\ D \ (D \ E) = E
  BY <1>2, <1>3
<1>5. PICK p \in D \ E : Fits(alloc, need, work, E, p)
  <2> HIDE DEF E
  <2>1. Moves(alloc, need, work, D \ E)
    BY <1>4 DEF NoneStuck
  <2> QED  BY <1>4, <2>1 DEF Moves
<1> DEFINE g == [i \in 1 .. n + 1 |-> IF i <= n THEN f[i] ELSE p]
<1>6. g \in [1 .. n + 1 -> D] /\ g[n + 1] = p /\ \A i \in 1 .. n : g[i] = f[i]
  BY <1>1
<1> HIDE DEF g
<1>7. \A i \in 1 .. n : f[i] # p
  BY <1>5
<1>8. ASSUME NEW i \in 1 .. n + 1, NEW j \in 1 .. n + 1, i # j PROVE g[i] # g[j]
  <2>1. CASE i = n + 1
    <3>1. j \in 1 .. n
      BY <1>8, <2>1
    <3> QED  BY <1>6, <1>7, <2>1, <3>1
  <2>2. CASE j = n + 1
    <3>1. i \in 1 .. n
      BY <1>8, <2>2
    <3> QED  BY <1>6, <1>7, <2>2, <3>1
  <2>3. CASE i \in 1 .. n /\ j \in 1 .. n
    BY <1>1, <1>6, <1>8, <2>3
  <2>4. i = n + 1 \/ j = n + 1 \/ (i \in 1 .. n /\ j \in 1 .. n)
    OBVIOUS
  <2> QED  BY <2>1, <2>2, <2>3, <2>4
<1>9. ASSUME NEW i \in 1 .. n + 1
      PROVE  Fits(alloc, need, work, { g[j] : j \in 1 .. i - 1 }, g[i])
  <2>1. { g[j] : j \in 1 .. i - 1 } = { f[j] : j \in 1 .. i - 1 }
    <3>1. \A j \in 1 .. i - 1 : j \in 1 .. n
      OBVIOUS
    <3> QED  BY <1>6, <3>1
  <2>2. CASE i = n + 1
    <3>1. i - 1 = n
      BY <2>2
    <3>2. { f[j] : j \in 1 .. i - 1 } = E
      BY <3>1
    <3> QED  BY <1>5, <1>6, <2>1, <2>2, <3>2
  <2>3. CASE i \in 1 .. n
    BY <1>1, <1>6, <2>1, <2>3
  <2>4. i = n + 1 \/ i \in 1 .. n
    OBVIOUS
  <2> QED  BY <2>2, <2>3, <2>4
<1>10. Orders(g, n + 1, alloc, need, work)
  BY <1>6, <1>8, <1>9 DEF Orders
<1> QED  BY <1>10

(* If no set of processes is stuck, the state is safe. *)
LEMMA UnstuckSafe ==
    ASSUME NEW alloc, NEW need, NEW work, Tables(alloc, need, work),
           NoneStuck(alloc, need, work)
    PROVE  SafeState(alloc, need, work)
<1> PICK D : D = DOMAIN need
  OBVIOUS
<1> PICK n : n = Cardinality(D)
  OBVIOUS
<1>0. IsFiniteSet(D) /\ n \in Nat
  BY FS_CardinalityType DEF Tables
<1> DEFINE S == { m \in Nat : m <= n => \E f : Orders(f, m, alloc, need, work) }
<1>1. 0 \in S
  <2>1. Orders([i \in 1 .. 0 |-> 0], 0, alloc, need, work)
    BY DEF Orders
  <2> QED  BY <2>1
<1>2. ASSUME NEW m \in Nat, m \in S PROVE m + 1 \in S
  <2> SUFFICES ASSUME m + 1 <= n PROVE \E f : Orders(f, m + 1, alloc, need, work)
    OBVIOUS
  <2>1. m <= n
    BY <1>0
  <2>2. PICK f : Orders(f, m, alloc, need, work)
    BY <1>2, <2>1
  <2> HIDE DEF S
  <2> QED  BY <2>2, OrderGrows
<1>3. Nat \subseteq S
  <2> HIDE DEF S
  <2> QED  BY <1>1, <1>2, SetInduction
<1>4. PICK order : Orders(order, n, alloc, need, work)
  BY <1>0, <1>3
<1> HIDE DEF S
<1>5. order \in SetToSeqs(D) /\ DOMAIN order = 1 .. n
  BY <1>4 DEF Orders, SetToSeqs
<1>6. \A i \in DOMAIN order : \A k \in Kinds :
        need[order[i]][k] <= work[k] + Total(alloc, { order[j] : j \in 1 .. i - 1 }, k)
  BY <1>4, <1>5 DEF Orders, Fits
<1> QED  BY <1>5, <1>6 DEF SafeState

-----------------------------------------------------------------------------
(* The commands and the processes that get stuck. *)

(* A new process has nothing, so that the others are not worse off, and once *)
(* they have finished all there is is free.                                  *)
LEMMA NewUnstuck ==
    ASSUME NEW alloc, NEW need, NEW work, NEW pid \in Int, NEW req, NEW alloc2, NEW need2,
           Tables(alloc, need, work), NoneStuck(alloc, need, work),
           DOMAIN alloc = DOMAIN need, pid \notin DOMAIN need,
           alloc2 = Assign(alloc, pid, Zero), need2 = Assign(need, pid, req),
           \A k \in Kinds : req[k] \in Nat /\ req[k] <= work[k] + Total(alloc, DOMAIN need, k)
    PROVE  /\ NoneStuck(alloc2, need2, work)
           /\ \A k \in Kinds : Total(alloc2, DOMAIN need2, k) = Total(alloc, DOMAIN need, k)
<1> PICK D, E : D = DOMAIN need /\ E = DOMAIN need2
  OBVIOUS
<1>1. /\ E = D \cup {pid} /\ pid \notin D
      /\ alloc2[pid] = Zero /\ need2[pid] = req
      /\ \A p \in D : alloc2[p] = alloc[p] /\ need2[p] = need[p]
  BY DEF Assign
<1>2. Tables(alloc2, need2, work)
  <2>1. E \in SUBSET Int /\ IsFiniteSet(E)
    BY <1>1, FS_AddElement DEF Tables
  <2>2. \A p \in D, k \in Kinds : alloc2[p][k] \in Nat /\ need2[p][k] \in Nat
    BY <1>1 DEF Tables
  <2>3. \A k \in Kinds : alloc2[pid][k] \in Nat /\ need2[pid][k] \in Nat
    BY <1>1 DEF Zero
  <2>4. \A k \in Kinds : work[k] \in Nat
    BY DEF Tables
  <2> QED  BY <1>1, <2>1, <2>2, <2>3, <2>4 DEF Tables
<1>3. ASSUME NEW F \in SUBSET D, NEW k \in Kinds PROVE Total(alloc2, F, k) = Total(alloc, F, k)
  <2>1. Countable(alloc, F, k)
    BY TablesCount
  <2>2. SameShares(alloc, alloc2, F, k)
    BY <1>1 DEF SameShares
  <2> QED  BY <2>1, <2>2, TotalSame
<1>4. ASSUME NEW k \in Kinds PROVE Total(alloc2, E, k) = Total(alloc, D, k)
  <2>1. Countable(alloc2, E, k)
    <3>1. E \in SUBSET Int /\ IsFiniteSet(E) /\ \A p \in E : alloc2[p][k] \in Nat
      BY <1>2 DEF Tables
    <3> QED  BY <1>1, <3>1 DEF Countable
  <2>2. Total(alloc2, E, k) = Total(alloc2, D, k) + alloc2[pid][k]
    <3>1. E \ {pid} = D /\ pid \in E
      BY <1>1
    <3>2. Total(alloc2, E, k) = Total(alloc2, E \ {pid}, k) + alloc2[pid][k]
      BY <2>1, <3>1, TotalOf
    <3> QED  BY <3>1, <3>2
  <2>3. alloc2[pid][k] = 0
    BY <1>1 DEF Zero
  <2>4. Total(alloc2, D, k) = Total(alloc, D, k) /\ Total(alloc, D, k) \in Nat
    <3>1. D \in SUBSET DOMAIN need /\ D \in SUBSET D
      OBVIOUS
    <3> QED  BY <1>3, <3>1, TablesCount
  <2> QED  BY <1>1, <2>2, <2>3, <2>4
<1>5. ASSUME NEW B \in SUBSET E, B # {} PROVE Moves(alloc2, need2, work, B)
  <2> DEFINE C == B \ {pid}
  <2>1. CASE C # {}
    <3>1. C \in SUBSET D
      BY <1>1
    <3>2. Moves(alloc, need, work, C)
      <4> HIDE DEF C
      <4> QED  BY <2>1, <3>1 DEF NoneStuck
    <3>3. PICK p \in C : Fits(alloc, need, work, D \ C, p)
      BY <3>2 DEF Moves
    <3>4. p \in D /\ p \in B /\ p \in DOMAIN need2
      BY <1>1, <3>1
    <3>5. Fits(alloc2, need2, work, D \ C, p)
      <4>1. \A k \in Kinds : Total(alloc2, D \ C, k) = Total(alloc, D \ C, k)
        BY <1>3
      <4> HIDE DEF C
      <4> QED  BY <1>1, <3>3, <3>4, <4>1 DEF Fits
    <3>6. D \ C \in SUBSET (E \ B) /\ E \ B \in SUBSET DOMAIN need2
      BY <1>1
    <3> HIDE DEF C
    <3>7. Fits(alloc2, need2, work, E \ B, p)
      BY <1>2, <3>4, <3>5, <3>6, FitsLater
    <3> QED  BY <3>4, <3>7 DEF Moves
  <2>2. CASE C = {}
    <3>1. B = {pid} /\ E \ B = D
      BY <1>1, <1>5, <2>2
    <3>2. \A k \in Kinds : Total(alloc2, D, k) = Total(alloc, D, k)
      BY <1>3
    <3>3. Fits(alloc2, need2, work, E \ B, pid)
      BY <1>1, <3>1, <3>2 DEF Fits
    <3> QED  BY <3>1, <3>3 DEF Moves
  <2> QED  BY <2>1, <2>2
<1> QED  BY <1>4, <1>5 DEF NoneStuck

(* The tables once a process has ended. *)
Ended(alloc, need, work, pid, alloc2, need2, work2) ==
    alloc2 = Erase(alloc, pid) /\ need2 = Erase(need, pid) /\ work2 = work ++ alloc[pid]

(* A process that ends gives back what it has, so that the others are not *)
(* worse off.                                                             *)
LEMMA EndUnstuck ==
    ASSUME NEW alloc, NEW need, NEW work, NEW alloc2, NEW need2, NEW work2,
           Tables(alloc, need, work), NoneStuck(alloc, need, work),
           DOMAIN alloc = DOMAIN need, NEW pid \in DOMAIN need,
           Ended(alloc, need, work, pid, alloc2, need2, work2)
    PROVE  /\ NoneStuck(alloc2, need2, work2)
           /\ \A k \in Kinds : Total(alloc, DOMAIN need, k) =
                                  Total(alloc2, DOMAIN need2, k) + alloc[pid][k]
<1> PICK D, E : D = DOMAIN need /\ E = DOMAIN need2
  OBVIOUS
<1>1. /\ E = D \ {pid}
      /\ \A p \in E : alloc2[p] = alloc[p] /\ need2[p] = need[p]
  BY DEF Ended, Erase
<1>w. \A k \in Kinds : work2[k] = work[k] + alloc[pid][k]
  BY DEF Ended, ++
<1>2. ASSUME NEW F \in SUBSET D, pid \in F, NEW k \in Kinds
      PROVE  Total(alloc, F, k) = Total(alloc2, F \ {pid}, k) + alloc[pid][k]
  <2>1. Countable(alloc, F, k)
    BY TablesCount
  <2>2. Total(alloc, F, k) = Total(alloc, F \ {pid}, k) + alloc[pid][k]
    BY <1>2, <2>1, TotalOf
  <2>3. Countable(alloc, F \ {pid}, k)
    <3>1. F \ {pid} \in SUBSET DOMAIN need
      OBVIOUS
    <3> QED  BY <3>1, TablesCount
  <2>4. SameShares(alloc, alloc2, F \ {pid}, k)
    BY <1>1 DEF SameShares
  <2>5. Total(alloc2, F \ {pid}, k) = Total(alloc, F \ {pid}, k)
    BY <2>3, <2>4, TotalSame
  <2> QED  BY <2>2, <2>5
<1>3. ASSUME NEW B \in SUBSET E, B # {} PROVE Moves(alloc2, need2, work2, B)
  <2>1. B \in SUBSET DOMAIN need /\ pid \notin B
    BY <1>1
  <2>2. PICK p \in B : Fits(alloc, need, work, D \ B, p)
    BY <1>3, <2>1 DEF NoneStuck, Moves
  <2>3. ASSUME NEW k \in Kinds PROVE need2[p][k] <= work2[k] + Total(alloc2, E \ B, k)
    <3>1. D \ B \in SUBSET D /\ pid \in D \ B /\ (D \ B) \ {pid} = E \ B
      BY <1>1, <2>1
    <3>2. Total(alloc, D \ B, k) = Total(alloc2, E \ B, k) + alloc[pid][k]
      <4>1. Total(alloc, D \ B, k) = Total(alloc2, (D \ B) \ {pid}, k) + alloc[pid][k]
        BY <1>2, <3>1
      <4> QED  BY <3>1, <4>1
    <3>3. need[p][k] <= work[k] + Total(alloc, D \ B, k)
      BY <2>2 DEF Fits
    <3>4. work[k] \in Nat /\ alloc[pid][k] \in Nat /\ need[p][k] \in Nat
      BY <2>1 DEF Tables
    <3>5. Total(alloc2, E \ B, k) \in Nat
      <4>1. Countable(alloc, E \ B, k)
        <5>1. E \ B \in SUBSET DOMAIN need
          BY <1>1
        <5> QED  BY <5>1, TablesCount
      <4>2. Countable(alloc2, E \ B, k)
        BY <1>1, <4>1 DEF Countable
      <4> QED  BY <4>2, TotalOf
    <3>6. need2[p][k] = need[p][k] /\ work2[k] = work[k] + alloc[pid][k]
      BY <1>1, <1>w
    <3> QED  BY <3>2, <3>3, <3>4, <3>5, <3>6
  <2> QED  BY <2>3 DEF Moves, Fits
<1>4. \A k \in Kinds : Total(alloc, D, k) = Total(alloc2, E, k) + alloc[pid][k]
  BY <1>1, <1>2
<1> QED  BY <1>3, <1>4 DEF NoneStuck

(* What is allocated once a process has been given req. *)
Granted(alloc, pid, req, alloc2) == alloc2 = [alloc EXCEPT ![pid] = @ ++ req]

(* What a process is given is added to what is allocated. *)
LEMMA GrantTotal ==
    ASSUME NEW alloc, NEW need, NEW work, NEW alloc2, NEW req, NEW pid \in DOMAIN need,
           Tables(alloc, need, work), DOMAIN alloc = DOMAIN need,
           Granted(alloc, pid, req, alloc2),
           NEW k \in Kinds, req[k] \in Nat
    PROVE  Total(alloc2, DOMAIN need, k) = Total(alloc, DOMAIN need, k) + req[k]
<1> PICK D : D = DOMAIN need
  OBVIOUS
<1>1. /\ alloc2[pid] = alloc[pid] ++ req
      /\ \A p \in D \ {pid} : alloc2[p] = alloc[p]
  BY DEF Granted
<1>2. alloc2[pid][k] = alloc[pid][k] + req[k]
  BY <1>1 DEF ++
<1>3. Countable(alloc, D, k) /\ \A p \in D : alloc[p][k] \in Nat
  <2>1. D \in SUBSET DOMAIN need
    OBVIOUS
  <2> QED  BY <2>1, TablesCount
<1>4. Countable(alloc2, D, k)
  <2>1. alloc2[pid][k] \in Nat
    BY <1>2, <1>3
  <2>2. \A p \in D : alloc2[p][k] \in Nat
    BY <1>1, <1>3, <2>1
  <2> QED  BY <1>3, <2>2 DEF Countable
<1>5. Total(alloc, D, k) = Total(alloc, D \ {pid}, k) + alloc[pid][k]
  BY <1>3, TotalOf
<1>6. Total(alloc2, D, k) = Total(alloc2, D \ {pid}, k) + alloc2[pid][k]
  BY <1>4, TotalOf
<1>7. Countable(alloc, D \ {pid}, k)
  BY <1>3, TotalGrows
<1>8. Total(alloc2, D \ {pid}, k) = Total(alloc, D \ {pid}, k)
  <2>1. SameShares(alloc, alloc2, D \ {pid}, k)
    BY <1>1 DEF SameShares
  <2> QED  BY <1>7, <2>1, TotalSame
<1>9. Total(alloc, D \ {pid}, k) \in Nat
  BY <1>7, TotalOf
<1> QED  BY <1>2, <1>3, <1>5, <1>6, <1>8, <1>9

-----------------------------------------------------------------------------
(* The invariant. *)

(* The inductive invariant. *)
Inv ==
    /\ TypeOK
    /\ BooksBalance
    /\ NoneStuck(allocated, needed, remain)

(* A vector is a number of each kind, up to what there is. *)
LEMMA InVectors ==
    \A v : v \in Vectors <=> /\ v \in [Kinds -> Nat]
                             /\ \A k \in Kinds : v[k] <= resource[k]
<1> SUFFICES ASSUME NEW v
             PROVE  v \in Vectors <=> /\ v \in [Kinds -> Nat]
                                      /\ \A k \in Kinds : v[k] <= resource[k]
  OBVIOUS
<1>1. \A k \in Kinds : resource[k] \in Nat
  BY ResourceAssumption
<1>2. UNION { 0 .. resource[k] : k \in Kinds } \subseteq Nat
  BY <1>1
<1>3. ASSUME v \in [Kinds -> Nat], \A k \in Kinds : v[k] <= resource[k]
      PROVE  v \in [Kinds -> UNION { 0 .. resource[k] : k \in Kinds }]
  <2>1. ASSUME NEW k \in Kinds PROVE v[k] \in UNION { 0 .. resource[j] : j \in Kinds }
    <3>1. v[k] \in 0 .. resource[k]
      BY <1>1, <1>3
    <3> QED  BY <3>1
  <2> QED  BY <1>3, <2>1
<1> DEFINE U == UNION { 0 .. resource[k] : k \in Kinds }
<1>4. v \in Vectors <=> v \in [Kinds -> U] /\ \A k \in Kinds : v[k] <= resource[k]
  BY DEF Vectors
<1>5. v \in [Kinds -> U] => v \in [Kinds -> Nat]
  <2>1. U \subseteq Nat
    BY <1>2
  <2> HIDE DEF U
  <2> QED  BY <2>1
<1> QED  BY <1>3, <1>4, <1>5

(* What the invariant says of the tables. *)
LEMMA Facts ==
    ASSUME Inv
    PROVE  /\ Tables(allocated, needed, remain)
           /\ DOMAIN needed = Known /\ DOMAIN allocated = Known
           /\ Known \subseteq Pids /\ Known \subseteq Int
           /\ \A k \in Kinds :
                /\ remain[k] \in Nat /\ resource[k] \in Nat
                /\ remain[k] + Total(allocated, Known, k) = resource[k]
           /\ \A p \in Known :
                /\ max[p] \in [Kinds -> Nat] /\ needed[p] \in [Kinds -> Nat]
                /\ allocated[p] \in [Kinds -> Nat]
                /\ \A k \in Kinds : /\ needed[p][k] + allocated[p][k] = max[p][k]
                                    /\ max[p][k] <= resource[k]
           /\ remain \in [Kinds -> Nat]
<1>1. /\ DOMAIN needed = Known /\ DOMAIN allocated = Known
      /\ Known \subseteq Pids /\ Known \subseteq Int /\ IsFiniteSet(Known)
  <2>1. DOMAIN needed = Known /\ DOMAIN allocated = Known /\ Known \subseteq Pids
    BY DEF Inv, TypeOK
  <2> QED  BY <2>1, PidsAssumption, FS_Subset
<1>2. /\ remain \in [Kinds -> Nat]
      /\ \A p \in Known : /\ max[p] \in [Kinds -> Nat] /\ needed[p] \in [Kinds -> Nat]
                          /\ allocated[p] \in [Kinds -> Nat]
                          /\ \A k \in Kinds : max[p][k] <= resource[k]
  <2>1. remain \in Vectors
    BY DEF Inv, TypeOK
  <2>2. \A p \in Known : max[p] \in Vectors /\ needed[p] \in Vectors /\ allocated[p] \in Vectors
    BY DEF Inv, TypeOK
  <2> QED  BY <2>1, <2>2, InVectors
<1>3. \A p \in Known, k \in Kinds : needed[p][k] + allocated[p][k] = max[p][k]
  <2>1. \A p \in Known : needed[p] ++ allocated[p] = max[p]
    BY DEF Inv, BooksBalance
  <2> QED  BY <2>1 DEF ++
<1>4. Tables(allocated, needed, remain)
  BY <1>1, <1>2 DEF Tables
<1>5. \A k \in Kinds : remain[k] + Total(allocated, Known, k) = resource[k]
  BY DEF Inv, BooksBalance
<1>6. \A k \in Kinds : resource[k] \in Nat
  BY ResourceAssumption
<1> QED  BY <1>1, <1>2, <1>3, <1>4, <1>5, <1>6

(* It holds at the start, when nobody is known. *)
LEMMA InvInit == BankInit => Inv
<1> SUFFICES ASSUME BankInit PROVE Inv
  OBVIOUS
<1>1. /\ remain = resource /\ max = <<>> /\ needed = <<>> /\ allocated = <<>> /\ alive = TRUE
  BY DEF BankInit
<1>2. Known = {} /\ DOMAIN needed = {}
  BY <1>1 DEF Known
<1>3. resource \in Vectors
  <2>1. \A k \in Kinds : resource[k] <= resource[k]
    BY ResourceAssumption
  <2> QED  BY <2>1, ResourceAssumption, InVectors
<1>4. TypeOK
  <2>1. <<>> \in [{} -> Vectors]
    OBVIOUS
  <2> QED  BY <1>1, <1>2, <1>3, <2>1 DEF TypeOK
<1>5. BooksBalance
  <2>1. ASSUME NEW k \in Kinds PROVE remain[k] + Total(allocated, Known, k) = resource[k]
    <3>1. Countable(allocated, {}, k)
      BY FS_EmptySet DEF Countable
    <3>2. Total(allocated, {}, k) = 0
      BY <3>1, TotalOf
    <3>3. resource[k] \in Nat
      BY ResourceAssumption
    <3> QED  BY <1>1, <1>2, <3>2, <3>3
  <2> QED  BY <1>2, <2>1 DEF BooksBalance
<1>6. NoneStuck(allocated, needed, remain)
  BY <1>2 DEF NoneStuck
<1> QED  BY <1>4, <1>5, <1>6 DEF Inv

(* new *)
LEMMA InvNew ==
    ASSUME Inv, NEW pid \in Pids, New(pid)
    PROVE  Inv'
<1>0. /\ Tables(allocated, needed, remain)
      /\ DOMAIN needed = Known /\ DOMAIN allocated = Known /\ DOMAIN max = Known
      /\ Known \subseteq Pids
      /\ \A k \in Kinds : remain[k] + Total(allocated, Known, k) = resource[k]
  BY Facts DEF Known
<1>1. PICK req \in Vectors :
        /\ pid \notin Known
        /\ max' = Assign(max, pid, req) /\ needed' = Assign(needed, pid, req)
        /\ allocated' = Assign(allocated, pid, Zero)
        /\ remain' = remain /\ alive' = alive
  BY DEF New
<1>2. req \in [Kinds -> Nat] /\ \A k \in Kinds : req[k] <= resource[k]
  BY InVectors
<1>3. Zero \in Vectors
  <2>1. Zero \in [Kinds -> Nat] /\ \A k \in Kinds : Zero[k] <= resource[k]
    BY ResourceAssumption DEF Zero
  <2> QED  BY <2>1, InVectors
<1>4. Known' = Known \cup {pid}
  BY <1>1 DEF Assign, Known
<1>5. TypeOK'
  <2>1. max \in [Known -> Vectors] /\ needed \in [Known -> Vectors]
        /\ allocated \in [Known -> Vectors] /\ remain \in Vectors /\ alive \in BOOLEAN
    BY DEF Inv, TypeOK
  <2>2. /\ max' \in [Known' -> Vectors] /\ needed' \in [Known' -> Vectors]
        /\ allocated' \in [Known' -> Vectors]
    <3> HIDE DEF Known
    <3>1. max' \in [Known' -> Vectors]
      BY <1>0, <1>1, <1>4, <2>1 DEF Assign
    <3>2. needed' \in [Known' -> Vectors]
      BY <1>0, <1>1, <1>4, <2>1 DEF Assign
    <3>3. allocated' \in [Known' -> Vectors]
      BY <1>0, <1>1, <1>3, <1>4, <2>1 DEF Assign
    <3> QED  BY <3>1, <3>2, <3>3
  <2>3. Known' \subseteq Pids
    BY <1>0, <1>4
  <2>4. Vectors' = Vectors
    BY DEF Vectors
  <2> QED  BY <1>1, <2>1, <2>2, <2>3, <2>4 DEF TypeOK
<1>6. /\ NoneStuck(allocated', needed', remain)
      /\ \A k \in Kinds : Total(allocated', DOMAIN needed', k) = Total(allocated, DOMAIN needed, k)
  <2>1. \A k \in Kinds : /\ req[k] \in Nat
                         /\ req[k] <= remain[k] + Total(allocated, DOMAIN needed, k)
    BY <1>0, <1>2
  <2>2. pid \in Int /\ pid \notin DOMAIN needed
    BY <1>0, <1>1, PidsAssumption
  <2>3. NoneStuck(allocated, needed, remain)
    BY DEF Inv
  <2>4. DOMAIN allocated = DOMAIN needed
    BY <1>0
  <2>5. PICK a, n : a = allocated' /\ n = needed'
    OBVIOUS
  <2>6. a = Assign(allocated, pid, Zero) /\ n = Assign(needed, pid, req)
    BY <1>1, <2>5
  <2>7. /\ NoneStuck(a, n, remain)
        /\ \A k \in Kinds : Total(a, DOMAIN n, k) = Total(allocated, DOMAIN needed, k)
    BY <1>0, <2>1, <2>2, <2>3, <2>4, <2>6, NewUnstuck
  <2> QED  BY <2>5, <2>7
<1>7. BooksBalance'
  <2>1. DOMAIN needed' = Known'
    BY <1>0, <1>1, <1>4 DEF Assign
  <2>2. \A k \in Kinds : remain'[k] + Total(allocated', Known', k) = resource[k]
    BY <1>0, <1>1, <1>6, <2>1
  <2>3. ASSUME NEW p \in Known' PROVE needed'[p] ++ allocated'[p] = max'[p]
    <3>1. CASE p = pid
      <4>1. needed'[p] = req /\ allocated'[p] = Zero /\ max'[p] = req
        BY <1>1, <3>1 DEF Assign
      <4>2. req ++ Zero = req
        BY <1>2 DEF ++, Zero
      <4> QED  BY <4>1, <4>2
    <3>2. CASE p # pid
      <4>1. p \in Known
        BY <1>4, <3>2
      <4>2. needed'[p] = needed[p] /\ allocated'[p] = allocated[p] /\ max'[p] = max[p]
        BY <1>0, <1>1, <3>2, <4>1 DEF Assign
      <4>3. needed[p] ++ allocated[p] = max[p]
        BY <4>1 DEF Inv, BooksBalance
      <4> QED  BY <4>2, <4>3
    <3> QED  BY <3>1, <3>2
  <2> QED  BY <2>2, <2>3 DEF BooksBalance, ++
<1>8. NoneStuck(allocated, needed, remain)'
  BY <1>1, <1>6
<1> QED  BY <1>5, <1>7, <1>8 DEF Inv

(* What safe_check is asked about. *)
Asked(pid, req, a, n, w) ==
    /\ Granted(allocated, pid, req, a)
    /\ n = [needed EXCEPT ![pid] = @ -- req]
    /\ w = remain -- req

(* What request_judge lets through to safe_check: tables again. *)
LEMMA Simulated ==
    ASSUME Inv, NEW pid \in Known, NEW req \in Vectors, WithinLimits(pid, req),
           NEW a, NEW n, NEW w, Asked(pid, req, a, n, w)
    PROVE  /\ Tables(a, n, w) /\ w \in [Kinds -> Nat] /\ DOMAIN n = Known
           /\ DOMAIN a = Known
           /\ a[pid] \in [Kinds -> Nat] /\ n[pid] \in [Kinds -> Nat]
           /\ \A p \in Known \ {pid} : a[p] = allocated[p] /\ n[p] = needed[p]
           /\ \A k \in Kinds : /\ a[pid][k] + n[pid][k] = max[pid][k]
                               /\ w[k] = remain[k] - req[k]
                               /\ req[k] \in Nat
<1>1. /\ DOMAIN needed = Known /\ DOMAIN allocated = Known
      /\ Tables(allocated, needed, remain)
  BY Facts
<1>2. \A k \in Kinds : remain[k] \in Nat
  BY Facts
<1>3. \A p \in Known :
         /\ max[p] \in [Kinds -> Nat] /\ needed[p] \in [Kinds -> Nat]
         /\ allocated[p] \in [Kinds -> Nat]
         /\ \A k \in Kinds : needed[p][k] + allocated[p][k] = max[p][k]
  BY Facts
<1>4. req \in [Kinds -> Nat]
  BY InVectors
<1>0. /\ a = [allocated EXCEPT ![pid] = @ ++ req]
      /\ n = [needed EXCEPT ![pid] = @ -- req] /\ w = remain -- req
  BY DEF Asked, Granted
<1>5. /\ a[pid] = allocated[pid] ++ req /\ n[pid] = needed[pid] -- req
      /\ \A p \in Known \ {pid} : a[p] = allocated[p] /\ n[p] = needed[p]
      /\ DOMAIN n = Known /\ DOMAIN a = Known
  BY <1>0, <1>1
<1>6. ASSUME NEW k \in Kinds
      PROVE  /\ (allocated[pid] ++ req)[k] = allocated[pid][k] + req[k]
             /\ (needed[pid] -- req)[k] = needed[pid][k] - req[k]
             /\ (remain -- req)[k] = remain[k] - req[k]
  BY DEF ++, --
<1>7. ASSUME NEW k \in Kinds
      PROVE  /\ a[pid][k] \in Nat /\ n[pid][k] \in Nat /\ w[k] \in Nat
             /\ a[pid][k] + n[pid][k] = max[pid][k]
  <2>1. req[k] + allocated[pid][k] <= max[pid][k] /\ req[k] <= remain[k]
    BY DEF WithinLimits
  <2>2. /\ req[k] \in Nat /\ remain[k] \in Nat /\ needed[pid][k] \in Nat
        /\ allocated[pid][k] \in Nat /\ max[pid][k] \in Nat
        /\ needed[pid][k] + allocated[pid][k] = max[pid][k]
    BY <1>2, <1>3, <1>4
  <2>3. /\ a[pid][k] = allocated[pid][k] + req[k]
        /\ n[pid][k] = needed[pid][k] - req[k]
        /\ w[k] = remain[k] - req[k]
    BY <1>0, <1>5, <1>6
  <2> QED  BY <2>1, <2>2, <2>3
<1>8. a[pid] \in [Kinds -> Nat] /\ n[pid] \in [Kinds -> Nat] /\ w \in [Kinds -> Nat]
  <2>1. /\ a[pid] = [k \in Kinds |-> a[pid][k]] /\ n[pid] = [k \in Kinds |-> n[pid][k]]
        /\ w = [k \in Kinds |-> w[k]]
    BY <1>0, <1>5 DEF ++, --
  <2> QED  BY <1>7, <2>1
<1>9. Tables(a, n, w)
  <2>1. \A p \in Known, k \in Kinds : a[p][k] \in Nat /\ n[p][k] \in Nat
    BY <1>3, <1>5, <1>7
  <2>2. Known \in SUBSET Int /\ IsFiniteSet(Known)
    BY <1>1 DEF Tables
  <2> QED  BY <1>5, <1>7, <2>1, <2>2 DEF Tables
<1>10. \A k \in Kinds : w[k] = remain[k] - req[k] /\ req[k] \in Nat
  BY <1>0, <1>4, <1>6
<1> QED  BY <1>5, <1>7, <1>8, <1>9, <1>10

(* request *)
LEMMA InvRequest ==
    ASSUME Inv, NEW pid \in Pids, Request(pid)
    PROVE  Inv'
<1>1. PICK req \in Vectors :
        /\ pid \in Known /\ WithinLimits(pid, req) /\ Grantable(pid, req)
        /\ remain' = remain -- req
        /\ allocated' = [allocated EXCEPT ![pid] = @ ++ req]
        /\ needed' = [needed EXCEPT ![pid] = @ -- req]
        /\ max' = max /\ alive' = alive
  BY DEF Request
<1> PICK a, n, w : a = allocated' /\ n = needed' /\ w = remain'
  OBVIOUS
<1>2. /\ a = [allocated EXCEPT ![pid] = @ ++ req]
      /\ n = [needed EXCEPT ![pid] = @ -- req] /\ w = remain -- req
  BY <1>1
<1>a. Asked(pid, req, a, n, w)
  BY <1>2 DEF Asked, Granted
<1>3. /\ Tables(a, n, w) /\ w \in [Kinds -> Nat] /\ DOMAIN n = Known /\ DOMAIN a = Known
      /\ a[pid] \in [Kinds -> Nat] /\ n[pid] \in [Kinds -> Nat]
      /\ \A p \in Known \ {pid} : a[p] = allocated[p] /\ n[p] = needed[p]
      /\ \A k \in Kinds : /\ a[pid][k] + n[pid][k] = max[pid][k]
                          /\ w[k] = remain[k] - req[k]
                          /\ req[k] \in Nat
  <2>1. pid \in Known /\ WithinLimits(pid, req)
    BY <1>1
  <2> QED  BY <1>a, <2>1, Simulated
<1>4. Known' = Known
  BY <1>1 DEF Known
<1>5. NoneStuck(a, n, w)
  <2>1. SafeCheck(a, n, w)
    BY <1>1, <1>2 DEF Grantable
  <2> QED  BY <1>3, <2>1, CheckIsUnstuck
<1>6. \A k \in Kinds :
        /\ remain[k] \in Nat /\ resource[k] \in Nat
        /\ remain[k] + Total(allocated, Known, k) = resource[k]
        /\ max[pid][k] <= resource[k] /\ max[pid][k] \in Nat
  BY <1>1, Facts
<1>7. a[pid] \in Vectors /\ n[pid] \in Vectors /\ w \in Vectors
  <2>1. \A k \in Kinds : a[pid][k] \in Nat /\ n[pid][k] \in Nat /\ w[k] \in Nat
    BY <1>3
  <2>2. ASSUME NEW k \in Kinds
        PROVE  a[pid][k] <= resource[k] /\ n[pid][k] <= resource[k] /\ w[k] <= resource[k]
    <3>1. remain[k] <= resource[k]
      <4>1. Total(allocated, Known, k) \in Nat
        <5>1. Tables(allocated, needed, remain) /\ Known \in SUBSET DOMAIN needed
          BY Facts
        <5> QED  BY <5>1, TablesCount
      <4> QED  BY <1>6, <4>1
    <3> QED  BY <1>3, <1>6, <2>1, <3>1
  <2> QED  BY <1>3, <2>2, InVectors
<1>8. TypeOK'
  <2>1. max \in [Known -> Vectors] /\ needed \in [Known -> Vectors]
        /\ allocated \in [Known -> Vectors] /\ alive \in BOOLEAN /\ Known \subseteq Pids
    BY DEF Inv, TypeOK
  <2>2. a \in [Known -> Vectors] /\ n \in [Known -> Vectors]
    <3>1. \A p \in Known : a[p] \in Vectors /\ n[p] \in Vectors
      BY <1>3, <1>7, <2>1
    <3>2. a = [p \in Known |-> a[p]] /\ n = [p \in Known |-> n[p]]
      BY <1>2, <2>1
    <3> QED  BY <3>1, <3>2
  <2>3. Vectors' = Vectors
    BY DEF Vectors
  <2> QED  BY <1>1, <1>4, <1>7, <2>1, <2>2, <2>3 DEF TypeOK
<1>9. BooksBalance'
  <2>1. ASSUME NEW k \in Kinds PROVE w[k] + Total(a, Known, k) = resource[k]
    <3>0. Tables(allocated, needed, remain) /\ DOMAIN needed = Known /\ DOMAIN allocated = Known
      BY Facts
    <3>1. Total(a, DOMAIN needed, k) = Total(allocated, DOMAIN needed, k) + req[k]
      <4>1. pid \in DOMAIN needed /\ DOMAIN allocated = DOMAIN needed /\ req[k] \in Nat
        BY <1>1, <1>3, <3>0
      <4>2. Granted(allocated, pid, req, a)
        BY <1>2 DEF Granted
      <4> QED  BY <3>0, <4>1, <4>2, GrantTotal
    <3>2. Total(allocated, Known, k) \in Nat
      <4>1. Known \in SUBSET DOMAIN needed
        BY <3>0
      <4> QED  BY <3>0, <4>1, TablesCount
    <3>3. Total(a, Known, k) = Total(allocated, Known, k) + req[k]
      BY <3>0, <3>1
    <3>4. /\ w[k] = remain[k] - req[k] /\ req[k] \in Nat /\ remain[k] \in Nat
          /\ resource[k] \in Nat /\ remain[k] + Total(allocated, Known, k) = resource[k]
      BY <1>3, <1>6
    <3> QED  BY <3>2, <3>3, <3>4
  <2>2. ASSUME NEW p \in Known PROVE n[p] ++ a[p] = max[p]
    <3>1. CASE p = pid
      <4>1. max[pid] \in [Kinds -> Nat]
        BY <1>1, Facts
      <4>2. \A k \in Kinds : n[pid][k] + a[pid][k] = max[pid][k]
        BY <1>3
      <4> QED  BY <3>1, <4>1, <4>2 DEF ++
    <3>2. CASE p # pid
      <4>1. n[p] = needed[p] /\ a[p] = allocated[p]
        BY <1>3, <3>2
      <4>2. needed[p] ++ allocated[p] = max[p]
        BY DEF Inv, BooksBalance
      <4> QED  BY <4>1, <4>2
    <3> QED  BY <3>1, <3>2
  <2> QED  BY <1>1, <1>4, <2>1, <2>2 DEF BooksBalance, ++
<1>10. NoneStuck(allocated, needed, remain)'
  BY <1>5
<1> QED  BY <1>8, <1>9, <1>10 DEF Inv

(* terminate *)
LEMMA InvTerminate ==
    ASSUME Inv, NEW pid \in Pids, Terminate(pid)
    PROVE  Inv'
<1>0. /\ Tables(allocated, needed, remain)
      /\ DOMAIN needed = Known /\ DOMAIN allocated = Known /\ DOMAIN max = Known
      /\ Known \subseteq Pids
      /\ \A k \in Kinds : /\ remain[k] + Total(allocated, Known, k) = resource[k]
                          /\ remain[k] \in Nat /\ resource[k] \in Nat
      /\ \A p \in Known : allocated[p] \in [Kinds -> Nat]
  BY Facts DEF Known
<1>1. /\ pid \in Known /\ remain' = remain ++ allocated[pid]
      /\ max' = Erase(max, pid) /\ needed' = Erase(needed, pid)
      /\ allocated' = Erase(allocated, pid) /\ alive' = alive
  BY DEF Terminate
<1>2. Known' = Known \ {pid} /\ DOMAIN needed' = Known'
  BY <1>0, <1>1 DEF Erase, Known
<1> PICK a, n, w : a = allocated' /\ n = needed' /\ w = remain'
  OBVIOUS
<1>3. /\ NoneStuck(a, n, w)
      /\ \A k \in Kinds : Total(allocated, DOMAIN needed, k) =
                             Total(a, DOMAIN n, k) + allocated[pid][k]
  <2>1. Ended(allocated, needed, remain, pid, a, n, w)
    BY <1>1 DEF Ended
  <2>2. NoneStuck(allocated, needed, remain)
    BY DEF Inv
  <2>3. pid \in DOMAIN needed /\ DOMAIN allocated = DOMAIN needed
    BY <1>0, <1>1
  <2> QED  BY <1>0, <2>1, <2>2, <2>3, EndUnstuck
<1>4. ASSUME NEW k \in Kinds
      PROVE  /\ w[k] = remain[k] + allocated[pid][k]
             /\ w[k] + Total(a, Known', k) = resource[k]
             /\ w[k] \in Nat /\ w[k] <= resource[k]
  <2>1. w[k] = remain[k] + allocated[pid][k]
    BY <1>1 DEF ++
  <2>2. Total(allocated, Known, k) = Total(a, Known', k) + allocated[pid][k]
    BY <1>0, <1>2, <1>3
  <2>3. Total(a, Known', k) \in Nat
    <3> PICK E : E = Known'
      OBVIOUS
    <3>1. E \in SUBSET DOMAIN needed
      BY <1>0, <1>2
    <3>2. Countable(allocated, E, k)
      BY <1>0, <3>1, TablesCount
    <3>3. \A p \in E : a[p] = allocated[p]
      BY <1>0, <1>1, <1>2 DEF Erase
    <3>4. Countable(a, E, k)
      BY <3>2, <3>3 DEF Countable
    <3>5. Total(a, E, k) \in Nat
      BY <3>4, TotalOf
    <3> QED  BY <3>5
  <2>4. /\ remain[k] \in Nat /\ allocated[pid][k] \in Nat /\ resource[k] \in Nat
        /\ remain[k] + Total(allocated, Known, k) = resource[k]
    BY <1>0, <1>1
  <2> QED  BY <2>1, <2>2, <2>3, <2>4
<1>5. w \in Vectors
  <2>1. w = [k \in Kinds |-> w[k]]
    BY <1>1 DEF ++
  <2>2. w \in [Kinds -> Nat]
    BY <1>4, <2>1
  <2> QED  BY <1>4, <2>2, InVectors
<1>6. TypeOK'
  <2>1. max \in [Known -> Vectors] /\ needed \in [Known -> Vectors]
        /\ allocated \in [Known -> Vectors] /\ alive \in BOOLEAN
    BY DEF Inv, TypeOK
  <2>2. /\ max' \in [Known' -> Vectors] /\ needed' \in [Known' -> Vectors]
        /\ allocated' \in [Known' -> Vectors]
    <3>1. max' \in [Known' -> Vectors]
      BY <1>0, <1>1, <1>2, <2>1 DEF Erase
    <3>2. needed' \in [Known' -> Vectors]
      BY <1>0, <1>1, <1>2, <2>1 DEF Erase
    <3>3. allocated' \in [Known' -> Vectors]
      BY <1>0, <1>1, <1>2, <2>1 DEF Erase
    <3> QED  BY <3>1, <3>2, <3>3
  <2>3. Known' \subseteq Pids
    BY <1>0, <1>2
  <2>4. Vectors' = Vectors
    BY DEF Vectors
  <2> QED  BY <1>1, <1>5, <2>1, <2>2, <2>3, <2>4 DEF TypeOK
<1>7. BooksBalance'
  <2>1. \A k \in Kinds : remain'[k] + Total(allocated', Known', k) = resource[k]
    BY <1>4
  <2>2. ASSUME NEW p \in Known' PROVE needed'[p] ++ allocated'[p] = max'[p]
    <3>1. p \in Known
      BY <1>2
    <3>2. needed'[p] = needed[p] /\ allocated'[p] = allocated[p] /\ max'[p] = max[p]
      BY <1>0, <1>1, <1>2, <3>1 DEF Erase
    <3>3. needed[p] ++ allocated[p] = max[p]
      BY <3>1 DEF Inv, BooksBalance
    <3> QED  BY <3>2, <3>3
  <2> QED  BY <2>1, <2>2 DEF BooksBalance, ++
<1>8. NoneStuck(allocated, needed, remain)'
  BY <1>3
<1> QED  BY <1>6, <1>7, <1>8 DEF Inv

-----------------------------------------------------------------------------
(* The tables keep their types, nothing is lost or made up, and no set of *)
(* processes is ever stuck.                                               *)
THEOREM InvHolds == BankSpec => []Inv
<1>1. BankInit => Inv
  BY InvInit
<1>2. Inv /\ [BankNext]_bankVars => Inv'
  <2> SUFFICES ASSUME Inv, [BankNext]_bankVars PROVE Inv'
    OBVIOUS
  <2>1. CASE BankNext
    <3>1. PICK pid \in Pids :
            New(pid) \/ Request(pid) \/ RequestUnknown(pid) \/ Terminate(pid)
      BY <2>1 DEF BankNext
    <3>2. CASE New(pid)
      BY <3>2, InvNew
    <3>3. CASE Request(pid)
      BY <3>3, InvRequest
    <3>4. CASE RequestUnknown(pid)
      <4>1. UNCHANGED <<remain, max, needed, allocated>> /\ alive' = FALSE
        BY <3>4 DEF RequestUnknown
      <4> QED  BY <4>1 DEF Inv, TypeOK, BooksBalance, Known, Vectors, ++, NoneStuck, Moves, Fits
    <3>5. CASE Terminate(pid)
      BY <3>5, InvTerminate
    <3> QED  BY <3>1, <3>2, <3>3, <3>4, <3>5
  <2>2. CASE UNCHANGED bankVars
    <3>1. UNCHANGED <<remain, max, needed, allocated, alive>>
      BY <2>2 DEF bankVars
    <3> QED  BY <3>1 DEF Inv, TypeOK, BooksBalance, Known, Vectors, ++, NoneStuck, Moves, Fits
  <2> QED  BY <2>1, <2>2
<1> QED  BY <1>1, <1>2, PTL DEF BankSpec

(* Whatever is requested and ended, what remains and what is allocated add *)
(* up to what there is, and needed is the rest of the claim.               *)
THEOREM BooksAlwaysBalance == BankSpec => []BooksBalance
<1>1. Inv => BooksBalance
  BY DEF Inv
<1> QED  BY <1>1, InvHolds, PTL

(* No sequence of commands leads to an unsafe state. *)
THEOREM NeverUnsafe == BankSpec => []AlwaysSafe
<1>1. ASSUME Inv PROVE AlwaysSafe
  <2>1. Tables(allocated, needed, remain) /\ NoneStuck(allocated, needed, remain)
    BY <1>1, Facts DEF Inv
  <2> QED  BY <2>1, UnstuckSafe DEF AlwaysSafe
<1> QED  BY <1>1, InvHolds, PTL

(* safe_check, which goes over the map at most as often as there are        *)
(* processes, grants exactly the requests that lead to a safe state.        *)
THEOREM CheckDecidesSafety == BankSpec => []CheckIsExact
<1>1. ASSUME Inv PROVE CheckIsExact
  <2> SUFFICES ASSUME NEW pid \in Known, NEW req \in Vectors, WithinLimits(pid, req)
               PROVE  Grantable(pid, req) <=>
                        SafeState([allocated EXCEPT ![pid] = @ ++ req],
                                  [needed EXCEPT ![pid] = @ -- req], remain -- req)
    BY DEF CheckIsExact
  <2> PICK a, n, w : /\ a = [allocated EXCEPT ![pid] = @ ++ req]
                     /\ n = [needed EXCEPT ![pid] = @ -- req] /\ w = remain -- req
    OBVIOUS
  <2>0. Asked(pid, req, a, n, w)
    BY DEF Asked, Granted
  <2>1. Tables(a, n, w) /\ w \in [Kinds -> Nat]
    BY <1>1, <2>0, Simulated
  <2>2. Grantable(pid, req) <=> SafeCheck(a, n, w)
    BY DEF Grantable
  <2>3. SafeCheck(a, n, w) <=> NoneStuck(a, n, w)
    BY <2>1, CheckIsUnstuck
  <2>4. SafeState(a, n, w) <=> NoneStuck(a, n, w)
    BY <2>1, SafeUnstuck, UnstuckSafe
  <2> QED  BY <2>2, <2>3, <2>4
<1> QED  BY <1>1, InvHolds, PTL
=============================================================================
