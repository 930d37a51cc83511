---------------------------- MODULE DiskScheduling ----------------------------
(***************************************************************************)
(* The disk arm algorithms of lab10/main.cpp: for a head at track S of M   *)
(* tracks and the requests order, the tracks the program prints after S    *)
(* and the sum it prints below them.  order has at least two requests:     *)
(* with one, scan reads the array in front of its start.                   *)
(***************************************************************************)
EXTENDS Integers, Sequences, SequencesExt, FiniteSets, FiniteSetsExt

Distance(a, b) == IF a < b THEN b - a ELSE a - b

\* The tracks passed along a path.
Travel(path) ==
    FoldLeftDomain(LAMBDA sum, i : IF i = 1 THEN 0 ELSE sum + Distance(path[i], path[i - 1]),
                   0, path)

fcfs(order, S) == [path |-> order, sum |-> Travel(<<S>> \o order)]

\* The list position of the first request that is nearest to cur.
Nearest(ls, cur) ==
    CHOOSE i \in DOMAIN ls : \A k \in DOMAIN ls :
        \/ Distance(cur, ls[i]) < Distance(cur, ls[k])
        \/ Distance(cur, ls[i]) = Distance(cur, ls[k]) /\ i <= k

\* Measures from S throughout.
sstfFromStart(order, S) ==
    LET run == FoldLeftDomain(
            LAMBDA acc, n : LET i == Nearest(acc.ls, S)
                            IN  [ls |-> RemoveAt(acc.ls, i), path |-> Append(acc.path, acc.ls[i])],
            [ls |-> order, path |-> <<>>], order)
    IN  [path |-> run.path, sum |-> Travel(<<S>> \o run.path)]

sstf(order, S) ==
    LET run == FoldLeftDomain(
            LAMBDA acc, n : LET i == Nearest(acc.ls, Last(acc.path))
                            IN  [ls |-> RemoveAt(acc.ls, i), path |-> Append(acc.path, acc.ls[i])],
            [ls |-> order, path |-> <<S>>], order)
    IN  [path |-> Tail(run.path), sum |-> Travel(run.path)]

-----------------------------------------------------------------------------
(* The sweeps.  tmp_order is sorted; pos splits it into the requests the    *)
(* head meets on its way down and the others.                              *)

tmp_order(order) == SortSeq(order, LAMBDA a, b : a < b)

\* pos + 1.  With no request above S the code leaves pos at 0.
Below(order, S) ==
    IF \E i \in DOMAIN order : order[i] > S
    THEN Cardinality({i \in DOMAIN order : order[i] <= S}) ELSE 1

Down(order, S) == Reverse(SubSeq(tmp_order(order), 1, Below(order, S)))
Up(order, S) == SubSeq(tmp_order(order), Below(order, S) + 1, Len(order))

\* The sum is put together from differences of tmp_order: down from S, to track 0
\* from the lowest request, up to the last but one, and the last step.
scan(order, S, advanced) ==
    LET t == tmp_order(order)
        N == Len(order)
        bottom == IF advanced THEN t[1] ELSE 0
    IN  [path |-> Down(order, S) \o (IF advanced THEN <<>> ELSE <<0>>) \o Up(order, S),
         sum |-> Travel(<<S>> \o Down(order, S))
                 + Distance(bottom, t[1])
                 + Travel(<<bottom>> \o SubSeq(t, Below(order, S) + 1, N - 1))
                 + Distance(t[N], t[N - 1])]

\* The jump to the top is not counted.  When one request is left above, the last
\* difference is to what lies behind the array.
c_scan(order, S, M, advanced, garbage) ==
    LET t == tmp_order(order)
        N == Len(order)
        b == Below(order, S)
        At(i) == IF i <= N THEN t[i] ELSE garbage
    IN  [path |-> Down(order, S) \o (IF advanced THEN <<>> ELSE <<0, M - 1>>)
                    \o Reverse(Up(order, S)),
         sum |-> Travel(<<S>> \o Down(order, S))
                 + (IF advanced THEN 0 ELSE t[1])
                 + Travel((IF advanced THEN <<>> ELSE <<M - 1>>) \o Reverse(SubSeq(t, b + 2, N)))
                 + Distance(At(b + 1), At(b + 2))]

-----------------------------------------------------------------------------

IsPermutation(path, order) ==
    \A track \in Range(path) \cup Range(order) :
        Cardinality({i \in DOMAIN path : path[i] = track})
            = Cardinality({i \in DOMAIN order : order[i] = track})

\* Every algorithm serves each request once, and turns at the ends of the disk
\* once if it goes there.  sstf always goes to a nearest one.
\* With a request at or below the head and two above it, each printed sum is the
\* travel along the printed path, less the jump of C-SCAN and C-LOOK.
ArmMatchesReference(order, S, M, garbage) ==
    LET near == sstf(order, S)
        down == <<S>> \o Down(order, S)
        up == Up(order, S)
        regular == /\ \E i \in DOMAIN order : order[i] <= S
                   /\ Cardinality({i \in DOMAIN order : order[i] > S}) >= 2
    IN  /\ \A path \in {fcfs(order, S).path, near.path, scan(order, S, TRUE).path,
                        c_scan(order, S, M, TRUE, garbage).path} : IsPermutation(path, order)
        /\ IsPermutation(scan(order, S, FALSE).path, <<0>> \o order)
        /\ IsPermutation(c_scan(order, S, M, FALSE, garbage).path, <<0, M - 1>> \o order)
        /\ \A i \in DOMAIN order : \A k \in i .. Len(order) :
            LET cur == (<<S>> \o near.path)[i]
            IN  Distance(cur, near.path[i]) <= Distance(cur, near.path[k])
        /\ regular =>
            /\ \A advanced \in BOOLEAN :
                LET r == scan(order, S, advanced) IN r.sum = Travel(<<S>> \o r.path)
            /\ c_scan(order, S, M, TRUE, garbage).sum = Travel(down) + Travel(Reverse(up))
            /\ c_scan(order, S, M, FALSE, garbage).sum
                = Travel(down \o <<0>>) + Travel(<<M - 1>> \o Reverse(up))

=============================================================================
