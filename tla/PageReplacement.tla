---------------------------- MODULE PageReplacement ----------------------------
(***************************************************************************)
(* The five page replacement policies of lab9/main.cpp, for a sequence     *)
(* order of page requests and K frames.  Each gives the hits and the cache *)
(* it ends with, min for each way its ties may fall.  The sets and maps    *)
(* the code keeps beside its lists to find a page are the range of the     *)
(* list here.                                                              *)
(***************************************************************************)
EXTENDS Integers, Sequences, SequencesExt, FiniteSets, FiniteSetsExt

\* The loop over the requests: a policy is what it does to its cache for
\* request i, the pages a cache holds, and the empty cache.
Serve(step(_, _), pages(_), empty, order) ==
    FoldLeftDomain(
        LAMBDA acc, i :
            [hit |-> acc.hit + IF order[i] \in pages(acc.cache) THEN 1 ELSE 0,
             cache |-> step(acc.cache, i)],
        [hit |-> 0, cache |-> empty], order)

\* A page at the end of a list, in place of its first one when it is full.
Push(list, page, limit) == Append(IF Len(list) = limit THEN Tail(list) ELSE list, page)

fifo(order, K) ==
    Serve(LAMBDA que, i : IF order[i] \in Range(que) THEN que ELSE Push(que, order[i], K),
          Range, <<>>, order)

\* lru without the adjustment on a hit.
lruUnadjusted(order, K) ==
    Serve(LAMBDA ls, i : IF order[i] \in Range(ls) THEN ls ELSE Push(ls, order[i], K),
          Range, <<>>, order)
lru(order, K) ==
    Serve(LAMBDA ls, i : IF order[i] \in Range(ls) THEN Append(Remove(ls, order[i]), order[i])
                         ELSE Push(ls, order[i], K),
          Range, <<>>, order)

\* The front of mls[page] once the positions before i are dropped.
NextUse(order, page, i) ==
    Min({k \in i .. Len(order) : order[k] = page} \cup {Len(order) + 1})

\* The pages used last of all.  Which of several pos_map yields first depends on
\* its hash order.
Victims(cache, order, i) ==
    {v \in cache : \A w \in cache : NextUse(order, v, i) >= NextUse(order, w, i)}

\* The runs of min, one for every choice among victims.
min(order, K) ==
    LET Request(run, i) ==
            IF order[i] \in run.cache THEN {[run EXCEPT !.hit = @ + 1]}
            ELSE IF Cardinality(run.cache) < K
                 THEN {[run EXCEPT !.cache = @ \cup {order[i]}]}
            ELSE {[run EXCEPT !.cache = (@ \ {v}) \cup {order[i]}] :
                     v \in Victims(run.cache, order, i)}
    IN  FoldLeftDomain(LAMBDA runs, i : UNION {Request(run, i) : run \in runs},
                       {[hit |-> 0, cache |-> {}]}, order)

-----------------------------------------------------------------------------
(* _clock: vec holds a page, 0 for none, and a use bit for each frame.      *)

get_ind(ind, K) == IF ind > K THEN ind - K ELSE ind

\* The hand passes the frames with their bit set, clearing it, and stops at the
\* first without; after a full turn that is the frame it started from.
Replace(clock, page, K) ==
    LET Ahead(d) == get_ind(clock.hand + d, K)
        passed == Min({d \in 0 .. K - 1 : ~clock.vec[Ahead(d)].used} \cup {K})
        frame == get_ind(Ahead(passed), K)
        cleared == {Ahead(d) : d \in 0 .. passed - 1}
    IN  [vec |-> [f \in 1 .. K |->
                    IF f = frame THEN [page |-> page, used |-> TRUE]
                    ELSE IF f \in cleared THEN [clock.vec[f] EXCEPT !.used = FALSE]
                    ELSE clock.vec[f]],
         hand |-> get_ind(frame + 1, K)]

Mark(clock, page) ==
    [clock EXCEPT !.vec = [f \in DOMAIN clock.vec |->
        [clock.vec[f] EXCEPT !.used = @ \/ clock.vec[f].page = page]]]

ClockPages(clock) == {entry.page : entry \in Range(clock.vec)} \ {0}

_clock(order, K) ==
    Serve(LAMBDA clock, i :
            IF order[i] \in ClockPages(clock) THEN Mark(clock, order[i])
            ELSE Replace(clock, order[i], K),
          ClockPages,
          [vec |-> [f \in 1 .. K |-> [page |-> 0, used |-> FALSE]], hand |-> 1], order)

-----------------------------------------------------------------------------
(* second_chance: a FIFO of half the frames before an LRU list of the rest. *)
(* With one frame the code takes the front of an empty queue: K > 1 here.   *)

SecondPages(c) == Range(c.que) \cup Range(c.ls)

second_chance(order, K) ==
    LET fifo_size == K \div 2
        lru_size == K - K \div 2
        Request(c, page) ==
            CASE page \in Range(c.que) -> c
              [] page \in Range(c.ls) ->
                    [que |-> Append(Tail(c.que), page),
                     ls |-> Append(Remove(c.ls, page), Head(c.que))]
              [] page \notin SecondPages(c) /\ Len(c.que) < fifo_size ->
                    [c EXCEPT !.que = Append(c.que, page)]
              [] OTHER ->
                    [que |-> Append(Tail(c.que), page),
                     ls |-> Push(c.ls, Head(c.que), lru_size)]
    IN  Serve(LAMBDA c, i : Request(c, order[i]), SecondPages,
              [que |-> <<>>, ls |-> <<>>], order)

-----------------------------------------------------------------------------
(* References.                                                             *)

\* The most hits any choice of victims gives.
Optimal(order, K) ==
    LET After(run, page) ==
            IF page \in run.cache THEN {[run EXCEPT !.hit = @ + 1]}
            ELSE IF Cardinality(run.cache) < K
                 THEN {[run EXCEPT !.cache = run.cache \cup {page}]}
            ELSE {[run EXCEPT !.cache = (run.cache \ {v}) \cup {page}] : v \in run.cache}
        runs == FoldLeft(LAMBDA S, page : UNION {After(run, page) : run \in S},
                         {[hit |-> 0, cache |-> {}]}, order)
    IN  Max({run.hit : run \in runs})

\* The requested pages from the one that was used longest ago to the last.
ByRecency(order) ==
    LET LastUse(page) == Max({i \in DOMAIN order : order[i] = page})
    IN  SetToSortSeq(Range(order), LAMBDA p, q : LastUse(p) < LastUse(q))

\* min is optimal whatever its hash order and no policy beats it; lru holds the pages used last, in that
\* order, so that a larger cache never hits less; every policy ends with the
\* last page cached and at most K pages.
PoliciesMatchReference(order, K) ==
    LET best == Optimal(order, K)
        pages == [fifo |-> Range(fifo(order, K).cache), lru |-> Range(lru(order, K).cache),
                  _clock |-> ClockPages(_clock(order, K).cache),
                  second_chance |-> SecondPages(second_chance(order, K).cache)]
    IN  /\ \A run \in min(order, K) :
            /\ run.hit = best
            /\ Cardinality(run.cache) <= K
            /\ order # <<>> => Last(order) \in run.cache
        /\ \A hit \in {fifo(order, K).hit, lru(order, K).hit, _clock(order, K).hit,
                       second_chance(order, K).hit} : hit <= best
        /\ lru(order, K).cache = LET used == ByRecency(order)
                                 IN  IF Len(used) <= K THEN used
                                     ELSE SubSeq(used, Len(used) - K + 1, Len(used))
        /\ lru(order, K).hit <= lru(order, K + 1).hit
        /\ \A policy \in DOMAIN pages :
            /\ Cardinality(pages[policy]) <= K
            /\ order # <<>> => Last(order) \in pages[policy]

=============================================================================
