------------------------------- MODULE Banker -------------------------------
(***************************************************************************)
(* The banker's algorithm of lab7/banker.cpp: processes announce a maximal *)
(* claim, request resources within it and terminate; a request is granted  *)
(* only if safe_check finds that everybody can still finish.  A command    *)
(* answered NOT OK changes nothing, so it is no action.  Claims and        *)
(* requests are not negative.                                              *)
(***************************************************************************)
EXTENDS Integers, Sequences, FiniteSets, SequencesExt, FiniteSetsExt

CONSTANTS
    Pids,       \* process numbers, in the order std::map keeps them
    Kinds,      \* the r kinds of resources
    resource    \* resource[k]: how much of kind k there is

ASSUME PidsAssumption == Pids \subseteq Int /\ IsFiniteSet(Pids)
ASSUME KindsAssumption == IsFiniteSet(Kinds) /\ Kinds # {}
ASSUME ResourceAssumption == resource \in [Kinds -> Nat]

VARIABLES
    remain,     \* what is not allocated
    max,        \* _max, a map from the known processes to their claims
    needed,     \* the same for what they may still request
    allocated,  \* and for what they have
    alive       \* FALSE once the program has crashed

bankVars == <<remain, max, needed, allocated, alive>>

(* Vectors over the kinds, up to what there is. *)
Vectors == { v \in [Kinds -> UNION { 0 .. resource[k] : k \in Kinds }] :
               \A k \in Kinds : v[k] <= resource[k] }

v ++ w == [k \in Kinds |-> v[k] + w[k]]
v -- w == [k \in Kinds |-> v[k] - w[k]]
v \preceq w == \A k \in Kinds : v[k] <= w[k]
Zero == [k \in Kinds |-> 0]

Known == DOMAIN max

TypeOK ==
    /\ remain \in Vectors
    /\ Known \subseteq Pids
    /\ max \in [Known -> Vectors]
    /\ needed \in [Known -> Vectors]
    /\ allocated \in [Known -> Vectors]
    /\ alive \in BOOLEAN

BankInit ==
    /\ remain = resource
    /\ max = << >>
    /\ needed = << >>
    /\ allocated = << >>
    /\ alive = TRUE

(* map[pid] = v and map.erase (pid). *)
Assign(map, pid, v) == [q \in DOMAIN map \cup {pid} |-> IF q = pid THEN v ELSE map[q]]
Erase(map, pid) == [q \in DOMAIN map \ {pid} |-> map[q]]

-----------------------------------------------------------------------------
(* safe_check *)

(* Its inner loop at process p: one that can get all it needs finishes and *)
(* gives back what it has.                                                 *)
Visit(s, p, alloc, need) ==
    IF p \notin s.finish /\ need[p] \preceq s.work
    THEN [work |-> s.work ++ alloc[p], finish |-> s.finish \cup {p}]
    ELSE s

(* One pass over the map, in the order of its keys: the state once the     *)
(* processes of T have been visited, the last of them last.                *)
Pass(s, alloc, need) ==
    LET visited[T \in SUBSET DOMAIN need] ==
            IF T = {} THEN s
            ELSE Visit(visited[T \ {Max(T)}], Max(T), alloc, need)
    IN  visited[DOMAIN need]

(* Mutant of SafeCheck: a single pass over the processes. *)
SafeCheckOnePass(alloc, need, work) ==
    Pass([work |-> work, finish |-> {}], alloc, need).finish = DOMAIN need

(* Mutant of SafeCheck: enough if one process can finish. *)
SafeCheckSomebody(alloc, need, work) ==
    Pass([work |-> work, finish |-> {}], alloc, need).finish # {} \/ need = << >>

(* The outer loop makes as many passes as there are processes; those after *)
(* the break would change nothing.  Does everybody finish?                 *)
SafeCheck(alloc, need, work) ==
    LET after[i \in 0 .. Cardinality(DOMAIN need)] ==
            IF i = 0 THEN [work |-> work, finish |-> {}]
            ELSE Pass(after[i - 1], alloc, need)
    IN  after[Cardinality(DOMAIN need)].finish = DOMAIN need

-----------------------------------------------------------------------------
(* The commands. *)

(* new: new_judge and new_process. *)
New(pid) ==
    /\ pid \notin Known
    /\ \E req \in Vectors :
          /\ req \preceq resource
          /\ max' = Assign(max, pid, req)
          /\ needed' = Assign(needed, pid, req)
    /\ allocated' = Assign(allocated, pid, Zero)
    /\ UNCHANGED <<remain, alive>>

(* The tests of request_judge before the simulation. *)
WithinLimits(pid, req) ==
    \A k \in Kinds : req[k] + allocated[pid][k] <= max[pid][k] /\ req[k] <= remain[k]

(* What safe_check is asked about a request. *)
Grantable(pid, req) ==
    SafeCheck([allocated EXCEPT ![pid] = @ ++ req], [needed EXCEPT ![pid] = @ -- req],
              remain -- req)

(* request, granted: request_judge and the updates safe_check makes. *)
Request(pid) ==
    /\ pid \in Known
    /\ \E req \in Vectors :
          /\ WithinLimits(pid, req)
          /\ Grantable(pid, req)
          /\ remain' = remain -- req
          /\ allocated' = [allocated EXCEPT ![pid] = @ ++ req]
          /\ needed' = [needed EXCEPT ![pid] = @ -- req]
    /\ UNCHANGED <<max, alive>>

(* request from a process that is not known: request_judge reads an element *)
(* of the empty vector the map makes for it.                                *)
RequestUnknown(pid) ==
    /\ pid \notin Known
    /\ alive' = FALSE
    /\ UNCHANGED <<remain, max, needed, allocated>>

(* Mutant of Terminate: what the process had is not given back. *)
TerminateLeaks(pid) ==
    /\ pid \in Known
    /\ max' = Erase(max, pid)
    /\ needed' = Erase(needed, pid)
    /\ allocated' = Erase(allocated, pid)
    /\ UNCHANGED <<remain, alive>>

(* terminate: recycle. *)
Terminate(pid) ==
    /\ pid \in Known
    /\ remain' = remain ++ allocated[pid]
    /\ max' = Erase(max, pid)
    /\ needed' = Erase(needed, pid)
    /\ allocated' = Erase(allocated, pid)
    /\ UNCHANGED alive

BankNext ==
    /\ alive
    /\ \E pid \in Pids :
          New(pid) \/ Request(pid) \/ RequestUnknown(pid) \/ Terminate(pid)

BankSpec == BankInit /\ [][BankNext]_bankVars

-----------------------------------------------------------------------------
(* Properties. *)

(* What the processes of S have of kind k. *)
Total(alloc, S, k) ==
    LET sum[T \in SUBSET S] ==
            IF T = {} THEN 0
            ELSE sum[T \ {Max(T)}] + alloc[Max(T)][k]
    IN  sum[S]

(* The books balance: what remains and what is allocated add up to what     *)
(* there is, and a process can still ask for exactly the rest of its claim. *)
BooksBalance ==
    /\ \A k \in Kinds : remain[k] + Total(allocated, Known, k) = resource[k]
    /\ \A p \in Known : needed[p] ++ allocated[p] = max[p]

(* The textbook definition of a safe state: an order in which each process *)
(* can get all it needs from the rest and what the earlier ones give back. *)
SafeState(alloc, need, work) ==
    \E order \in SetToSeqs(DOMAIN need) :
        \A i \in DOMAIN order : \A k \in Kinds :
            need[order[i]][k] <=
                work[k] + Total(alloc, { order[j] : j \in 1 .. i - 1 }, k)

(* No sequence of commands leads to an unsafe state, though new and        *)
(* terminate are answered without a safety check.                          *)
AlwaysSafe == SafeState(allocated, needed, remain)

(* safe_check decides safety exactly: it grants no request that leads to an *)
(* unsafe state and refuses none that does not, in whatever order the map   *)
(* holds the processes.                                                     *)
CheckIsExact ==
    \A pid \in Known : \A req \in Vectors :
        WithinLimits(pid, req) =>
            (Grantable(pid, req) <=>
                SafeState([allocated EXCEPT ![pid] = @ ++ req],
                          [needed EXCEPT ![pid] = @ -- req], remain -- req))
=============================================================================
