---------------------------- MODULE ProcessesProof ----------------------------
(***************************************************************************)
(* Proofs about Processes for every number of tids, threads and statuses:  *)
(* the load handshake of exec, that a wait never answers for a process     *)
(* that is still running, and where the status it returns comes from.      *)
(***************************************************************************)
EXTENDS Processes, TLAPS

(* Tids are handed out in order and never twice. *)
TidsInOrder == \A t \in Tids : pc[t] = "unborn" <=> t >= next_tid

(* all_list holds the threads between their creation and their exit. *)
Listed ==
    \A t \in Tids : t \in all_list <=> pc[t] \notin {"unborn", "notify", "dead"}

(* The child of exec has told its parent how its load ended.  A child that *)
(* failed goes from start_process straight to thread_exit.                 *)
Reported(p) ==
    /\ other[p] \in Tids
    /\ pc[other[p]] \notin {"unborn", "load"}
    /\ child_status[p] # 0
    /\ child_status[p] = -1 =>
          /\ pc[other[p]] \in {"exit", "unlist", "notify", "dead"}
          /\ code[other[p]] = None

(* exec_sema counts the reports its owner has not taken yet. *)
Handshake ==
    \A p \in Tids :
        /\ pc[p] = "exec" =>
              \/ /\ other[p] = None
                 /\ exec_sema[p] = 0
              \/ /\ other[p] \in Tids
                 /\ pc[other[p]] = "load"
                 /\ parent[other[p]] = p
                 /\ exec_sema[p] = 0
              \/ /\ Reported(p)
                 /\ exec_sema[p] = 1
        /\ pc[p] = "register" => Reported(p)
        /\ pc[p] # "exec" => exec_sema[p] = 0

(* The points a process reaches after the stores of exit. *)
Gone == {"status", "exit", "unlist", "notify", "dead"}

(* An entry says exited, and its semaphore is up, only for a process that *)
(* ends; so does every answer of process_wait.                            *)
EntriesTell ==
    \A c \in Tids :
        /\ entry[c].exited => pc[c] \in Gone
        /\ entry[c].sema > 0 => pc[c] = "dead"
        /\ answers[c] # <<>> => pc[c] \in Gone

(* A process has a status once it has called exit, and not before it loads. *)
CodeWhenExiting ==
    \A t \in Tids :
        /\ pc[t] \in {"unborn", "load"} => code[t] = None
        /\ pc[t] \in {"record", "status"} => code[t] \in Codes

(* A call that names a thread names one that exists. *)
OtherNamed ==
    \A p \in Tids : pc[p] \in {"mark", "down"} => other[p] \in Tids

Inv ==
    /\ TypeOK
    /\ TidsInOrder
    /\ Listed
    /\ ParentAwaitsLoad
    /\ Handshake
    /\ EntriesTell
    /\ CodeWhenExiting
    /\ OtherNamed

-----------------------------------------------------------------------------
(* Only the main thread exists at first, and it runs. *)
LEMMA InitInv == Init => Inv
BY MaxTidAssumption, NoneAssumption
   DEF Init, Inv, TypeOK, TidsInOrder, Listed, ParentAwaitsLoad, Handshake,
       EntriesTell, CodeWhenExiting, OtherNamed, NewEntry, ChildProcess, Tids, Root,
       Points, Exiting

(* sema_up and sema_down on an entry keep its type. *)
LEMMA SemaType ==
    ASSUME NEW e \in ChildProcess
    PROVE  /\ [e EXCEPT !.sema = e.sema + 1] \in ChildProcess
           /\ e.sema > 0 =>
                [e EXCEPT !.sema = e.sema - 1, !.exited = TRUE] \in ChildProcess
<1>1. e.sema + 1 \in Nat /\ (e.sema > 0 => e.sema - 1 \in Nat)
  BY DEF ChildProcess
<1> QED
  BY <1>1 DEF ChildProcess

(* The history keeps being a sequence of statuses. *)
LEMMA AnsweredType ==
    ASSUME TypeOK, NEW c \in Tids, NEW status \in Int, Answered(c, status)
    PROVE  answers' \in [Tids -> Seq(Int)]
<1>1. Append(answers[c], status) \in Seq(Int)
  BY DEF TypeOK
<1> QED
  BY <1>1 DEF Answered, TypeOK

(* Every step of exec, wait and exit keeps the variables in their types. *)
LEMMA TypeStep == Inv /\ [Next]_vars => TypeOK'
<1> SUFFICES ASSUME Inv, [Next]_vars PROVE TypeOK'
  OBVIOUS
<1>1. CASE UNCHANGED vars
  BY <1>1 DEF vars, Inv, TypeOK
<1>2. ASSUME NEW t \in Tids, Kernel(t) \/ User(t) \/ NotifyAstray(t) PROVE TypeOK'
  <2> USE DEF Inv, TypeOK, Goto, Points, Exiting
  <2>1. CASE StartProcess(t)
    <3>1. thread_find(parent[t]) \in Tids
      BY <2>1 DEF StartProcess, thread_find, ParentAwaitsLoad
    <3>2. exec_sema' \in [Tids -> Nat]
      BY <2>1, <3>1 DEF StartProcess
    <3>3. child_status' \in [Tids -> {-1, 0, 1}] /\ pc' \in [Tids -> Points]
      BY <2>1, <3>1 DEF StartProcess
    <3> QED
      BY <2>1, <3>2, <3>3 DEF StartProcess
  <2>2. CASE ExecWakes(t)
    BY <2>2 DEF ExecWakes
  <2>3. CASE ExecReturns(t)
    <3>1. other[t] \in Tids
      BY <2>3 DEF ExecReturns, Handshake, Reported
    <3>2. NewEntry \in ChildProcess
      BY DEF NewEntry, ChildProcess
    <3>3. children' \in [Tids -> SUBSET Tids]
      <4>1. children[t] \cup {other[t]} \in SUBSET Tids
        BY <3>1
      <4> QED
        BY <2>3, <4>1 DEF ExecReturns
    <3>4. entry' \in [Tids -> ChildProcess]
      BY <2>3, <3>1, <3>2 DEF ExecReturns
    <3> QED
      BY <2>3, <3>3, <3>4 DEF ExecReturns
  <2>4. CASE ExitRecord(t)
    <3>1. [entry[t] EXCEPT !.exited = TRUE] \in ChildProcess
      BY DEF ChildProcess
    <3>2. pc' \in [Tids -> Points]
      BY <2>4 DEF ExitRecord
    <3>3. entry' \in [Tids -> ChildProcess]
      BY <2>4, <3>1 DEF ExitRecord
    <3> QED
      BY <2>4, <3>2, <3>3 DEF ExitRecord
  <2>5. CASE ExitStatus(t)
    BY <2>5, CodesAssumption DEF ExitStatus, ChildProcess, CodeWhenExiting
  <2>6. CASE ProcessExit(t)
    BY <2>6 DEF ProcessExit
  <2>7. CASE Unlist(t)
    BY <2>7 DEF Unlist
  <2>8. CASE Notify(t)
    <3>1. [entry[t] EXCEPT !.sema = entry[t].sema + 1] \in ChildProcess
      BY SemaType
    <3>2. entry' \in [Tids -> ChildProcess]
      BY <2>8, <3>1 DEF Notify
    <3> QED
      BY <2>8, <3>2 DEF Notify
  <2>9. CASE WaitMark(t)
    BY <2>9 DEF WaitMark, ChildProcess, OtherNamed
  <2>10. CASE WaitWakes(t)
    <3>1. other[t] \in Tids
      BY <2>10 DEF WaitWakes, OtherNamed
    <3>2. [entry[other[t]] EXCEPT !.sema = entry[other[t]].sema - 1,
                                  !.exited = TRUE] \in ChildProcess
      BY <2>10, <3>1, SemaType DEF WaitWakes
    <3>3. entry' \in [Tids -> ChildProcess]
      BY <2>10, <3>1, <3>2 DEF WaitWakes
    <3>4. answers' \in [Tids -> Seq(Int)]
      BY <2>10, <3>1, AnsweredType DEF WaitWakes, ChildProcess
    <3> QED
      BY <2>10, <3>1, <3>3, <3>4 DEF WaitWakes
  <2>11. CASE Exec(t)
    <3>1. pc' \in [Tids -> Points] /\ other' \in [Tids -> Tids \cup {None}]
      BY <2>11 DEF Exec
    <3>2. parent' \in [Tids -> Tids \cup {None}] /\ all_list' \subseteq Tids
      BY <2>11 DEF Exec
    <3>3. next_tid' \in Nat
      BY <2>11 DEF Exec
    <3>4. child_status' \in [Tids -> {-1, 0, 1}]
      BY <2>11 DEF Exec
    <3> QED
      BY <2>11, <3>1, <3>2, <3>3, <3>4 DEF Exec
  <2>12. CASE ExecNoThread(t)
    BY <2>12 DEF ExecNoThread
  <2>13. CASE WaitExited(t)
    <3>1. PICK c \in Tids : Answered(c, entry[c].exit_status)
      BY <2>13 DEF WaitExited
    <3>2. answers' \in [Tids -> Seq(Int)]
      BY <3>1, AnsweredType DEF ChildProcess
    <3> QED
      BY <2>13, <3>2 DEF WaitExited
  <2>14. CASE WaitCheck(t)
    BY <2>14 DEF WaitCheck
  <2>15. CASE Exit(t)
    BY <2>15 DEF Exit, thread_find
  <2>16. CASE Kill(t)
    BY <2>16 DEF Kill
  <2>17. CASE NotifyAstray(t)
    BY <2>17 DEF NotifyAstray
  <2> QED
    BY <1>2, <2>1, <2>2, <2>3, <2>4, <2>5, <2>6, <2>7, <2>8, <2>9, <2>10, <2>11, <2>12, <2>13, <2>14, <2>15, <2>16, <2>17
       DEF Kernel, User
<1> QED
  BY <1>1, <1>2 DEF Next

-----------------------------------------------------------------------------
(* Steps of a thread outside the load handshake leave the handshakes of all *)
(* threads alone, that of the child with its parent included.               *)
LEMMA QuietStep ==
    ASSUME Inv, TypeOK', NEW t \in Tids, NEW b,
           pc' = [pc EXCEPT ![t] = b],
           pc[t] \notin {"unborn", "load", "exec", "register"},
           b \notin {"unborn", "load", "exec", "register"},
           pc[t] \in {"exit", "unlist", "notify", "dead"} =>
               b \in {"exit", "unlist", "notify", "dead"} /\ code'[t] = code[t],
           UNCHANGED <<next_tid, parent, exec_sema, child_status>>,
           all_list' = all_list \/ all_list' = all_list \ {t},
           \A u \in Tids : u # t => other'[u] = other[u] /\ code'[u] = code[u]
    PROVE  TidsInOrder' /\ ParentAwaitsLoad' /\ Handshake'
<1> USE DEF Inv, TypeOK
<1>1. pc'[t] = b /\ \A u \in Tids : u # t => pc'[u] = pc[u]
  OBVIOUS
<1>2. TidsInOrder'
  BY <1>1 DEF TidsInOrder
<1>3. ParentAwaitsLoad'
  <2> SUFFICES ASSUME NEW c \in Tids, pc'[c] = "load"
               PROVE  /\ parent'[c] \in all_list'
                      /\ pc'[parent'[c]] = "exec"
                      /\ other'[parent'[c]] = c
    BY DEF ParentAwaitsLoad
  <2>1. pc[c] = "load"
    BY <1>1
  <2>2. /\ parent[c] \in all_list
        /\ pc[parent[c]] = "exec"
        /\ other[parent[c]] = c
    BY <2>1 DEF ParentAwaitsLoad
  <2>3. parent[c] \in Tids /\ parent[c] # t
    BY <2>2
  <2> QED
    BY <1>1, <2>2, <2>3
<1>4. Handshake'
  <2>1. \A p \in Tids : p # t /\ Reported(p) => Reported(p)'
    BY <1>1 DEF Reported
  <2>2. \A p \in Tids : p # t /\ other[p] \in Tids /\ pc[other[p]] = "load" =>
            pc'[other[p]] = "load"
    BY <1>1
  <2>3. exec_sema[t] = 0
    BY DEF Handshake
  <2> QED
    BY <1>1, <2>1, <2>2, <2>3 DEF Handshake
<1> QED
  BY <1>2, <1>3, <1>4

(* Every step of exec, wait and exit preserves the inductive invariant. *)
LEMMA InvStep == Inv /\ [Next]_vars => Inv'
<1> SUFFICES ASSUME Inv, [Next]_vars PROVE Inv'
  OBVIOUS
<1>t. TypeOK'
  BY TypeStep
<1>1. CASE UNCHANGED vars
  BY <1>1, <1>t
     DEF vars, Inv, TidsInOrder, Listed, ParentAwaitsLoad, Handshake, Reported,
         EntriesTell, CodeWhenExiting, OtherNamed
<1>2. ASSUME NEW t \in Tids, Kernel(t) \/ User(t) \/ NotifyAstray(t) PROVE Inv'
  <2> USE <1>t DEF Inv, TypeOK, Goto
  <2>1. CASE Exec(t)
    <3>1. next_tid \in Tids /\ pc[next_tid] = "unborn" /\ t # next_tid
      BY <2>1 DEF Exec, TidsInOrder
    <3>2. pc' = [pc EXCEPT ![t] = "exec", ![next_tid] = "load"]
      BY <2>1 DEF Exec
    <3>3. \A u \in Tids : u # t /\ u # next_tid =>
              pc'[u] = pc[u] /\ other'[u] = other[u] /\ parent'[u] = parent[u]
      BY <2>1, <3>1, <3>2 DEF Exec
    <3>4. /\ pc'[t] = "exec" /\ pc'[next_tid] = "load"
          /\ other'[t] = next_tid /\ other'[next_tid] = other[next_tid]
          /\ parent'[next_tid] = t /\ parent'[t] = parent[t]
      BY <2>1, <3>1, <3>2 DEF Exec
    <3>5. TidsInOrder'
      BY <2>1, <3>1, <3>3, <3>4 DEF Exec, TidsInOrder, Tids
    <3>6. Listed'
      BY <2>1, <3>1, <3>3, <3>4 DEF Exec, Listed
    <3>7. ParentAwaitsLoad'
      <4> SUFFICES ASSUME NEW c \in Tids, pc'[c] = "load"
                   PROVE  /\ parent'[c] \in all_list'
                          /\ pc'[parent'[c]] = "exec"
                          /\ other'[parent'[c]] = c
        BY DEF ParentAwaitsLoad
      <4>1. CASE c = next_tid
        BY <2>1, <3>1, <3>4, <3>6, <4>1 DEF Listed
      <4>2. CASE c # next_tid
        <5>1. c # t /\ pc[c] = "load" /\ parent'[c] = parent[c]
          BY <3>3, <3>4, <4>2
        <5>2. /\ parent[c] \in all_list
              /\ pc[parent[c]] = "exec"
              /\ other[parent[c]] = c
          BY <5>1 DEF ParentAwaitsLoad
        <5>3. parent[c] \in Tids /\ parent[c] # t /\ parent[c] # next_tid
          BY <2>1, <3>1, <5>2 DEF Exec
        <5> QED
          BY <2>1, <3>3, <5>1, <5>2, <5>3 DEF Exec
      <4> QED
        BY <4>1, <4>2
    <3>8. Handshake'
      <4> SUFFICES ASSUME NEW p \in Tids
                   PROVE  (/\ pc[p] = "exec" =>
                                \/ other[p] = None /\ exec_sema[p] = 0
                                \/ /\ other[p] \in Tids
                                   /\ pc[other[p]] = "load"
                                   /\ parent[other[p]] = p
                                   /\ exec_sema[p] = 0
                                \/ Reported(p) /\ exec_sema[p] = 1
                           /\ pc[p] = "register" => Reported(p)
                           /\ pc[p] # "exec" => exec_sema[p] = 0)'
        BY DEF Handshake
      <4>1. CASE p = t
        BY <2>1, <3>1, <3>4, <4>1 DEF Exec, Handshake
      <4>2. CASE p = next_tid
        BY <2>1, <3>1, <3>4, <4>2 DEF Exec, Handshake
      <4>3. CASE p # t /\ p # next_tid
        <5>1. other[p] \in Tids /\ pc[other[p]] \notin {"unborn", "run"} =>
                 pc'[other[p]] = pc[other[p]] /\ parent'[other[p]] = parent[other[p]]
          BY <2>1, <3>1, <3>3 DEF Exec
        <5>2. Reported(p) => Reported(p)'
          BY <2>1, <3>1, <3>2, <3>3, <3>4, <4>3 DEF Exec, Reported
        <5> QED
          BY <2>1, <3>3, <4>3, <5>1, <5>2 DEF Exec, Handshake
      <4> QED
        BY <4>1, <4>2, <4>3
    <3>9. EntriesTell'
      <4>1. entry' = entry /\ answers' = answers
        BY <2>1 DEF Exec
      <4>2. \A u \in Tids : pc[u] \in Gone => pc'[u] = pc[u]
        BY <2>1, <3>1, <3>3 DEF Exec, Gone
      <4> QED
        BY <4>1, <4>2 DEF EntriesTell, Gone
    <3>10. CodeWhenExiting' /\ OtherNamed'
      BY <2>1, <3>1, <3>3, <3>4 DEF Exec, CodeWhenExiting, OtherNamed
    <3> QED
      BY <3>5, <3>6, <3>7, <3>8, <3>9, <3>10
  <2>q. ASSUME NEW b, pc' = [pc EXCEPT ![t] = b],
               pc[t] \notin {"unborn", "load", "exec", "register"},
               b \notin {"unborn", "load", "exec", "register"},
               pc[t] \in {"exit", "unlist", "notify", "dead"} =>
                   b \in {"exit", "unlist", "notify", "dead"} /\ code'[t] = code[t],
               UNCHANGED <<next_tid, parent, exec_sema, child_status>>,
               all_list' = all_list \/ all_list' = all_list \ {t},
               \A u \in Tids : u # t => other'[u] = other[u] /\ code'[u] = code[u],
               Listed', EntriesTell', CodeWhenExiting', OtherNamed'
        PROVE  Inv'
    BY <2>q, QuietStep
  <2>2. CASE Exit(t)
    <3>1. Listed' /\ EntriesTell' /\ CodeWhenExiting' /\ OtherNamed'
      BY <2>2 DEF Exit, Listed, EntriesTell, Gone, CodeWhenExiting, OtherNamed
    <3> QED
      BY <2>2, <3>1, <2>q DEF Exit
  <2>3. CASE Kill(t)
    <3>1. Listed' /\ EntriesTell' /\ CodeWhenExiting' /\ OtherNamed'
      BY <2>3 DEF Kill, Listed, EntriesTell, Gone, CodeWhenExiting, OtherNamed
    <3> QED
      BY <2>3, <3>1, <2>q DEF Kill
  <2>4. CASE ExitRecord(t)
    <3>1. PICK b \in {"status", "exit"} : pc' = [pc EXCEPT ![t] = b]
      BY <2>4 DEF ExitRecord
    <3>2. \A u \in Tids : /\ entry'[u].sema = entry[u].sema
                          /\ u # t => entry'[u] = entry[u]
      <4>1. entry' = [entry EXCEPT ![t].exited = TRUE] \/ entry' = entry
        BY <2>4 DEF ExitRecord
      <4>2. CASE entry' = [entry EXCEPT ![t].exited = TRUE]
        BY <4>2 DEF ChildProcess
      <4> QED
        BY <4>1, <4>2
    <3>3. UNCHANGED <<next_tid, parent, all_list, exec_sema, child_status, other,
                      code, answers>> /\ pc[t] = "record"
      BY <2>4 DEF ExitRecord
    <3>4. Listed' /\ CodeWhenExiting' /\ OtherNamed'
      BY <3>1, <3>3 DEF Listed, CodeWhenExiting, OtherNamed
    <3>5. EntriesTell'
      BY <3>1, <3>2, <3>3 DEF EntriesTell, Gone
    <3> QED
      BY <3>1, <3>3, <3>4, <3>5, <2>q
  <2>5. CASE ExitStatus(t)
    <3>1. Listed' /\ CodeWhenExiting' /\ OtherNamed'
      BY <2>5 DEF ExitStatus, Listed, CodeWhenExiting, OtherNamed
    <3>2. EntriesTell'
      BY <2>5 DEF ExitStatus, EntriesTell, Gone, ChildProcess
    <3> QED
      BY <2>5, <3>1, <3>2, <2>q DEF ExitStatus
  <2>6. CASE ProcessExit(t)
    <3>1. Listed' /\ CodeWhenExiting' /\ OtherNamed'
      BY <2>6 DEF ProcessExit, Listed, CodeWhenExiting, OtherNamed
    <3>2. EntriesTell'
      BY <2>6 DEF ProcessExit, EntriesTell, Gone
    <3> QED
      BY <2>6, <3>1, <3>2, <2>q DEF ProcessExit
  <2>7. CASE Unlist(t)
    <3>1. Listed' /\ CodeWhenExiting' /\ OtherNamed'
      BY <2>7 DEF Unlist, Listed, CodeWhenExiting, OtherNamed
    <3>2. EntriesTell'
      BY <2>7 DEF Unlist, EntriesTell, Gone
    <3> QED
      BY <2>7, <3>1, <3>2, <2>q DEF Unlist
  <2>8. CASE Notify(t)
    <3>1. Listed' /\ CodeWhenExiting' /\ OtherNamed'
      BY <2>8 DEF Notify, Listed, CodeWhenExiting, OtherNamed
    <3>2. EntriesTell'
      BY <2>8 DEF Notify, EntriesTell, Gone, ChildProcess
    <3> QED
      BY <2>8, <3>1, <3>2, <2>q DEF Notify
  <2>9. CASE WaitCheck(t)
    <3>1. Listed' /\ CodeWhenExiting' /\ OtherNamed'
      BY <2>9 DEF WaitCheck, Listed, CodeWhenExiting, OtherNamed
    <3>2. EntriesTell'
      BY <2>9 DEF WaitCheck, EntriesTell, Gone
    <3> QED
      BY <2>9, <3>1, <3>2, <2>q DEF WaitCheck
  <2>10. CASE WaitMark(t)
    <3>1. Listed' /\ CodeWhenExiting' /\ OtherNamed'
      BY <2>10 DEF WaitMark, Listed, CodeWhenExiting, OtherNamed
    <3>2. EntriesTell'
      BY <2>10 DEF WaitMark, EntriesTell, Gone, ChildProcess
    <3> QED
      BY <2>10, <3>1, <3>2, <2>q DEF WaitMark
  <2>11. CASE NotifyAstray(t)
    BY <2>11
       DEF NotifyAstray, TidsInOrder, Listed, ParentAwaitsLoad, Handshake, Reported,
           EntriesTell, CodeWhenExiting, OtherNamed
  <2>12. CASE WaitExited(t)
    <3>1. PICK c \in Tids : entry[c].exited /\ Answered(c, entry[c].exit_status)
      BY <2>12 DEF WaitExited
    <3>2. EntriesTell'
      <4>1. \A u \in Tids : u # c => answers'[u] = answers[u]
        BY <3>1 DEF Answered
      <4> QED
        BY <2>12, <3>1, <4>1 DEF WaitExited, EntriesTell
    <3> QED
      BY <2>12, <3>2
         DEF WaitExited, TidsInOrder, Listed, ParentAwaitsLoad, Handshake, Reported,
             CodeWhenExiting, OtherNamed
  <2>13. CASE WaitWakes(t)
    <3>1. other[t] \in Tids /\ pc[other[t]] = "dead" /\ other[t] # t
      BY <2>13 DEF WaitWakes, OtherNamed, EntriesTell
    <3>2. \A u \in Tids : u # other[t] => answers'[u] = answers[u] /\ entry'[u] = entry[u]
      BY <2>13, <3>1 DEF WaitWakes, Answered
    <3>3. EntriesTell'
      BY <2>13, <3>1, <3>2 DEF WaitWakes, EntriesTell, Gone
    <3>4. Listed' /\ CodeWhenExiting' /\ OtherNamed'
      BY <2>13 DEF WaitWakes, Listed, CodeWhenExiting, OtherNamed
    <3> QED
      BY <2>13, <3>3, <3>4, <2>q DEF WaitWakes
  <2>14. CASE ExecNoThread(t)
    <3>1. Listed' /\ EntriesTell' /\ CodeWhenExiting' /\ OtherNamed' /\ TidsInOrder'
      BY <2>14
         DEF ExecNoThread, Listed, EntriesTell, Gone, CodeWhenExiting, OtherNamed,
             TidsInOrder
    <3>2. pc'[t] = "exec" /\ \A u \in Tids : u # t => pc'[u] = pc[u] /\ other'[u] = other[u]
      BY <2>14 DEF ExecNoThread
    <3>3. ParentAwaitsLoad'
      BY <2>14, <3>2 DEF ExecNoThread, ParentAwaitsLoad
    <3>4. \A p \in Tids : p # t /\ Reported(p) => Reported(p)'
      BY <2>14, <3>2 DEF ExecNoThread, Reported
    <3>5. Handshake'
      <4>1. \A p \in Tids : p # t => child_status'[p] = child_status[p]
        BY <2>14 DEF ExecNoThread
      <4>2. \A u \in Tids : pc[u] = "load" => pc'[u] = "load"
        BY <2>14, <3>2 DEF ExecNoThread
      <4> QED
        BY <2>14, <3>2, <3>4, <4>1, <4>2 DEF ExecNoThread, Handshake
    <3> QED
      BY <3>1, <3>3, <3>5
  <2>15. CASE ExecWakes(t)
    <3>1. Listed' /\ EntriesTell' /\ CodeWhenExiting' /\ OtherNamed' /\ TidsInOrder'
      BY <2>15
         DEF ExecWakes, Listed, EntriesTell, Gone, CodeWhenExiting, OtherNamed,
             TidsInOrder
    <3>2. pc'[t] = "register" /\ \A u \in Tids : u # t => pc'[u] = pc[u]
      BY <2>15 DEF ExecWakes
    <3>3. exec_sema[t] = 1 /\ Reported(t)
      <4>1. pc[t] = "exec" /\ exec_sema[t] # 0
        BY <2>15 DEF ExecWakes
      <4> QED
        BY <4>1 DEF Handshake
    <3>4. \A p \in Tids : Reported(p) => Reported(p)'
      BY <2>15, <3>2 DEF ExecWakes, Reported
    <3>5. ParentAwaitsLoad'
      BY <2>15, <3>2, <3>3 DEF ExecWakes, ParentAwaitsLoad, Reported
    <3>6. Handshake'
      <4>1. \A u \in Tids : pc[u] = "load" => pc'[u] = "load"
        BY <2>15, <3>2 DEF ExecWakes
      <4>2. exec_sema'[t] = 0 /\ \A p \in Tids : p # t => exec_sema'[p] = exec_sema[p]
        BY <2>15, <3>3 DEF ExecWakes
      <4> QED
        BY <2>15, <3>2, <3>3, <3>4, <4>1, <4>2 DEF ExecWakes, Handshake
    <3> QED
      BY <3>1, <3>5, <3>6
  <2>16. CASE ExecReturns(t)
    <3>1. Listed' /\ CodeWhenExiting' /\ OtherNamed' /\ TidsInOrder'
      BY <2>16
         DEF ExecReturns, Listed, CodeWhenExiting, OtherNamed, TidsInOrder
    <3>2. pc'[t] = "run" /\ \A u \in Tids : u # t => pc'[u] = pc[u] /\ other'[u] = other[u]
      BY <2>16 DEF ExecReturns
    <3>3. EntriesTell'
      <4>1. \A u \in Tids : entry'[u] = entry[u] \/ entry'[u] = NewEntry
        BY <2>16 DEF ExecReturns
      <4>2. answers' = answers /\ pc[t] = "register"
        BY <2>16 DEF ExecReturns
      <4>3. ~NewEntry.exited /\ NewEntry.sema = 0
        BY DEF NewEntry
      <4>4. \A u \in Tids : pc[u] \in Gone => pc'[u] = pc[u]
        BY <3>2, <4>2 DEF Gone
      <4>5. \A u \in Tids : /\ entry'[u].exited => entry[u].exited
                            /\ entry'[u].sema > 0 => entry[u].sema > 0
        <5> TAKE u \in Tids
        <5>1. CASE entry'[u] = entry[u]
          BY <5>1
        <5>2. CASE entry'[u] = NewEntry
          BY <4>3, <5>2
        <5> QED
          BY <4>1, <5>1, <5>2
      <4> QED
        BY <4>2, <4>4, <4>5 DEF EntriesTell, Gone
    <3>4. \A p \in Tids : p # t /\ Reported(p) => Reported(p)'
      BY <2>16, <3>2 DEF ExecReturns, Reported
    <3>5. ParentAwaitsLoad'
      BY <2>16, <3>2 DEF ExecReturns, ParentAwaitsLoad
    <3>6. Handshake'
      <4>1. \A u \in Tids : pc[u] = "load" => pc'[u] = "load"
        BY <2>16, <3>2 DEF ExecReturns
      <4> QED
        BY <2>16, <3>2, <3>4, <4>1 DEF ExecReturns, Handshake
    <3> QED
      BY <3>1, <3>3, <3>5, <3>6
  <2>17. CASE StartProcess(t)
    <3>1. /\ parent[t] \in all_list /\ thread_find(parent[t]) = parent[t]
          /\ parent[t] \in Tids /\ parent[t] # t
          /\ pc[parent[t]] = "exec" /\ other[parent[t]] = t
      BY <2>17 DEF StartProcess, ParentAwaitsLoad, thread_find
    <3>2. exec_sema[parent[t]] = 0
      BY <2>17, <3>1, NoneAssumption DEF StartProcess, Handshake, Reported, Tids
    <3>3. PICK s \in {1, -1} :
            /\ child_status' = [child_status EXCEPT ![parent[t]] = s]
            /\ pc' = [pc EXCEPT ![t] = IF s = 1 THEN "run" ELSE "exit"]
      BY <2>17, <3>1 DEF StartProcess
    <3>4. exec_sema' = [exec_sema EXCEPT ![parent[t]] = exec_sema[parent[t]] + 1]
      BY <2>17, <3>1 DEF StartProcess
    <3>5. /\ UNCHANGED <<next_tid, parent, all_list, entry, other, code, answers>>
          /\ pc[t] = "load"
      BY <2>17 DEF StartProcess
    <3>6. Listed' /\ CodeWhenExiting' /\ OtherNamed' /\ TidsInOrder' /\ EntriesTell'
      BY <3>3, <3>5 DEF Listed, CodeWhenExiting, OtherNamed, TidsInOrder,
                        EntriesTell, Gone
    <3>7. ParentAwaitsLoad'
      BY <3>1, <3>3, <3>5 DEF ParentAwaitsLoad
    <3>8. \A p \in Tids : p # parent[t] /\ Reported(p) => Reported(p)'
      BY <3>1, <3>3, <3>5 DEF Reported
    <3>9. Reported(parent[t])'
      BY <3>1, <3>3, <3>5 DEF Reported, CodeWhenExiting
    <3>10. Handshake'
      <4> SUFFICES ASSUME NEW p \in Tids
                   PROVE  (/\ pc[p] = "exec" =>
                                \/ other[p] = None /\ exec_sema[p] = 0
                                \/ /\ other[p] \in Tids
                                   /\ pc[other[p]] = "load"
                                   /\ parent[other[p]] = p
                                   /\ exec_sema[p] = 0
                                \/ Reported(p) /\ exec_sema[p] = 1
                           /\ pc[p] = "register" => Reported(p)
                           /\ pc[p] # "exec" => exec_sema[p] = 0)'
        BY DEF Handshake
      <4>1. CASE p = parent[t]
        <5>1. exec_sema'[p] = 1 /\ pc'[p] = "exec"
          BY <3>1, <3>2, <3>3, <3>4, <4>1
        <5>2. Reported(p)'
          BY <3>5, <3>9, <4>1 DEF Reported
        <5> QED
          BY <5>1, <5>2
      <4>2. CASE p # parent[t]
        <5>1. exec_sema'[p] = exec_sema[p] /\ other'[p] = other[p]
          BY <3>4, <3>5, <4>2
        <5>2. pc'[p] \in {"exec", "register"} => pc[p] = pc'[p]
          BY <3>3
        <5>3. pc[p] = "exec" => pc'[p] = "exec"
          BY <3>3, <3>5
        <5>4. other[p] \in Tids /\ parent[other[p]] = p /\ pc[other[p]] = "load"
                 => pc'[other[p]] = "load"
          BY <3>3, <4>2
        <5> QED
          BY <3>5, <3>8, <4>2, <5>1, <5>2, <5>3, <5>4 DEF Handshake
      <4> QED
        BY <4>1, <4>2
    <3> QED
      BY <3>6, <3>7, <3>10
  <2> QED
    BY <1>2, <2>1, <2>2, <2>3, <2>4, <2>5, <2>6, <2>7, <2>8, <2>9, <2>10, <2>11,
       <2>12, <2>13, <2>14, <2>15, <2>16, <2>17 DEF Kernel, User
<1> QED
  BY <1>1, <1>2 DEF Next

(* No execution of exec, wait and exit leaves the inductive invariant. *)
THEOREM InvHolds == Spec => []Inv
  BY InitInv, InvStep, PTL DEF Spec

(* The type invariant of the process layer, for every instance. *)
THEOREM TypeCorrect == Spec => []TypeOK
<1>1. Inv => TypeOK
  BY DEF Inv
<1> QED
  BY <1>1, InvHolds, PTL

(* exec learns the outcome of the load of its own child, never an earlier  *)
(* one's, whatever other threads do meanwhile.                             *)
THEOREM LoadHandshake == Spec => []ExecReportsLoad
<1>1. Inv => ExecReportsLoad
  BY NoneAssumption DEF Inv, Handshake, Reported, ExecReportsLoad, Exiting, Tids
<1> QED
  BY <1>1, InvHolds, PTL

(* exec_sema is down whenever a new exec starts to wait on it: the signal  *)
(* of an earlier child is never left over.                                 *)
THEOREM NoSignalLeftOver == Spec => []NoStaleLoadSignal
<1>1. Inv => NoStaleLoadSignal
  BY DEF Inv, TypeOK, Handshake, Reported, NoStaleLoadSignal
<1> QED
  BY <1>1, InvHolds, PTL

(* The parent start_process looks up is asleep in process_execute. *)
THEOREM ParentIsThere == Spec => []ParentAwaitsLoad
<1>1. Inv => ParentAwaitsLoad
  BY DEF Inv
<1> QED
  BY <1>1, InvHolds, PTL

(* process_wait never returns a status for a process that is still running. *)
THEOREM NoAnswerWhileRunning == Spec => []WaitMeansGone
<1>1. Inv => WaitMeansGone
  BY DEF Inv, EntriesTell, Gone, WaitMeansGone, Exiting
<1> QED
  BY <1>1, InvHolds, PTL
-----------------------------------------------------------------------------
(* Where the answers of process_wait come from. *)

(* Entries are on the list of the parent that made them, and a call is about *)
(* a thread its caller created: one that is on its list, in process_wait.    *)
Family ==
    /\ \A p \in Tids : \A c \in children[p] : parent[c] = p /\ pc[c] # "unborn"
    /\ \A p \in Tids :
          pc[p] \in {"exec", "register", "mark", "down"} /\ other[p] \in Tids =>
              parent[other[p]] = p /\ pc[other[p]] # "unborn"
    /\ \A p \in Tids : pc[p] \in {"mark", "down"} => other[p] \in children[p]

(* The points before exit has stored the status. *)
Unstored == Points \ {"exit", "unlist", "notify", "dead"}

(* An entry holds the 0 it was made with or the status of its process, and *)
(* the latter once it says exited and the process is past its second store. *)
StatusTold ==
    \A c \in Tids :
        /\ entry[c].exit_status = 0 \/ entry[c].exit_status = code[c]
        /\ pc[c] \in Unstored => entry[c].exit_status = 0
        /\ entry[c].exited /\ pc[c] # "status" /\ (\E p \in Tids : c \in children[p])
              => entry[c].exit_status = code[c]

(* The lists of children and the calls in progress stay within families. *)
LEMMA FamilyStep == Inv /\ Family /\ [Next]_vars => Family'
<1> SUFFICES ASSUME Inv, Family, [Next]_vars PROVE Family'
  OBVIOUS
<1>t. TypeOK'
  BY TypeStep
<1>1. CASE UNCHANGED vars
  BY <1>1 DEF vars, Family
<1>2. ASSUME NEW t \in Tids, Kernel(t) \/ User(t) \/ NotifyAstray(t) PROVE Family'
  <2> USE <1>t DEF Inv, TypeOK, Goto
  <2>q. ASSUME NEW b, pc' = [pc EXCEPT ![t] = b], b # "unborn",
               parent' = parent,
               \A p \in Tids : p # t => children'[p] = children[p] /\ other'[p] = other[p],
               \A c \in children'[t] : parent[c] = t /\ pc[c] # "unborn",
               b \in {"exec", "register", "mark", "down"} /\ other'[t] \in Tids =>
                   parent[other'[t]] = t /\ pc[other'[t]] # "unborn",
               b \in {"mark", "down"} => other'[t] \in children'[t]
        PROVE  Family'
    <3>1. pc'[t] = b /\ \A u \in Tids : u # t => pc'[u] = pc[u]
      BY <2>q
    <3>2. \A u \in Tids : pc[u] # "unborn" => pc'[u] # "unborn"
      BY <2>q, <3>1
    <3>3. ASSUME NEW p \in Tids, NEW c \in children'[p]
          PROVE  parent'[c] = p /\ pc'[c] # "unborn"
      BY <2>q, <3>2, <3>3 DEF Family
    <3>4. ASSUME NEW p \in Tids, pc'[p] \in {"exec", "register", "mark", "down"},
                 other'[p] \in Tids
          PROVE  parent'[other'[p]] = p /\ pc'[other'[p]] # "unborn"
      BY <2>q, <3>1, <3>2, <3>4 DEF Family
    <3>5. ASSUME NEW p \in Tids, pc'[p] \in {"mark", "down"}
          PROVE  other'[p] \in children'[p]
      BY <2>q, <3>1, <3>5 DEF Family
    <3> QED
      BY <3>3, <3>4, <3>5 DEF Family
  <2>1. CASE StartProcess(t)
    <3>1. PICK b \in {"run", "exit"} : pc' = [pc EXCEPT ![t] = b]
      BY <2>1 DEF StartProcess
    <3> QED
      BY <2>1, <3>1, <2>q DEF StartProcess, Family
  <2>2. CASE ExecWakes(t)
    BY <2>2, <2>q DEF ExecWakes, Family
  <2>3. CASE ExecReturns(t)
    <3>1. other[t] \in Tids /\ parent[other[t]] = t /\ pc[other[t]] # "unborn"
      BY <2>3 DEF ExecReturns, Handshake, Reported, Family
    <3>2. children' = [children EXCEPT ![t] = @ \cup {other[t]}] \/ children' = children
      BY <2>3 DEF ExecReturns
    <3>3. \A c \in children'[t] : parent[c] = t /\ pc[c] # "unborn"
      BY <3>1, <3>2 DEF Family
    <3>4. \A p \in Tids : p # t => children'[p] = children[p] /\ other'[p] = other[p]
      BY <2>3, <3>2 DEF ExecReturns
    <3> QED
      BY <2>3, <3>3, <3>4, <2>q DEF ExecReturns
  <2>4. CASE ExitRecord(t)
    <3>1. PICK b \in {"status", "exit"} : pc' = [pc EXCEPT ![t] = b]
      BY <2>4 DEF ExitRecord
    <3> QED
      BY <2>4, <3>1, <2>q DEF ExitRecord, Family
  <2>5. CASE ExitStatus(t)
    BY <2>5, <2>q DEF ExitStatus, Family
  <2>6. CASE ProcessExit(t)
    BY <2>6, <2>q DEF ProcessExit, Family
  <2>7. CASE Unlist(t)
    BY <2>7, <2>q DEF Unlist, Family
  <2>8. CASE Notify(t)
    BY <2>8, <2>q DEF Notify, Family
  <2>9. CASE WaitMark(t)
    BY <2>9, <2>q DEF WaitMark, Family
  <2>10. CASE WaitWakes(t)
    BY <2>10, <2>q DEF WaitWakes, Family
  <2>11. CASE Exec(t)
    <3>1. next_tid \in Tids /\ pc[next_tid] = "unborn" /\ t # next_tid
      BY <2>11 DEF Exec, TidsInOrder
    <3>2. /\ pc'[t] = "exec" /\ pc'[next_tid] = "load"
          /\ other'[t] = next_tid /\ parent'[next_tid] = t
          /\ children' = children
      BY <2>11, <3>1 DEF Exec
    <3>3. \A u \in Tids : u # t /\ u # next_tid =>
              pc'[u] = pc[u] /\ other'[u] = other[u] /\ parent'[u] = parent[u]
      BY <2>11, <3>1 DEF Exec
    <3>4. parent'[t] = parent[t] /\ pc[t] # "unborn"
      BY <2>11, <3>1 DEF Exec
    <3>5. \A u \in Tids : pc[u] # "unborn" => parent'[u] = parent[u] /\ pc'[u] # "unborn"
      BY <3>1, <3>2, <3>3, <3>4
    <3>6. ASSUME NEW p \in Tids, NEW c \in children'[p]
          PROVE  parent'[c] = p /\ pc'[c] # "unborn"
      BY <3>2, <3>5, <3>6 DEF Family
    <3>7. ASSUME NEW p \in Tids, pc'[p] \in {"exec", "register", "mark", "down"},
                 other'[p] \in Tids
          PROVE  parent'[other'[p]] = p /\ pc'[other'[p]] # "unborn"
      <4>1. CASE p = t
        BY <3>2, <4>1
      <4>2. CASE p # t
        <5>1. pc[p] = pc'[p] /\ other'[p] = other[p]
          BY <3>2, <3>3, <3>7, <4>2
        <5> QED
          BY <3>5, <3>7, <5>1 DEF Family
      <4> QED
        BY <4>1, <4>2
    <3>8. ASSUME NEW p \in Tids, pc'[p] \in {"mark", "down"}
          PROVE  other'[p] \in children'[p]
      BY <3>2, <3>3, <3>8 DEF Family
    <3> QED
      BY <3>6, <3>7, <3>8 DEF Family
  <2>12. CASE ExecNoThread(t)
    <3>1. None \notin Tids
      BY NoneAssumption DEF Tids
    <3> QED
      BY <2>12, <3>1, <2>q DEF ExecNoThread, Family
  <2>13. CASE WaitExited(t)
    <3>1. UNCHANGED <<pc, parent, children, other>>
      BY <2>13 DEF WaitExited
    <3> QED
      BY <3>1 DEF Family
  <2>14. CASE WaitCheck(t)
    BY <2>14, <2>q DEF WaitCheck, Family
  <2>15. CASE Exit(t)
    BY <2>15, <2>q DEF Exit, Family
  <2>16. CASE Kill(t)
    BY <2>16, <2>q DEF Kill, Family
  <2>17. CASE NotifyAstray(t)
    <3>1. UNCHANGED <<pc, parent, children, other>>
      BY <2>17 DEF NotifyAstray
    <3> QED
      BY <3>1 DEF Family
  <2> QED
    BY <1>2, <2>1, <2>2, <2>3, <2>4, <2>5, <2>6, <2>7, <2>8, <2>9, <2>10, <2>11, <2>12,
       <2>13, <2>14, <2>15, <2>16, <2>17 DEF Kernel, User
<1> QED
  BY <1>1, <1>2 DEF Next

(* What StatusTold says of one process. *)
Told(c) ==
    /\ entry[c].exit_status = 0 \/ entry[c].exit_status = code[c]
    /\ pc[c] \in Unstored => entry[c].exit_status = 0
    /\ entry[c].exited /\ pc[c] # "status" /\ (\E p \in Tids : c \in children[p])
          => entry[c].exit_status = code[c]

(* The entries keep telling where their statuses come from. *)
LEMMA StatusStep == Inv /\ Family /\ StatusTold /\ [Next]_vars => StatusTold'
<1> SUFFICES ASSUME Inv, Family, StatusTold, [Next]_vars, NEW c \in Tids
             PROVE  Told(c)'
  BY DEF StatusTold, Told
<1>t. TypeOK'
  BY TypeStep
<1>o. Told(c)
  BY DEF StatusTold, Told
<1>1. CASE UNCHANGED vars
  BY <1>1, <1>o DEF vars, Told
<1>2. ASSUME NEW t \in Tids, Kernel(t) \/ User(t) \/ NotifyAstray(t) PROVE Told(c)'
  <2> USE <1>t, <1>o DEF Inv, TypeOK, Goto
  <2>e. pc[c] \notin Gone => ~entry[c].exited
    BY DEF EntriesTell
  <2>q. ASSUME entry'[c].exited = entry[c].exited,
               entry'[c].exit_status = entry[c].exit_status,
               \A p \in Tids : c \in children'[p] => c \in children[p],
               pc'[c] \in Unstored => pc[c] \in Unstored,
               pc[c] = "status" => pc'[c] = "status",
               code'[c] = code[c] \/ pc[c] = "run"
        PROVE  Told(c)'
    BY <2>q, <2>e DEF Told, Unstored, Points, Exiting, Gone
  <2>1. CASE StartProcess(t)
    BY <2>1, <2>q DEF StartProcess, Unstored, Points, Exiting
  <2>2. CASE ExecWakes(t)
    BY <2>2, <2>q DEF ExecWakes, Unstored, Points, Exiting
  <2>3. CASE ExecReturns(t)
    <3>1. other[t] \in Tids
      BY <2>3 DEF ExecReturns, Handshake, Reported
    <3>2. CASE c = other[t] /\ entry' = [entry EXCEPT ![other[t]] = NewEntry]
      BY <3>1, <3>2 DEF Told, NewEntry
    <3>3. CASE c # other[t] \/ UNCHANGED <<children, entry>>
      <4>0. CASE UNCHANGED <<children, entry>>
        BY <2>3, <4>0, <2>q DEF ExecReturns, Unstored, Points, Exiting
      <4>1. CASE /\ c # other[t]
                 /\ children' = [children EXCEPT ![t] = @ \cup {other[t]}]
                 /\ entry' = [entry EXCEPT ![other[t]] = NewEntry]
        <5>1. entry'[c] = entry[c]
          BY <3>1, <4>1
        <5>2. \A p \in Tids : c \in children'[p] => c \in children[p]
          BY <4>1
        <5> QED
          BY <2>3, <5>1, <5>2, <2>q DEF ExecReturns, Unstored, Points, Exiting
      <4> QED
        BY <2>3, <3>3, <4>0, <4>1 DEF ExecReturns
    <3> QED
      BY <2>3, <3>2, <3>3 DEF ExecReturns
  <2>4. CASE ExitRecord(t)
    <3>1. CASE t = c /\ pc'[c] = "status"
      <4>1. entry'[c].exit_status = entry[c].exit_status
        BY <2>4, <3>1 DEF ExitRecord, ChildProcess
      <4> QED
        BY <2>4, <3>1, <4>1 DEF ExitRecord, Told, Unstored, Points, Exiting
    <3>2. CASE ~(t = c /\ pc'[c] = "status")
      <4>1. entry'[c] = entry[c]
        BY <2>4, <3>2 DEF ExitRecord
      <4> QED
        BY <2>4, <4>1, <2>q DEF ExitRecord, Unstored, Points, Exiting
    <3> QED
      BY <3>1, <3>2
  <2>5. CASE ExitStatus(t)
    <3>1. CASE t = c
      BY <2>5, <3>1 DEF ExitStatus, Told, ChildProcess, Unstored
    <3>2. CASE t # c
      BY <2>5, <3>2, <2>q DEF ExitStatus
    <3> QED
      BY <3>1, <3>2
  <2>6. CASE ProcessExit(t)
    BY <2>6, <2>q DEF ProcessExit, Unstored
  <2>7. CASE Unlist(t)
    BY <2>7, <2>q DEF Unlist, Unstored
  <2>8. CASE Notify(t)
    <3>1. /\ entry'[c].exited = entry[c].exited
          /\ entry'[c].exit_status = entry[c].exit_status
      BY <2>8 DEF Notify, ChildProcess
    <3> QED
      BY <2>8, <3>1, <2>q DEF Notify, Unstored
  <2>9. CASE WaitMark(t)
    <3>1. /\ entry'[c].exited = entry[c].exited
          /\ entry'[c].exit_status = entry[c].exit_status
      BY <2>9 DEF WaitMark, ChildProcess, OtherNamed
    <3> QED
      BY <2>9, <3>1, <2>q DEF WaitMark, Unstored, Points, Exiting
  <2>10. CASE WaitWakes(t)
    <3>1. other[t] \in Tids /\ parent[other[t]] = t
      BY <2>10 DEF WaitWakes, OtherNamed, Family
    <3>2. entry'[c].exit_status = entry[c].exit_status
      BY <2>10, <3>1 DEF WaitWakes, ChildProcess
    <3>3. \A p \in Tids : c \in children'[p] => c \in children[p]
      BY <2>10 DEF WaitWakes
    <3>4. CASE c = other[t]
      <4>1. \A p \in Tids : c \notin children'[p]
        BY <2>10, <3>1, <3>4 DEF WaitWakes, Family
      <4> QED
        BY <2>10, <3>2, <4>1 DEF WaitWakes, Told, Unstored, Points, Exiting
    <3>5. CASE c # other[t]
      BY <2>10, <3>1, <3>3, <3>5, <2>q DEF WaitWakes, Unstored, Points, Exiting
    <3> QED
      BY <3>4, <3>5
  <2>11. CASE Exec(t)
    <3>1. next_tid \in Tids /\ pc[next_tid] = "unborn" /\ t # next_tid
      BY <2>11 DEF Exec, TidsInOrder
    <3>2. /\ pc'[c] \in Unstored => pc[c] \in Unstored
          /\ pc[c] = "status" => pc'[c] = "status"
      BY <2>11, <3>1 DEF Exec, Unstored, Points, Exiting
    <3> QED
      BY <2>11, <3>2, <2>q DEF Exec
  <2>12. CASE ExecNoThread(t)
    BY <2>12, <2>q DEF ExecNoThread, Unstored, Points, Exiting
  <2>13. CASE WaitExited(t)
    BY <2>13, <2>q DEF WaitExited
  <2>14. CASE WaitCheck(t)
    BY <2>14, <2>q DEF WaitCheck, Unstored, Points, Exiting
  <2>15. CASE Exit(t)
    <3>1. pc[t] = "run" /\ t = c => entry[c].exit_status = 0
      BY DEF Told, Unstored, Points, Exiting
    <3> QED
      BY <2>15, <2>q, <3>1 DEF Exit, Unstored, Points, Exiting
  <2>16. CASE Kill(t)
    BY <2>16, <2>q DEF Kill, Unstored, Points, Exiting
  <2>17. CASE NotifyAstray(t)
    BY <2>17, <2>q DEF NotifyAstray
  <2> QED
    BY <1>2, <2>1, <2>2, <2>3, <2>4, <2>5, <2>6, <2>7, <2>8, <2>9, <2>10, <2>11, <2>12,
       <2>13, <2>14, <2>15, <2>16, <2>17 DEF Kernel, User
<1> QED
  BY <1>1, <1>2 DEF Next

(* The history grows by the answer and for the child that is asked about. *)
LEMMA AnsweredLast ==
    ASSUME TypeOK, NEW c \in Tids, NEW status \in Int, Answered(c, status),
           NEW d \in Tids, Len(answers'[d]) > Len(answers[d])
    PROVE  d = c /\ answers'[d][Len(answers'[d])] = status
<1>1. CASE d = c
  <2>1. answers'[c] = Append(answers[c], status) \/ answers'[c] = answers[c]
    BY DEF Answered, TypeOK
  <2>2. answers'[c] = Append(answers[c], status)
    BY <2>1, <1>1
  <2>3. answers[c] \in Seq(Int)
    BY DEF TypeOK
  <2> QED
    BY <1>1, <2>2, <2>3
<1>2. CASE d # c
  <2>1. answers'[d] = answers[d] /\ answers[d] \in Seq(Int)
    BY <1>2 DEF Answered, TypeOK
  <2>2. Len(answers[d]) \in Nat
    BY <2>1
  <2> QED
    BY <2>1, <2>2
<1> QED
  BY <1>1, <1>2

(* A step that gives an answer about c gives one that can be explained. *)
Explained(c) ==
    LET status == answers'[c][Len(answers'[c])] IN
    \/ status = code[c]
    \/ status = 0 /\ (~entry[c].exited \/ pc[c] = "status")

(* Every answer of process_wait is the status its child passed to exit, or *)
(* the entry's first 0: exit has not found or not finished the entry.      *)
LEMMA AnswerStep ==
    ASSUME Inv, Family, StatusTold, [Next]_vars, NEW c \in Tids,
           Len(answers'[c]) > Len(answers[c])
    PROVE  Explained(c)
<1> USE DEF Inv
<1>0. Len(answers[c]) \in Nat
  BY DEF TypeOK
<1>1. ~UNCHANGED answers
  BY <1>0
<1>2. PICK t \in Tids : WaitExited(t) \/ WaitWakes(t)
  BY <1>1 DEF Next, Kernel, User, vars, Exec, ExecNoThread, StartProcess, ExecWakes,
     ExecReturns, Exit, ExitRecord, ExitStatus, Kill, ProcessExit, Unlist, Notify,
     NotifyAstray, WaitCheck, WaitMark
<1>3. Told(c)
  BY DEF StatusTold, Told
<1>4. CASE WaitExited(t)
  <2>1. PICK d \in children[t] : entry[d].exited /\ Answered(d, entry[d].exit_status)
    BY <1>4 DEF WaitExited
  <2>2. d \in Tids /\ entry[d].exit_status \in Int
    BY DEF TypeOK, ChildProcess
  <2>3. d = c /\ answers'[c][Len(answers'[c])] = entry[c].exit_status
    BY <2>1, <2>2, AnsweredLast
  <2>4. pc[c] = "status" => entry[c].exit_status = 0
    BY <1>3 DEF Told, Unstored, Points, Exiting
  <2> QED
    BY <1>3, <2>1, <2>3, <2>4 DEF Told, Explained
<1>5. CASE WaitWakes(t)
  <2>1. other[t] \in Tids /\ other[t] \in children[t]
    BY <1>5 DEF WaitWakes, OtherNamed, Family
  <2>2. entry[other[t]].exit_status \in Int
    BY <2>1 DEF TypeOK, ChildProcess
  <2>3. other[t] = c /\ answers'[c][Len(answers'[c])] = entry[c].exit_status
    BY <1>5, <2>1, <2>2, AnsweredLast DEF WaitWakes
  <2> QED
    BY <1>3, <2>1, <2>3 DEF Told, Explained
<1> QED
  BY <1>2, <1>4, <1>5

(* Lists and calls stay within families and entries tell where their status *)
(* comes from, in every behaviour.                                          *)
THEOREM StatusHolds == Spec => [](Family /\ StatusTold)
<1>1. Init => Family /\ StatusTold
  BY NoneAssumption DEF Init, Family, StatusTold, NewEntry, Tids
<1> QED
  BY <1>1, InvHolds, FamilyStep, StatusStep, PTL DEF Spec

(* A wait for a child that called exit returns the status it passed, except *)
(* in the cases in which exit has not found or not finished the entry.      *)
THEOREM AnswersAreExplained == Spec => WaitStatusExplained
<1>1. Inv /\ Family /\ StatusTold /\ [Next]_vars =>
        [\A c \in Tids : Len(answers'[c]) > Len(answers[c]) /\ code[c] # None =>
            LET status == answers'[c][Len(answers'[c])] IN
            \/ status = code[c]
            \/ status = 0 /\ (~entry[c].exited \/ pc[c] = "status")]_vars
  BY AnswerStep DEF Explained
<1> QED
  BY <1>1, InvHolds, StatusHolds, PTL DEF Spec, WaitStatusExplained
==============================================================================
