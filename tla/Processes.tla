------------------------------ MODULE Processes ------------------------------
(***************************************************************************)
(* The life of processes in pintos_pro3/src: exec, wait and exit as        *)
(* userprog/process.c, userprog/syscall.c and threads/thread.c implement   *)
(* them.                                                                   *)
(*                                                                         *)
(* A parent and a child meet twice.  In exec the parent sleeps on its own  *)
(* exec_sema until the child has loaded, reads child_status and then adds  *)
(* a child_process entry to its children list.  At the end the child finds *)
(* that entry through the parent's thread, fills it in, and ups its        *)
(* semaphore if the parent has marked it waited.  Nothing but the two      *)
(* semaphores orders the two threads, so each action ends where the timer  *)
(* may preempt.  The Root process is the kernel's main thread, which runs  *)
(* process_wait (process_execute (task)) and never exits.                  *)
(***************************************************************************)
EXTENDS Integers, FiniteSets, Sequences

CONSTANTS
    MaxTid,     \* bound: tids allocated in a behaviour
    MaxThreads, \* threads there is memory for at a time
    Codes,      \* statuses processes pass to exit
    None        \* no thread: a NULL result of thread_find, TID_ERROR

ASSUME MaxTidAssumption == MaxTid \in Nat \ {0}
ASSUME MaxThreadsAssumption == MaxThreads \in Nat \ {0}
ASSUME CodesAssumption == Codes \subseteq Int
ASSUME NoneAssumption == None \notin 1 .. MaxTid

Tids == 1 .. MaxTid
Root == 1

VARIABLES
    next_tid,       \* the tid allocate_tid returns next
    pc,             \* pc[t]: where thread t is, "unborn" before its creation
    parent,         \* parent[t]: its parentId
    all_list,       \* tids of the threads on all_list
    children,       \* children[t]: tids of the entries on its children list
    entry,          \* entry[t]: the struct child_process made for t
    exec_sema,      \* exec_sema[t]: value of that semaphore of t
    child_status,   \* child_status[t]: what its last child reported
    other,          \* other[t]: the thread its current call is about
    code,           \* code[t]: the status t passed to exit
    up,             \* FALSE once the kernel has gone astray
    answers         \* answers[t]: statuses of t that waits have returned, a
                    \* history variable: a sequence of at most two

vars == <<next_tid, pc, parent, all_list, children, entry, exec_sema, child_status,
          other, code, up, answers>>

(* The threads that occupy a page.  A dead one is freed at the next switch. *)
Alive == { t \in Tids : pc[t] \notin {"unborn", "dead"} }

Exiting == {"record", "status", "exit", "unlist", "notify"}
Points ==
    Exiting \cup {"unborn", "load", "run", "exec", "register", "mark", "down",
                  "dead"}

(* struct child_process; tid is the index. *)
ChildProcess ==
    [exited : BOOLEAN, waited : BOOLEAN, sema : Nat, exit_status : Int]

NewEntry ==
    [exited |-> FALSE, waited |-> FALSE, sema |-> 0, exit_status |-> 0]

TypeOK ==
    /\ next_tid \in Nat
    /\ pc \in [Tids -> Points]
    /\ parent \in [Tids -> Tids \cup {None}]
    /\ all_list \subseteq Tids
    /\ children \in [Tids -> SUBSET Tids]
    /\ entry \in [Tids -> ChildProcess]
    /\ exec_sema \in [Tids -> Nat]
    /\ child_status \in [Tids -> {-1, 0, 1}]
    /\ other \in [Tids -> Tids \cup {None}]
    /\ code \in [Tids -> Codes \cup {None}]
    /\ up \in BOOLEAN
    /\ answers \in [Tids -> Seq(Int)]

Init ==
    /\ next_tid = Root + 1
    /\ pc = [t \in Tids |-> IF t = Root THEN "run" ELSE "unborn"]
    /\ parent = [t \in Tids |-> None]
    /\ all_list = {Root}
    /\ children = [t \in Tids |-> {}]
    /\ entry = [t \in Tids |-> NewEntry]
    /\ exec_sema = [t \in Tids |-> 0]
    /\ child_status = [t \in Tids |-> 0]
    /\ other = [t \in Tids |-> None]
    /\ code = [t \in Tids |-> None]
    /\ up = TRUE
    /\ answers = [t \in Tids |-> <<>>]

Goto(t, point) == pc' = [pc EXCEPT ![t] = point]

(* thread_find (tid): the thread if it is still on all_list. *)
thread_find(t) == IF t \in all_list THEN t ELSE None

-----------------------------------------------------------------------------
(* exec *)

(* process_execute up to its sema_down, which runs with interrupts off: the *)
(* new thread is on the ready list when the parent goes to sleep.           *)
Exec(p) ==
    /\ pc[p] = "run"
    /\ next_tid \in Tids
    /\ Cardinality(Alive) < MaxThreads
    /\ next_tid' = next_tid + 1
    /\ child_status' = [child_status EXCEPT ![p] = 0]
    /\ other' = [other EXCEPT ![p] = next_tid]
    /\ parent' = [parent EXCEPT ![next_tid] = p]
    /\ all_list' = all_list \cup {next_tid}
    /\ pc' = [pc EXCEPT ![p] = "exec", ![next_tid] = "load"]
    /\ UNCHANGED <<children, entry, exec_sema, code, up, answers>>

(* thread_create finds no page and returns TID_ERROR, which process_execute *)
(* looks at only after the sema_down.                                       *)
ExecNoThread(p) ==
    /\ pc[p] = "run"
    /\ Cardinality(Alive) >= MaxThreads
    /\ child_status' = [child_status EXCEPT ![p] = 0]
    /\ other' = [other EXCEPT ![p] = None]
    /\ Goto(p, "exec")
    /\ UNCHANGED <<next_tid, parent, all_list, children, entry, exec_sema,
                   code, up, answers>>

(* Mutant of StartProcess: a failed load falls through to the second sema_up. *)
StartProcessTwoUps(c) ==
    /\ pc[c] = "load"
    /\ LET p == thread_find(parent[c]) IN
       /\ p # None
       /\ \/ /\ child_status' = [child_status EXCEPT ![p] = 1]
             /\ exec_sema' = [exec_sema EXCEPT ![p] = @ + 1]
             /\ Goto(c, "run")
          \/ /\ child_status' = [child_status EXCEPT ![p] = -1]
             /\ exec_sema' = [exec_sema EXCEPT ![p] = @ + 2]
             /\ Goto(c, "exit")
    /\ UNCHANGED <<next_tid, parent, all_list, children, entry, other, code, up,
                   answers>>

(* Mutant of StartProcess: a failed load exits without sema_up. *)
StartProcessNoUp(c) ==
    /\ pc[c] = "load"
    /\ LET p == thread_find(parent[c]) IN
       /\ p # None
       /\ \/ /\ child_status' = [child_status EXCEPT ![p] = 1]
             /\ exec_sema' = [exec_sema EXCEPT ![p] = @ + 1]
             /\ Goto(c, "run")
          \/ /\ child_status' = [child_status EXCEPT ![p] = -1]
             /\ Goto(c, "exit")
             /\ UNCHANGED exec_sema
    /\ UNCHANGED <<next_tid, parent, all_list, children, entry, other, code, up,
                   answers>>

(* start_process: load, report to the parent, and run or exit. *)
StartProcess(c) ==
    /\ pc[c] = "load"
    /\ LET p == thread_find(parent[c]) IN
       /\ p # None
       /\ exec_sema' = [exec_sema EXCEPT ![p] = @ + 1]
       /\ \/ /\ child_status' = [child_status EXCEPT ![p] = 1]
             /\ Goto(c, "run")
          \/ /\ child_status' = [child_status EXCEPT ![p] = -1]
             /\ Goto(c, "exit")
    /\ UNCHANGED <<next_tid, parent, all_list, children, entry, other, code,
                   up, answers>>

(* Mutant of ExecWakes: process_execute does not wait for the load. *)
ExecWakesEarly(p) ==
    /\ pc[p] = "exec"
    /\ Goto(p, "register")
    /\ UNCHANGED <<next_tid, parent, all_list, children, entry, exec_sema,
                   child_status, other, code, up, answers>>

(* The sema_down (&cur->exec_sema) of process_execute returns. *)
ExecWakes(p) ==
    /\ pc[p] = "exec"
    /\ exec_sema[p] > 0
    /\ exec_sema' = [exec_sema EXCEPT ![p] = @ - 1]
    /\ Goto(p, "register")
    /\ UNCHANGED <<next_tid, parent, all_list, children, entry, child_status,
                   other, code, up, answers>>

(* The rest of process_execute: TID_ERROR if the load failed or malloc does, *)
(* otherwise a fresh entry for the child, which has been running meanwhile.  *)
ExecReturns(p) ==
    /\ pc[p] = "register"
    /\ \/ /\ child_status[p] # -1
          /\ children' = [children EXCEPT ![p] = @ \cup {other[p]}]
          /\ entry' = [entry EXCEPT ![other[p]] = NewEntry]
       \/ UNCHANGED <<children, entry>>
    /\ Goto(p, "run")
    /\ other' = [other EXCEPT ![p] = None]
    /\ UNCHANGED <<next_tid, parent, all_list, exec_sema, child_status, code,
                   up, answers>>

-----------------------------------------------------------------------------
(* exit *)

(* The exit system call, or exit (-1) from page_fault: find the parent. *)
Exit(c) ==
    /\ pc[c] = "run"
    /\ c # Root
    /\ \E status \in Codes : code' = [code EXCEPT ![c] = status]
    /\ other' = [other EXCEPT ![c] = thread_find(parent[c])]
    /\ Goto(c, "record")
    /\ UNCHANGED <<next_tid, parent, all_list, children, entry, exec_sema,
                   child_status, up, answers>>

(* exit: look for the entry and set exited.  A parent that has died since  *)
(* thread_find leaves a freed page, in which no entry for c is found: a    *)
(* fault there leads back to exit (-1), and then thread_find finds nobody. *)
ExitRecord(c) ==
    /\ pc[c] = "record"
    /\ IF other[c] # None /\ other[c] \in Alive /\ c \in children[other[c]]
       THEN /\ entry' = [entry EXCEPT ![c].exited = TRUE]
            /\ Goto(c, "status")
       ELSE /\ Goto(c, "exit")
            /\ UNCHANGED entry
    /\ UNCHANGED <<next_tid, parent, all_list, children, exec_sema,
                   child_status, other, code, up, answers>>

(* Mutant of ExitStatus: exit never stores the status. *)
ExitStatusLost(c) ==
    /\ pc[c] = "status"
    /\ Goto(c, "exit")
    /\ UNCHANGED <<next_tid, parent, all_list, children, entry, exec_sema,
                   child_status, other, code, up, answers>>

(* exit: child->exit_status = status. *)
ExitStatus(c) ==
    /\ pc[c] = "status"
    /\ entry' = [entry EXCEPT ![c].exit_status = code[c]]
    /\ Goto(c, "exit")
    /\ UNCHANGED <<next_tid, parent, all_list, children, exec_sema,
                   child_status, other, code, up, answers>>

(* kill: an exception other than a page fault goes to thread_exit directly. *)
Kill(c) ==
    /\ pc[c] = "run"
    /\ c # Root
    /\ Goto(c, "exit")
    /\ UNCHANGED <<next_tid, parent, all_list, children, entry, exec_sema,
                   child_status, other, code, up, answers>>

(* thread_exit: process_exit empties the children list. *)
ProcessExit(c) ==
    /\ pc[c] = "exit"
    /\ children' = [children EXCEPT ![c] = {}]
    /\ other' = [other EXCEPT ![c] = None]
    /\ Goto(c, "unlist")
    /\ UNCHANGED <<next_tid, parent, all_list, entry, exec_sema, child_status,
                   code, up, answers>>

(* thread_exit: leave all_list and close the files.  Interrupts are off, but *)
(* closing a file may sleep for filesys_lock.                                *)
Unlist(c) ==
    /\ pc[c] = "unlist"
    /\ all_list' = all_list \ {c}
    /\ Goto(c, "notify")
    /\ UNCHANGED <<next_tid, parent, children, entry, exec_sema, child_status,
                   other, code, up, answers>>

(* Mutant of Notify: the test of waited is inverted. *)
NotifyInverted(c) ==
    /\ pc[c] = "notify"
    /\ LET p == thread_find(parent[c]) IN
       entry' = IF p # None /\ c \in children[p] /\ ~entry[c].waited
                THEN [entry EXCEPT ![c].sema = entry[c].sema + 1]
                ELSE entry
    /\ Goto(c, "dead")
    /\ UNCHANGED <<next_tid, parent, all_list, children, exec_sema, child_status,
                   other, code, up, answers>>

(* thread_exit: wake the parent if it waits, and die. *)
Notify(c) ==
    /\ pc[c] = "notify"
    /\ LET p == thread_find(parent[c]) IN
       entry' = IF p # None /\ c \in children[p] /\ entry[c].waited
                THEN [entry EXCEPT ![c].sema = entry[c].sema + 1]
                ELSE entry
    /\ Goto(c, "dead")
    /\ UNCHANGED <<next_tid, parent, all_list, children, exec_sema,
                   child_status, other, code, up, answers>>

(* thread_exit reads an uninitialised child pointer if the parent has no   *)
(* entries at all.  If it happens to look like no match, Notify describes  *)
(* the outcome; if it does not, thread_exit faults, re-enters itself with  *)
(* its thread already off all_list, and nothing more is known.             *)
NotifyAstray(c) ==
    /\ pc[c] = "notify"
    /\ LET p == thread_find(parent[c]) IN p # None /\ children[p] = {}
    /\ up' = FALSE
    /\ UNCHANGED <<next_tid, pc, parent, all_list, children, entry, exec_sema,
                   child_status, other, code, answers>>

-----------------------------------------------------------------------------
(* wait.  A call that finds no entry, or one already marked, returns -1 and *)
(* changes nothing.                                                         *)

(* The history records the first two answers about a child. *)
Answered(c, status) ==
    answers' = IF Len(answers[c]) < 2
               THEN [answers EXCEPT ![c] = Append(@, status)]
               ELSE answers

(* Mutant of WaitExited: the status is returned without a look at exited. *)
WaitExitedUnchecked(p) ==
    /\ pc[p] = "run"
    /\ \E c \in children[p] :
          /\ ~entry[c].waited
          /\ Answered(c, entry[c].exit_status)
    /\ UNCHANGED <<next_tid, pc, parent, all_list, children, entry, exec_sema,
                   child_status, other, code, up>>

(* process_wait: the child has exited already. *)
WaitExited(p) ==
    /\ pc[p] = "run"
    /\ \E c \in children[p] :
          /\ ~entry[c].waited
          /\ entry[c].exited
          /\ Answered(c, entry[c].exit_status)
    /\ UNCHANGED <<next_tid, pc, parent, all_list, children, entry, exec_sema,
                   child_status, other, code, up>>

(* process_wait: the child has not exited when its entry is checked. *)
WaitCheck(p) ==
    /\ pc[p] = "run"
    /\ \E c \in children[p] :
          /\ ~entry[c].waited
          /\ ~entry[c].exited
          /\ other' = [other EXCEPT ![p] = c]
    /\ Goto(p, "mark")
    /\ UNCHANGED <<next_tid, parent, all_list, children, entry, exec_sema,
                   child_status, code, up, answers>>

(* process_wait: child->waited = true. *)
WaitMark(p) ==
    /\ pc[p] = "mark"
    /\ entry' = [entry EXCEPT ![other[p]].waited = TRUE]
    /\ Goto(p, "down")
    /\ UNCHANGED <<next_tid, parent, all_list, children, exec_sema,
                   child_status, other, code, up, answers>>

(* process_wait: sema_down (&child->sema) returns, and the entry goes. *)
WaitWakes(p) ==
    /\ pc[p] = "down"
    /\ entry[other[p]].sema > 0
    /\ entry' = [entry EXCEPT ![other[p]] =
                   [entry[other[p]] EXCEPT !.sema = entry[other[p]].sema - 1,
                                           !.exited = TRUE]]
    /\ Answered(other[p], entry[other[p]].exit_status)
    /\ children' = [children EXCEPT ![p] = @ \ {other[p]}]
    /\ other' = [other EXCEPT ![p] = None]
    /\ Goto(p, "run")
    /\ UNCHANGED <<next_tid, parent, all_list, exec_sema, child_status, code,
                   up>>

-----------------------------------------------------------------------------
(* What the kernel does once a call has begun; it never waits for a user. *)
Kernel(t) ==
    \/ StartProcess(t) \/ ExecWakes(t) \/ ExecReturns(t)
    \/ ExitRecord(t) \/ ExitStatus(t) \/ ProcessExit(t) \/ Unlist(t) \/ Notify(t)
    \/ WaitMark(t) \/ WaitWakes(t)

(* What a user program chooses to do, or what befalls it. *)
User(t) ==
    \/ Exec(t) \/ ExecNoThread(t) \/ WaitExited(t) \/ WaitCheck(t)
    \/ Exit(t) \/ Kill(t)

Next == up /\ \E t \in Tids : Kernel(t) \/ User(t) \/ NotifyAstray(t)

Spec == Init /\ [][Next]_vars

(* The round-robin scheduler runs every ready thread again and again.  No  *)
(* program has to make a call.                                             *)
FairSpec == Spec /\ \A t \in Tids : WF_vars(up /\ Kernel(t))

-----------------------------------------------------------------------------
(* Properties. *)

(* The load handshake.  When process_execute wakes up, the child it created *)
(* has finished loading, and child_status tells how: a child that failed is *)
(* on its way out without having run, and left no status.                   *)
ExecReportsLoad ==
    \A p \in Tids : pc[p] = "register" =>
        LET c == other[p] IN
        /\ c # None
        /\ pc[c] \notin {"unborn", "load"}
        /\ child_status[p] # 0
        /\ child_status[p] = -1 => pc[c] \in Exiting \cup {"dead"} /\ code[c] = None

(* While a child loads its parent sleeps in process_execute, so the parent *)
(* start_process looks up is there and the signal is for this child.       *)
ParentAwaitsLoad ==
    \A c \in Tids : pc[c] = "load" =>
        /\ parent[c] \in all_list
        /\ pc[parent[c]] = "exec"
        /\ other[parent[c]] = c

(* Nobody else's signal wakes a later exec: the semaphore is down unless its *)
(* owner is about to take it.                                                *)
NoStaleLoadSignal ==
    \A p \in Tids : exec_sema[p] > 0 =>
        exec_sema[p] = 1 /\ pc[p] = "exec" /\ pc[other[p]] # "load"

(* A wait returns a status only for a child that has ended or is ending. *)
WaitMeansGone ==
    \A c \in Tids : answers[c] # <<>> => pc[c] \in (Exiting \ {"record"}) \cup {"dead"}

(* Where the status of a child that called exit comes from.  It is what the *)
(* child passed to exit, except that process_wait sees the 0 its parent     *)
(* wrote into the entry if exit did not find the entry (the child ran exit  *)
(* before its parent made the entry) or is between its two stores.          *)
WaitStatusExplained ==
    [][\A c \in Tids : Len(answers'[c]) > Len(answers[c]) /\ code[c] # None =>
          LET status == answers'[c][Len(answers'[c])] IN
          \/ status = code[c]
          \/ status = 0 /\ (~entry[c].exited \/ pc[c] = "status")
      ]_vars

(* process_execute comes back whenever it did create a child. *)
ExecEnds ==
    \A p \in Tids :
        (pc[p] = "exec" /\ other[p] # None) ~> (pc[p] # "exec" \/ ~up)

(* A parent asleep in process_wait is woken if its child had not yet passed *)
(* the end of thread_exit when the parent marked the entry.                 *)
MarkedWaitEnds ==
    \A p \in Tids :
        (pc[p] = "down" /\ pc[other[p]] \in Exiting) ~> (pc[p] # "down" \/ ~up)

(* What process_wait's comment promises: "Waits for thread TID to die and *)
(* returns its exit status."  Once the child is dead the wait ends.       *)
WaitEnds ==
    \A p \in Tids :
        (pc[p] = "down" /\ pc[other[p]] = "dead") ~> (pc[p] # "down" \/ ~up)

(* The same comment: "if process_wait() has already been successfully called *)
(* for the given TID, returns -1 immediately, without waiting."              *)
WaitOnce == \A c \in Tids : Len(answers[c]) <= 1

(* The same comment: "If it was terminated by the kernel (i.e. killed due to *)
(* an exception), returns -1."  Such a child passed no status to exit.       *)
KilledGivesMinusOne ==
    \A c \in Tids : code[c] = None => \A i \in DOMAIN answers[c] : answers[c][i] = -1

==============================================================================
