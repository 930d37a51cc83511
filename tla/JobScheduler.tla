----------------------------- MODULE JobScheduler -----------------------------
(***************************************************************************)
(* The job scheduler of lab4/scheduler.c: a wait queue of jobs, each with  *)
(* a child process that is stopped and continued by signals, and two       *)
(* signal handlers, schedule for SIGVTALRM and the reaping of children for *)
(* SIGCHLD.  main installs them with an empty sa_mask, so either handler   *)
(* may interrupt the other, though not itself: stack holds the handlers in *)
(* progress and the last one runs.  A step ends wherever the other handler *)
(* can tell the difference: schedule between its command, jobselect, the   *)
(* free of a job, the clearing of current, and the switch; the handler of  *)
(* SIGCHLD between waitpid, its load of current->job, the store through    *)
(* what it loaded, and the loads for its message.                          *)
(*                                                                         *)
(* A command is what schedule finds in the FIFO, if anything.  Creation    *)
(* and run times, owners, arguments and output are left out; of wait_time, *)
(* which only breaks ties, values above MaxWait are not told apart.  That  *)
(* printf and free are not safe in a handler is left out too.              *)
(***************************************************************************)
EXTENDS Integers, Sequences, SequencesExt, FiniteSets

CONSTANTS
    MaxJobs,        \* bound: jobs enqueued
    MaxWait,        \* bound: wait times told apart
    Priorities      \* default priorities, of 0 .. 3

ASSUME JobAssumption ==
    MaxJobs \in Nat /\ MaxWait \in Nat /\ Priorities \subseteq 0 .. 3

VARIABLES
    jobid,          \* the last job id given out
    job,            \* the allocated struct jobinfo, by job id
    queue,          \* the list from head
    current, next,  \* job ids, 0 for NULL
    process,        \* process[j]: the child process of job j, see below
    sigchld,        \* SIGCHLD is pending
    stack,          \* the handlers in progress, innermost last
    tickAt,         \* the step of schedule
    childAt,        \* the step of the SIGCHLD handler
    held,           \* the job whose record that handler has loaded, 0 for none
    crashed         \* a null or freed pointer was followed, and did harm

listVars == <<queue, current, next>>
childVars == <<childAt, held>>
vars == <<jobid, job, listVars, process, sigchld, stack, tickAt, childVars, crashed>>

Jobs == 1 .. MaxJobs
NULL == 0

\* A child is "born" until its raise(SIGSTOP), "held" when it is stopped before
\* that, "stopped" after it, "running" once continued; "exited" or "killed"
\* until waitpid takes it, then "gone".
StopLost(s) == s        \* the signal is not sent
Stop(s) == CASE s = "born" -> "held" [] s = "running" -> "stopped" [] OTHER -> s
Continue(s) == CASE s = "held" -> "born" [] s = "stopped" -> "running" [] OTHER -> s

Runs(handler) == ~crashed /\ stack # <<>> /\ Last(stack) = handler
At(step) == Runs("tick") /\ tickAt = step

Init ==
    /\ jobid = 0 /\ job = <<>>
    /\ queue = <<>> /\ current = NULL /\ next = NULL
    /\ process = [j \in Jobs |-> "none"]
    /\ sigchld = FALSE /\ stack = <<>> /\ tickAt = "command"
    /\ childAt = "wait" /\ held = NULL
    /\ crashed = FALSE

-----------------------------------------------------------------------------
(* The child processes, as long as the scheduler is there.                 *)

\* raise(SIGSTOP) in the child, at any time after fork: usleep(100000) in the
\* scheduler ends with the next signal and promises nothing.
RaiseStop(j) ==
    /\ ~crashed
    /\ process[j] = "born"
    /\ process' = [process EXCEPT ![j] = "stopped"]
    /\ sigchld' = TRUE
    /\ UNCHANGED <<jobid, job, listVars, stack, tickAt, childVars, crashed>>

\* The program ends, by itself or by a signal from elsewhere.
Ends(j, how) ==
    /\ ~crashed
    /\ process[j] = "running"
    /\ process' = [process EXCEPT ![j] = how]
    /\ sigchld' = TRUE
    /\ UNCHANGED <<jobid, job, listVars, stack, tickAt, childVars, crashed>>

-----------------------------------------------------------------------------
(* The handler of SIGVTALRM.                                               *)

Tick ==
    /\ ~crashed
    /\ "tick" \notin Range(stack)
    /\ stack' = Append(stack, "tick")
    /\ tickAt' = "command"
    /\ UNCHANGED <<jobid, job, listVars, process, sigchld, childVars, crashed>>

\* No command, or stat, which only prints.
NoCommand ==
    /\ At("command")
    /\ tickAt' = "select"
    /\ UNCHANGED <<jobid, job, listVars, process, sigchld, stack, childVars, crashed>>

\* The struct jobinfo of a new job.
NewJob(pri) == [defpri |-> pri, curpri |-> pri, wait_time |-> 0, state |-> "READY"]

\* do_enq.
Enq(pri) ==
    /\ At("command")
    /\ jobid < MaxJobs
    /\ LET j == jobid + 1
       IN  /\ jobid' = j
           /\ job' = [i \in DOMAIN job \cup {j} |-> IF i = j THEN NewJob(pri) ELSE job[i]]
           /\ queue' = Append(queue, j)
           /\ process' = [process EXCEPT ![j] = "born"]
    /\ tickAt' = "select"
    /\ UNCHANGED <<current, next, sigchld, stack, childVars, crashed>>

\* free of a struct jobinfo.
Without(j) == [i \in DOMAIN job \ {j} |-> job[i]]

\* The list without the node of job j.
Unlinked(j) ==
    IF Contains(queue, j)
    THEN RemoveAt(queue, CHOOSE i \in DOMAIN queue : queue[i] = j)
    ELSE queue

\* Frees the job but leaves its node in the list.
DeqLeavesNode(j) ==
    /\ At("command")
    /\ j \in DOMAIN job
    /\ job' = Without(j)
    /\ tickAt' = IF current = j THEN "clearDeq" ELSE "select"
    /\ UNCHANGED <<jobid, listVars, process, sigchld, stack, childVars, crashed>>

\* do_deq: the record of a current or queued job is freed.  The signal to the
\* current job has its arguments in the wrong order and reaches no child.
Deq(j) ==
    /\ At("command")
    /\ j \in DOMAIN job
    /\ job' = Without(j)
    /\ queue' = IF current = j THEN queue ELSE Unlinked(j)
    /\ tickAt' = IF current = j THEN "clearDeq" ELSE "select"
    /\ UNCHANGED <<jobid, current, next, process, sigchld, stack, childVars, crashed>>

\* updateall, for a job in the queue.
Older(info) ==
    [info EXCEPT !.wait_time = IF @ < MaxWait THEN @ + 1 ELSE @,
                 !.curpri = IF @ < 3 THEN @ + 1 ELSE @]
updateall == [j \in DOMAIN job |-> IF j \in Range(queue) THEN Older(job[j]) ELSE job[j]]

\* One turn of the loop of jobselect, at job j.  highest_wait is not set when a
\* higher priority is found.
Compared(acc, j, info) ==
    IF info[j].curpri > acc.highest
    THEN [acc EXCEPT !.select = j, !.highest = info[j].curpri]
    ELSE IF info[j].curpri = acc.highest /\ info[j].wait_time > acc.highest_wait
         THEN [acc EXCEPT !.select = j, !.highest_wait = info[j].wait_time]
    ELSE acc

\* Goes by the longest wait alone.
jobselectByWait(info) ==
    LET longest(i) == \A k \in DOMAIN queue : info[queue[k]].wait_time <= info[queue[i]].wait_time
    IN  IF queue = <<>> THEN NULL ELSE queue[CHOOSE i \in DOMAIN queue : longest(i)]

\* The loop of jobselect over the queue.
jobselect(info) ==
    LET best[i \in 0 .. Len(queue)] ==
            IF i = 0 THEN [select |-> NULL, highest |-> -1, highest_wait |-> -1]
            ELSE Compared(best[i - 1], queue[i], info)
    IN  best[Len(queue)].select

Select ==
    /\ At("select")
    /\ job' = updateall
    /\ next' = jobselect(job')
    /\ queue' = Unlinked(next')
    /\ tickAt' = "free"
    /\ UNCHANGED <<jobid, current, process, sigchld, stack, childVars, crashed>>

\* jobswitch, up to the frees of a current job that is DONE.
Free ==
    /\ At("free")
    /\ LET done == IF current = NULL THEN FALSE ELSE job[current].state = "DONE"
       IN  /\ job' = IF done THEN Without(current) ELSE job
           /\ tickAt' = IF done THEN "clear" ELSE "switch"
    /\ UNCHANGED <<jobid, listVars, process, sigchld, stack, childVars, crashed>>

\* From the free of the current job to current = NULL.
Freed == tickAt \in {"clear", "clearDeq"}

\* current = NULL, in jobswitch and in do_deq.
Clear ==
    /\ Runs("tick") /\ Freed
    /\ current' = NULL
    /\ tickAt' = IF tickAt = "clear" THEN "switch" ELSE "select"
    /\ UNCHANGED <<jobid, job, queue, next, process, sigchld, stack, childVars, crashed>>

EndTick ==
    /\ stack' = Front(stack)
    /\ tickAt' = "command"
    /\ next' = NULL
    /\ UNCHANGED <<jobid, childVars, crashed>>

\* No job to run, or only the current one.
NoSwitch ==
    /\ At("switch")
    /\ next = NULL
    /\ EndTick
    /\ UNCHANGED <<job, queue, current, process, sigchld>>

Start ==
    /\ At("switch")
    /\ next # NULL /\ current = NULL
    /\ current' = next
    /\ job' = [job EXCEPT ![next].state = "RUNNING"]
    /\ process' = [process EXCEPT ![next] = Continue(@)]
    /\ sigchld' = (sigchld \/ process' # process)
    /\ EndTick
    /\ UNCHANGED queue

BackToDefault(info) ==
    [info EXCEPT !.curpri = info.defpri, !.wait_time = 0, !.state = "READY"]

\* The switch: the current job is stopped and returns to its default priority;
\* the winner of the comparison is continued, the other goes to the end.
Switch ==
    /\ At("switch")
    /\ next # NULL /\ current # NULL
    /\ LET stays == job[current].defpri > job[next].curpri
           winner == IF stays THEN current ELSE next
           loser == IF stays THEN next ELSE current
           stopped == [process EXCEPT ![current] = Stop(@)]
       IN  /\ queue' = Append(queue, loser)
           /\ current' = winner
           /\ job' = [job EXCEPT ![current] = BackToDefault(@), ![winner].state = "RUNNING"]
           /\ process' = [stopped EXCEPT ![winner] = Continue(@)]
    /\ sigchld' = (sigchld \/ process[current] \in {"born", "running"} \/ process' # process)
    /\ EndTick

-----------------------------------------------------------------------------
(* The handler of SIGCHLD.                                                 *)

Child ==
    /\ ~crashed
    /\ sigchld
    /\ "child" \notin Range(stack)
    /\ sigchld' = FALSE
    /\ stack' = Append(stack, "child")
    /\ UNCHANGED <<jobid, job, listVars, process, tickAt, childVars, crashed>>

ChildIs(step) == Runs("child") /\ childAt = step

EndChild ==
    /\ stack' = Front(stack)
    /\ childAt' = "wait"
    /\ UNCHANGED held

\* waitpid(-1, ..., WNOHANG): one of the children that ended, or none.
Reap(j) ==
    /\ ChildIs("wait")
    /\ process[j] \in {"exited", "killed"}
    /\ childAt' = IF process[j] = "exited" THEN "load" ELSE "print"
    /\ process' = [process EXCEPT ![j] = "gone"]
    /\ UNCHANGED <<jobid, job, listVars, sigchld, stack, tickAt, held, crashed>>

ReapNone ==
    /\ ChildIs("wait")
    /\ \A j \in Jobs : process[j] \notin {"exited", "killed"}
    /\ EndChild
    /\ UNCHANGED <<jobid, job, listVars, process, sigchld, tickAt, crashed>>

\* Following current: fatal when it is NULL, of unknown effect when what it
\* points to was freed.
FollowsCurrent ==
    crashed' \in IF current = NULL THEN {TRUE} ELSE IF Freed THEN BOOLEAN ELSE {FALSE}

\* The current job is taken for the one that exited: current->job is loaded.
Load ==
    /\ ChildIs("load")
    /\ FollowsCurrent
    /\ held' = current
    /\ childAt' = "store"
    /\ UNCHANGED <<jobid, job, listVars, process, sigchld, stack, tickAt>>

\* state = DONE, in the record that was loaded.  When a tick has freed it, the
\* store does nothing, does harm, or hits the record of a later job, which
\* malloc has put there.
Store ==
    /\ ChildIs("store")
    /\ \/ /\ held \in DOMAIN job
          /\ job' = [job EXCEPT ![held].state = "DONE"]
          /\ UNCHANGED crashed
       \/ /\ held \notin DOMAIN job
          /\ crashed' \in BOOLEAN
          /\ \/ UNCHANGED job
             \/ \E j \in DOMAIN job : j > held /\ job' = [job EXCEPT ![j].state = "DONE"]
    /\ childAt' = "print"
    /\ held' = NULL
    /\ UNCHANGED <<jobid, listVars, process, sigchld, stack, tickAt>>

\* The message, with the job id and process id that current leads to by now.
Report ==
    /\ ChildIs("print")
    /\ FollowsCurrent
    /\ EndChild
    /\ UNCHANGED <<jobid, job, listVars, process, sigchld, tickAt>>

Next ==
    \/ \E j \in Jobs :
        \/ RaiseStop(j)
        \/ \E how \in {"exited", "killed"} : Ends(j, how)
        \/ Deq(j) \/ Reap(j)
    \/ \E pri \in Priorities : Enq(pri)
    \/ Tick \/ NoCommand \/ Select \/ Free \/ Clear \/ NoSwitch \/ Start \/ Switch
    \/ Child \/ ReapNone \/ Load \/ Store \/ Report

Spec == Init /\ [][Next]_vars

-----------------------------------------------------------------------------
(* Properties.                                                             *)

\* Whatever signals interrupt schedule, no job is lost or in two places: each
\* job with a record is in the queue once, or current, or next.  Nothing that
\* was freed is reached, except from current between the free of the current
\* job and current = NULL, where SIGCHLD can come in between.
JobsAccountedFor ==
    LET pointed == {current, next} \ {NULL}
        dangling == IF Freed THEN {current} ELSE {}
    IN  /\ IsInjective(queue)
        /\ DOMAIN job = (Range(queue) \cup pointed) \ dangling
        /\ Range(queue) \cap pointed = {}
        /\ current = next => current = NULL

\* One job at a time: the process of a job that waits in the queue is not
\* running, however stops, continues, exits and wrong reports interleave.
QueuedJobsStandStill ==
    ~crashed => \A j \in Range(queue) : process[j] # "running"

\* Between ticks no waiting job ranks above the current one.
NoHigherPriorityWaits ==
    "tick" \notin Range(stack) /\ current # NULL =>
        \A j \in Range(queue) : job[j].curpri <= job[current].curpri

=============================================================================
