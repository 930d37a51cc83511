---------------------------- MODULE ReadersWriters ----------------------------
(***************************************************************************)
(* Readers and writers of lab6/reader-writer: main creates the threads in  *)
(* a random order and joins them, readers share db through readcount,      *)
(* which rc protects.  One action per semaphore operation, with what the   *)
(* thread does up to the next one; printing is left out.                   *)
(***************************************************************************)
EXTENDS Integers, FiniteSets

CONSTANTS
    Readers, Writers,
    Nobody          \* a slot of rehs that is still zero

ASSUME ThreadsAssumption ==
    /\ IsFiniteSet(Readers) /\ IsFiniteSet(Writers)
    /\ Readers \cap Writers = {}
    /\ Nobody \notin Readers

VARIABLES
    rc, db,         \* the semaphores
    readcount,
    buffer,
    pc,             \* where a thread is
    rehs,           \* the slots of the array rehs that main writes
    join,           \* how far main has come: -1 creating threads, then the
                    \* number of slots of rehs joined
    up              \* the program runs

rwVars == <<rc, db, readcount, buffer, pc, rehs, join, up>>

nr == Cardinality(Readers)
nw == Cardinality(Writers)
Threads == Readers \cup Writers
In(S, p) == {t \in S : pc[t] = p}

RWInit ==
    /\ rc = 1 /\ db = 1 /\ readcount = 0 /\ buffer = 0
    /\ pc = [t \in Threads |-> "none"]
    /\ rehs = [i \in 0 .. nw |-> Nobody]
    /\ join = -1
    /\ up = TRUE

Goto(t, p) == pc' = [pc EXCEPT ![t] = p]

-----------------------------------------------------------------------------
(* reader *)

\* sem_wait (&rc), then readcount++.
Arrive(r) ==
    /\ pc[r] = "start" /\ rc > 0
    /\ rc' = rc - 1
    /\ readcount' = readcount + 1
    /\ Goto(r, IF readcount = 0 THEN "first" ELSE "counted")
    /\ UNCHANGED <<db, buffer, rehs, join, up>>

\* sem_wait (&db).
TakeDb(r) ==
    /\ pc[r] = "first" /\ db > 0
    /\ db' = db - 1
    /\ Goto(r, "counted")
    /\ UNCHANGED <<rc, readcount, buffer, rehs, join, up>>

\* sem_post (&rc); then the reader is inside.
Enter(r) ==
    /\ pc[r] = "counted"
    /\ rc' = rc + 1
    /\ Goto(r, "reading")
    /\ UNCHANGED <<db, readcount, buffer, rehs, join, up>>

\* Every reader that leaves gives db back.
LeaveAlways(r) ==
    /\ pc[r] = "reading" /\ rc > 0
    /\ rc' = rc - 1
    /\ readcount' = readcount - 1
    /\ Goto(r, "last")
    /\ UNCHANGED <<db, buffer, rehs, join, up>>

\* sem_wait (&rc), then --readcount.
Leave(r) ==
    /\ pc[r] = "reading" /\ rc > 0
    /\ rc' = rc - 1
    /\ readcount' = readcount - 1
    /\ Goto(r, IF readcount = 1 THEN "last" ELSE "left")
    /\ UNCHANGED <<db, buffer, rehs, join, up>>

\* sem_post (&db).
GiveDb(r) ==
    /\ pc[r] = "last"
    /\ db' = db + 1
    /\ Goto(r, "left")
    /\ UNCHANGED <<rc, readcount, buffer, rehs, join, up>>

\* sem_post (&rc), and the thread ends.
Gone(r) ==
    /\ pc[r] = "left"
    /\ rc' = rc + 1
    /\ Goto(r, "done")
    /\ UNCHANGED <<db, readcount, buffer, rehs, join, up>>

-----------------------------------------------------------------------------
(* writer *)

\* sem_wait (&db).
BeginWrite(w) ==
    /\ pc[w] = "start" /\ db > 0
    /\ db' = db - 1
    /\ Goto(w, "writing")
    /\ UNCHANGED <<rc, readcount, buffer, rehs, join, up>>

\* (*buffer)++ and sem_post (&db), and the thread ends.
EndWrite(w) ==
    /\ pc[w] = "writing"
    /\ buffer' = buffer + 1
    /\ db' = db + 1
    /\ Goto(w, "done")
    /\ UNCHANGED <<rc, readcount, rehs, join, up>>

-----------------------------------------------------------------------------
(* main *)

\* pthread_create (&wrhs[j], ...).
CreateWriter(w) ==
    /\ join = -1 /\ pc[w] = "none"
    /\ Goto(w, "start")
    /\ UNCHANGED <<rc, db, readcount, buffer, rehs, join, up>>

\* pthread_create (&rehs[j], ...), where j counts the writers created.
CreateReader(r) ==
    /\ join = -1 /\ pc[r] = "none"
    /\ Goto(r, "start")
    /\ rehs' = [rehs EXCEPT ![nw - Cardinality(In(Writers, "none"))] = r]
    /\ UNCHANGED <<rc, db, readcount, buffer, join, up>>

\* All threads are created; main joins the writers.
JoinWriters ==
    /\ join = -1
    /\ In(Threads, "none") = {} /\ In(Writers, "done") = Writers
    /\ join' = 0
    /\ UNCHANGED <<rc, db, readcount, buffer, pc, rehs, up>>

Slot(i) == IF i \in 0 .. nw THEN rehs[i] ELSE Nobody

\* pthread_join (rehs[i], NULL).
JoinReader ==
    /\ join \in 0 .. nr - 1
    /\ Slot(join) # Nobody /\ pc[Slot(join)] = "done"
    /\ join' = join + 1
    /\ UNCHANGED <<rc, db, readcount, buffer, pc, rehs, up>>

\* pthread_join of a slot that holds no thread: an error, or a crash.
JoinNobody ==
    /\ join \in 0 .. nr - 1
    /\ Slot(join) = Nobody
    /\ join' = join + 1
    /\ up' \in BOOLEAN
    /\ UNCHANGED <<rc, db, readcount, buffer, pc, rehs>>

\* main returns, and with it every thread that is left ends.
Return ==
    /\ join = nr
    /\ up' = FALSE
    /\ UNCHANGED <<rc, db, readcount, buffer, pc, rehs, join>>

RWNext ==
    /\ up
    /\ \/ \E r \in Readers :
            \/ CreateReader(r)
            \/ Arrive(r) \/ TakeDb(r) \/ Enter(r) \/ Leave(r) \/ GiveDb(r) \/ Gone(r)
       \/ \E w \in Writers : CreateWriter(w) \/ BeginWrite(w) \/ EndWrite(w)
       \/ JoinWriters \/ JoinReader \/ JoinNobody \/ Return

RWSpec == RWInit /\ [][RWNext]_rwVars

-----------------------------------------------------------------------------
(* Properties. *)

\* While a reader is inside, from its count to its leaving, nobody writes, and
\* two writers never write at once, though only the first reader takes db and
\* only the last, often another thread, gives it back.
WritersAlone ==
    \A w \in In(Writers, "writing") :
        /\ In(Readers, "reading") = {}
        /\ In(Writers, "writing") = {w}
=============================================================================
