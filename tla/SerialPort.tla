------------------------------ MODULE SerialPort ------------------------------
(***************************************************************************)
(* Printing through the serial port of pintos_pro3: the interrupt queue of *)
(* devices/intq.c between the threads that print (lib/kernel/console.c)    *)
(* and the transmit interrupt (devices/serial.c), in mode QUEUE.           *)
(*                                                                         *)
(* The functions run with interrupts off, so what they do up to the point  *)
(* where a thread blocks is one action.  The port has its FIFO disabled,   *)
(* so an interrupt transmits a byte; a handler that transmits several is   *)
(* several interrupts in a row.  Received keys go to a queue of their own  *)
(* that nothing in the kernel reads, and are left out.                     *)
(***************************************************************************)
EXTENDS Integers, Sequences

CONSTANTS
    Printers,       \* the threads that print
    Bytes,
    INTQ_BUFSIZE,
    MaxBytes,       \* bound: how many bytes are printed
    NoThread        \* a null struct thread *

ASSUME BufferAssumption == INTQ_BUFSIZE \in Nat /\ INTQ_BUFSIZE >= 2
ASSUME BytesAssumption == 0 \in Bytes
ASSUME NoThreadAssumption == NoThread \notin Printers

VARIABLES
    buf, head, tail, not_full,  \* of txq; nobody ever waits on not_empty
    txq_lock,       \* the holder of txq's lock
    console_lock,   \* the holder of the console's
    point,          \* where each thread is: "out" of the console, "in" it,
                    \* "blocked" in wait or "woken" there
    byte,           \* the byte a blocked or woken thread is to put
    ier,            \* the port interrupts when it is ready to transmit
    contended,      \* a thread has had to sleep for txq's lock
    printed, sent   \* history: the bytes queued, and those transmitted

serialVars == <<buf, head, tail, not_full, txq_lock, console_lock, point, byte,
                ier, contended, printed, sent>>

Slots == 0 .. INTQ_BUFSIZE - 1
next(pos) == (pos + 1) % INTQ_BUFSIZE

intq_empty == head = tail
\* Lets head catch up with tail: a full queue then looks empty.
intq_full_late == FALSE
intq_full == next(head) = tail

\* serial_init_queue.
SerialInit ==
    /\ buf = [s \in Slots |-> 0]
    /\ head = 0 /\ tail = 0 /\ not_full = NoThread
    /\ txq_lock = NoThread /\ console_lock = NoThread
    /\ point = [t \in Printers |-> "out"]
    /\ byte = [t \in Printers |-> 0]
    /\ ier = FALSE
    /\ contended = FALSE
    /\ printed = << >> /\ sent = << >>

-----------------------------------------------------------------------------
(* intq.c and write_ier. *)

\* The end of intq_putc.
Put(b) ==
    /\ buf' = [buf EXCEPT ![head] = b]
    /\ head' = next(head)
    /\ printed' = Append(printed, b)

\* intq_getc of a queue that is not empty; the byte goes to the port.
Transmit ==
    /\ sent' = Append(sent, buf[tail])
    /\ tail' = next(tail)

\* signal (q, &q->not_full).
Signal ==
    /\ point' = IF not_full = NoThread THEN point ELSE [point EXCEPT ![not_full] = "woken"]
    /\ not_full' = NoThread

\* Forgets that a byte was queued.
write_ier_stale == ier' = ier
write_ier == ier' = (head' # tail')

-----------------------------------------------------------------------------
(* Threads. *)

\* acquire_console.  Nested calls by the holder only count.
EnterConsole(t) ==
    /\ point[t] = "out" /\ console_lock = NoThread
    /\ console_lock' = t
    /\ point' = [point EXCEPT ![t] = "in"]
    /\ UNCHANGED <<buf, head, tail, not_full, txq_lock, byte, ier, contended, printed, sent>>

\* release_console.
LeaveConsole(t) ==
    /\ point[t] = "in"
    /\ console_lock' = NoThread
    /\ point' = [point EXCEPT ![t] = "out"]
    /\ UNCHANGED <<buf, head, tail, not_full, txq_lock, byte, ier, contended, printed, sent>>

\* serial_putc with interrupts on and room in the queue.
Putc(t, b) ==
    /\ point[t] = "in" /\ ~intq_full
    /\ Len(printed) < MaxBytes
    /\ tail' = tail
    /\ Put(b) /\ write_ier
    /\ UNCHANGED <<not_full, txq_lock, console_lock, point, byte, contended, sent>>

\* serial_putc with interrupts on and a full queue: lock_acquire, then wait.
\* Had the lock to be waited for, the queue need not be full any more when
\* wait asserts that it is.
PutcWaits(t, b) ==
    /\ point[t] = "in" /\ intq_full
    /\ contended' = (contended \/ txq_lock # NoThread)
    /\ txq_lock' = t
    /\ not_full' = t
    /\ point' = [point EXCEPT ![t] = "blocked"]
    /\ byte' = [byte EXCEPT ![t] = b]
    /\ UNCHANGED <<buf, head, tail, console_lock, ier, printed, sent>>

\* The woken thread releases the lock and finds room.
Resume(t) ==
    /\ point[t] = "woken" /\ ~intq_full
    /\ Len(printed) < MaxBytes
    /\ txq_lock' = NoThread
    /\ point' = [point EXCEPT ![t] = "in"]
    /\ tail' = tail
    /\ Put(byte[t]) /\ write_ier
    /\ UNCHANGED <<not_full, console_lock, byte, contended, sent>>

\* The woken thread finds the queue full again, and waits again.
ResumeWaits(t) ==
    /\ point[t] = "woken" /\ intq_full
    /\ not_full' = t
    /\ point' = [point EXCEPT ![t] = "blocked"]
    /\ UNCHANGED <<buf, head, tail, txq_lock, console_lock, byte, ier, contended, printed, sent>>

-----------------------------------------------------------------------------
(* With interrupts off: interrupt handlers, and a thread that panics.  They *)
(* do not take the console lock.                                            *)

\* serial_putc with interrupts off and room in the queue.
PutcIntrOff(b) ==
    /\ ~intq_full
    /\ Len(printed) < MaxBytes
    /\ tail' = tail
    /\ Put(b) /\ write_ier
    /\ UNCHANGED <<not_full, txq_lock, console_lock, point, byte, contended, sent>>

\* The same with a full queue: the oldest byte is sent by polling.
PutcPolls(b) ==
    /\ intq_full
    /\ Len(printed) < MaxBytes
    /\ Transmit /\ Signal
    /\ Put(b) /\ write_ier
    /\ UNCHANGED <<txq_lock, console_lock, byte, contended>>

\* serial_interrupt with a byte to transmit.
SerialInterrupt ==
    /\ ier /\ ~intq_empty
    /\ Transmit /\ Signal
    /\ head' = head /\ write_ier
    /\ UNCHANGED <<buf, txq_lock, console_lock, byte, contended, printed>>

\* serial_interrupt after a flush: nothing to transmit.
SerialInterruptIdle ==
    /\ ier /\ intq_empty
    /\ UNCHANGED <<head, tail>> /\ write_ier
    /\ UNCHANGED <<buf, not_full, txq_lock, console_lock, point, byte, contended, printed, sent>>

\* How many bytes are in the queue, and which.
Count == (head - tail) % INTQ_BUFSIZE
Contents == [i \in 1 .. Count |-> buf[(tail + i - 1) % INTQ_BUFSIZE]]

\* serial_flush, at a panic and before the power goes off.  It leaves the
\* interrupt enable register as it is.
serial_flush ==
    /\ ~intq_empty
    /\ sent' = sent \o Contents
    /\ tail' = head
    /\ Signal
    /\ UNCHANGED <<buf, head, txq_lock, console_lock, byte, ier, contended, printed>>

SerialNext ==
    \/ \E t \in Printers :
        \/ EnterConsole(t) \/ LeaveConsole(t)
        \/ \E b \in Bytes : Putc(t, b) \/ PutcWaits(t, b)
        \/ Resume(t) \/ ResumeWaits(t)
    \/ \E b \in Bytes : PutcIntrOff(b) \/ PutcPolls(b)
    \/ SerialInterrupt \/ SerialInterruptIdle \/ serial_flush

SerialSpec == SerialInit /\ [][SerialNext]_serialVars

-----------------------------------------------------------------------------
(* Properties. *)

\* Every byte printed by threads and handlers is transmitted once and in
\* order, whichever of interrupt, polling and flush sends it: what was sent
\* and what is in the ring is what was printed.
BytesInOrder == printed = sent \o Contents

\* A thread blocked in intq_putc is registered in not_full, the queue is full
\* and the port will interrupt, so it is woken; and no thread ever sleeps for
\* the queue's lock, after which the assertion in wait could fail.
WaiterWillBeWoken ==
    /\ \A t \in Printers : point[t] = "blocked" => not_full = t /\ intq_full /\ ier
    /\ ~contended
=============================================================================
