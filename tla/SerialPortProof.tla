---------------------------- MODULE SerialPortProof ----------------------------
(***************************************************************************)
(* Proofs about SerialPort for every size of the queue and any printers:   *)
(* bytes are transmitted once and in order, and a thread that waits for    *)
(* room will be woken.                                                     *)
(***************************************************************************)
EXTENDS SerialPort, SequenceTheorems, TLAPS

SerialType ==
    /\ buf \in [Slots -> Bytes]
    /\ head \in Slots /\ tail \in Slots
    /\ not_full \in Printers \cup {NoThread}
    /\ point \in [Printers -> {"out", "in", "blocked", "woken"}]
    /\ byte \in [Printers -> Bytes]
    /\ ier \in BOOLEAN
    /\ printed \in Seq(Bytes) /\ sent \in Seq(Bytes)

(* Only the thread with the console is in it, *)
OneInConsole ==
    \A t \in Printers : point[t] # "out" => console_lock = t

(* so the lock of the queue is taken by a thread that waits, and free for *)
(* one that begins to.                                                    *)
LockWhileWaiting ==
    \A t \in Printers : point[t] = "in" => txq_lock = NoThread

(* The lock has no holder outside the console. *)
LockInConsole ==
    txq_lock # NoThread => \E t \in Printers : point[t] \in {"blocked", "woken"}

(* not_full names a blocked thread. *)
WaiterIsBlocked == not_full # NoThread => point[not_full] = "blocked"

(* The port interrupts as long as there is something to transmit. *)
PortEnabled == ~intq_empty => ier

SerialInv ==
    /\ SerialType
    /\ OneInConsole
    /\ LockWhileWaiting
    /\ LockInConsole
    /\ WaiterIsBlocked
    /\ PortEnabled
    /\ BytesInOrder
    /\ WaiterWillBeWoken

-----------------------------------------------------------------------------
(* The ring. *)

(* A position at most one round ahead. *)
LEMMA Around ==
    ASSUME NEW a \in Slots, NEW k \in Slots
    PROVE  (a + k) % INTQ_BUFSIZE =
               IF a + k < INTQ_BUFSIZE THEN a + k ELSE a + k - INTQ_BUFSIZE
<1>1. CASE a + k < INTQ_BUFSIZE
  BY <1>1, BufferAssumption DEF Slots
<1>2. CASE a + k >= INTQ_BUFSIZE
  BY <1>2, BufferAssumption DEF Slots
<1> QED
  BY <1>1, <1>2, BufferAssumption DEF Slots

(* The distance from b to a around the ring. *)
LEMMA Apart ==
    ASSUME NEW a \in Slots, NEW b \in Slots
    PROVE  (a - b) % INTQ_BUFSIZE = IF a >= b THEN a - b ELSE a - b + INTQ_BUFSIZE
<1>1. CASE a >= b
  BY <1>1, BufferAssumption DEF Slots
<1>2. CASE a < b
  BY <1>2, BufferAssumption DEF Slots
<1> QED
  BY <1>1, <1>2, BufferAssumption DEF Slots

(* next steps to the following slot, and from the last one to the first. *)
LEMMA NextSlot ==
    ASSUME NEW p \in Slots
    PROVE  next(p) = (IF p = INTQ_BUFSIZE - 1 THEN 0 ELSE p + 1) /\ next(p) \in Slots
<1>1. (p + 1) % INTQ_BUFSIZE = IF p + 1 < INTQ_BUFSIZE THEN p + 1 ELSE p + 1 - INTQ_BUFSIZE
  BY Around, BufferAssumption DEF Slots
<1> QED
  BY <1>1, BufferAssumption DEF Slots, next

(* What is in a ring with given ends, and how many bytes. *)
Size(h, t) == IF h >= t THEN h - t ELSE h - t + INTQ_BUFSIZE
At(t, i) == IF t + i - 1 < INTQ_BUFSIZE THEN t + i - 1 ELSE t + i - 1 - INTQ_BUFSIZE
Ring(f, h, t) == [i \in 1 .. Size(h, t) |-> f[At(t, i)]]

(* Contents without arithmetic modulo the size. *)
LEMMA ContentsIsRing ==
    ASSUME head \in Slots, tail \in Slots
    PROVE  Contents = Ring(buf, head, tail)
<1>1. Count = Size(head, tail) /\ Count \in Nat /\ Count < INTQ_BUFSIZE
  BY Apart, BufferAssumption DEF Count, Size, Slots
<1>2. ASSUME NEW i \in 1 .. Count PROVE (tail + i - 1) % INTQ_BUFSIZE = At(tail, i)
  <2>1. i - 1 \in Slots /\ tail + i - 1 = tail + (i - 1)
    BY <1>1, BufferAssumption DEF Slots
  <2> QED
    BY <2>1, Around, BufferAssumption DEF At, Slots
<1> QED
  BY <1>1, <1>2 DEF Contents, Ring

(* A ring of bytes holds a sequence of bytes. *)
LEMMA RingIsSeq ==
    ASSUME NEW f \in [Slots -> Bytes], NEW h \in Slots, NEW t \in Slots
    PROVE  Ring(f, h, t) \in Seq(Bytes) /\ Len(Ring(f, h, t)) = Size(h, t)
<1>1. Size(h, t) \in Nat /\ Size(h, t) < INTQ_BUFSIZE
  BY BufferAssumption DEF Size, Slots
<1>2. \A i \in 1 .. Size(h, t) : At(t, i) \in Slots
  BY <1>1, BufferAssumption DEF At, Slots
<1> QED
  BY <1>1, <1>2 DEF Ring

(* Putting a byte into a ring that is not full appends it. *)
LEMMA PutAppends ==
    ASSUME NEW f \in [Slots -> Bytes], NEW h \in Slots, NEW t \in Slots, NEW b \in Bytes,
           next(h) # t
    PROVE  Ring([f EXCEPT ![h] = b], next(h), t) = Append(Ring(f, h, t), b)
<1> DEFINE g == [f EXCEPT ![h] = b]
           n == Size(h, t)
<1>0. next(h) = IF h = INTQ_BUFSIZE - 1 THEN 0 ELSE h + 1
  BY NextSlot
<1>1. n \in Nat /\ n + 1 < INTQ_BUFSIZE /\ Size(next(h), t) = n + 1
  BY <1>0, BufferAssumption DEF Size, Slots
<1>2. At(t, n + 1) = h
  BY BufferAssumption DEF Size, At, Slots
<1>3. \A i \in 1 .. n : At(t, i) \in Slots /\ At(t, i) # h
  BY <1>1, BufferAssumption DEF Size, At, Slots
<1>4. g \in [Slots -> Bytes] /\ next(h) \in Slots
  BY NextSlot
<1>5. Ring(g, next(h), t) \in Seq(Bytes) /\ Len(Ring(g, next(h), t)) = n + 1
  BY <1>1, <1>4, RingIsSeq
<1>6. Ring(f, h, t) \in Seq(Bytes) /\ Len(Ring(f, h, t)) = n
  BY RingIsSeq
<1>7. \A i \in 1 .. n : Ring(g, next(h), t)[i] = Ring(f, h, t)[i]
  BY <1>1, <1>3 DEF Ring
<1>8. Ring(g, next(h), t)[n + 1] = b
  BY <1>1, <1>2 DEF Ring
<1>9. /\ Append(Ring(f, h, t), b) \in Seq(Bytes)
      /\ Len(Append(Ring(f, h, t), b)) = n + 1
      /\ \A i \in 1 .. n : Append(Ring(f, h, t), b)[i] = Ring(f, h, t)[i]
      /\ Append(Ring(f, h, t), b)[n + 1] = b
  BY <1>1, <1>6, AppendProperties
<1>10. \A i \in 1 .. n + 1 : Ring(g, next(h), t)[i] = Append(Ring(f, h, t), b)[i]
  <2> HIDE DEF n, g
  <2> SUFFICES ASSUME NEW i \in 1 .. n + 1
               PROVE  Ring(g, next(h), t)[i] = Append(Ring(f, h, t), b)[i]
    OBVIOUS
  <2>1. i \in 1 .. n \/ i = n + 1
    BY <1>1
  <2> QED
    BY <2>1, <1>7, <1>8, <1>9
<1> QED
  BY <1>5, <1>9, <1>10, SeqEqual

(* Taking a byte from a ring that is not empty takes the first. *)
LEMMA GetTakesFirst ==
    ASSUME NEW f \in [Slots -> Bytes], NEW h \in Slots, NEW t \in Slots, h # t
    PROVE  Ring(f, h, t) = <<f[t]>> \o Ring(f, h, next(t))
<1> DEFINE n == Size(h, t)
<1>1. n \in Nat /\ n > 0 /\ Size(h, next(t)) = n - 1 /\ next(t) \in Slots
  BY NextSlot, BufferAssumption DEF Size, Slots
<1>2. At(t, 1) = t
  BY BufferAssumption DEF At, Slots
<1>3. \A i \in 1 .. n - 1 : At(next(t), i) = At(t, i + 1)
  <2>1. next(t) = IF t = INTQ_BUFSIZE - 1 THEN 0 ELSE t + 1
    BY NextSlot
  <2>2. n < INTQ_BUFSIZE
    BY BufferAssumption DEF Size, Slots
  <2> HIDE DEF n
  <2> QED
    BY <1>1, <2>1, <2>2, BufferAssumption DEF At, Slots
<1>4. Ring(f, h, t) \in Seq(Bytes) /\ Len(Ring(f, h, t)) = n
  BY RingIsSeq
<1>5. Ring(f, h, next(t)) \in Seq(Bytes) /\ Len(Ring(f, h, next(t))) = n - 1
  BY <1>1, RingIsSeq
<1>6. Ring(f, h, t)[1] = f[t]
  BY <1>1, <1>2 DEF Ring
<1>7. \A i \in 1 .. n - 1 : Ring(f, h, t)[i + 1] = Ring(f, h, next(t))[i]
  BY <1>1, <1>3 DEF Ring
<1> DEFINE c == <<f[t]>> \o Ring(f, h, next(t))
<1>8. /\ c \in Seq(Bytes) /\ Len(c) = n
      /\ \A i \in 1 .. n : c[i] = IF i <= 1 THEN f[t] ELSE Ring(f, h, next(t))[i - 1]
  <2>1. <<f[t]>> \in Seq(Bytes) /\ Len(<<f[t]>>) = 1 /\ \A i \in 1 .. 1 : <<f[t]>>[i] = f[t]
    OBVIOUS
  <2> QED
    BY <1>1, <1>5, <2>1, ConcatProperties
<1>9. \A i \in 1 .. n : Ring(f, h, t)[i] = c[i]
  <2> SUFFICES ASSUME NEW i \in 1 .. n PROVE Ring(f, h, t)[i] = c[i]
    OBVIOUS
  <2>1. CASE i = 1
    BY <1>1, <1>6, <1>8, <2>1
  <2>2. CASE i > 1
    <3>1. i - 1 \in 1 .. n - 1 /\ (i - 1) + 1 = i
      BY <1>1, <2>2
    <3> QED
      BY <1>7, <1>8, <2>2, <3>1
  <2>3. i = 1 \/ i > 1
    OBVIOUS
  <2> QED
    BY <2>1, <2>2, <2>3
<1> QED
  BY <1>4, <1>8, <1>9, SeqEqual

-----------------------------------------------------------------------------
(* The queue under its operations. *)

(* A byte put into a queue with room comes after all others. *)
LEMMA PutInOrder ==
    ASSUME SerialType, BytesInOrder, ~intq_full, NEW b \in Bytes, Put(b),
           tail' = tail, sent' = sent
    PROVE  /\ BytesInOrder'
           /\ buf' \in [Slots -> Bytes] /\ head' \in Slots /\ printed' \in Seq(Bytes)
           /\ head' # tail'
<1>1. Ring(buf', head', tail) = Append(Ring(buf, head, tail), b)
  BY PutAppends DEF SerialType, Put, intq_full
<1>2. /\ buf' \in [Slots -> Bytes] /\ head' \in Slots /\ printed' \in Seq(Bytes)
      /\ head' # tail'
  BY NextSlot DEF SerialType, Put, intq_full
<1>3. Contents = Ring(buf, head, tail) /\ Contents' = Ring(buf', head', tail')
  <2>1. Contents = Ring(buf, head, tail)
    BY ContentsIsRing DEF SerialType
  <2>2. (head \in Slots /\ tail \in Slots => Contents = Ring(buf, head, tail))'
    BY ContentsIsRing, PTL
  <2>3. Contents' = Ring(buf', head', tail')
    BY <1>2, <2>2 DEF SerialType, Ring, Size, At, Slots
  <2> QED
    BY <2>1, <2>3
<1>4. Contents \in Seq(Bytes) /\ sent \in Seq(Bytes)
  BY <1>3, RingIsSeq DEF SerialType
<1>5. printed' = Append(sent \o Contents, b)
  BY DEF Put, BytesInOrder
<1>6. Append(sent \o Contents, b) = sent \o Append(Contents, b)
  BY <1>4
<1> QED
  BY <1>1, <1>2, <1>3, <1>5, <1>6 DEF BytesInOrder

(* The byte transmitted is the oldest in the queue. *)
LEMMA TransmitInOrder ==
    ASSUME SerialType, BytesInOrder, ~intq_empty, Transmit,
           buf' = buf, head' = head, printed' = printed
    PROVE  BytesInOrder' /\ tail' \in Slots /\ sent' \in Seq(Bytes)
<1>1. Ring(buf, head, tail) = <<buf[tail]>> \o Ring(buf, head, tail')
  BY GetTakesFirst DEF SerialType, Transmit, intq_empty
<1>2. tail' \in Slots /\ sent' \in Seq(Bytes) /\ buf[tail] \in Bytes
  BY NextSlot DEF SerialType, Transmit
<1>3. Contents = Ring(buf, head, tail)
  BY ContentsIsRing DEF SerialType
<1>4. Contents' = Ring(buf, head, tail')
  <2>1. (head \in Slots /\ tail \in Slots => Contents = Ring(buf, head, tail))'
    BY ContentsIsRing, PTL
  <2> QED
    BY <1>2, <2>1 DEF SerialType, Ring, Size, At, Slots
<1>5. Contents' \in Seq(Bytes) /\ sent \in Seq(Bytes)
  BY <1>2, <1>4, RingIsSeq DEF SerialType
<1>6. sent \o (<<buf[tail]>> \o Contents') = Append(sent, buf[tail]) \o Contents'
  <2>1. <<buf[tail]>> \in Seq(Bytes) /\ Append(sent, buf[tail]) = sent \o <<buf[tail]>>
    BY <1>2, <1>5, AppendIsConcat
  <2> QED
    BY <1>5, <2>1, ConcatAssociative
<1> QED
  BY <1>1, <1>2, <1>3, <1>4, <1>6 DEF BytesInOrder, Transmit

(* A flush sends what is in the queue. *)
LEMMA FlushInOrder ==
    ASSUME SerialType, BytesInOrder, serial_flush
    PROVE  BytesInOrder' /\ tail' \in Slots /\ sent' \in Seq(Bytes)
<1>1. Contents = Ring(buf, head, tail)
  BY ContentsIsRing DEF SerialType
<1>2. Contents \in Seq(Bytes) /\ sent \in Seq(Bytes)
  BY <1>1, RingIsSeq DEF SerialType
<1>3. sent' \in Seq(Bytes) /\ tail' \in Slots /\ head' = tail'
  BY <1>2, ConcatProperties DEF serial_flush, SerialType
<1>4. Contents' = << >>
  <2>1. \A p \in Slots : (p - p) % INTQ_BUFSIZE = 0
    BY Apart, BufferAssumption DEF Slots
  <2>2. (head' - tail') % INTQ_BUFSIZE = 0
    BY <1>3, <2>1
  <2> QED
    BY <2>2 DEF Contents, Count
<1>5. sent' \o << >> = sent'
  BY <1>3, ConcatEmptySeq
<1> QED
  BY <1>3, <1>4, <1>5 DEF BytesInOrder, serial_flush

-----------------------------------------------------------------------------
(* The inductive invariant. *)

(* The state after serial_init_queue satisfies the invariant. *)
LEMMA SerialInitInv == SerialInit => SerialInv
<1> SUFFICES ASSUME SerialInit PROVE SerialInv
  OBVIOUS
<1>1. SerialType
  <2>1. buf \in [Slots -> Bytes] /\ byte \in [Printers -> Bytes]
    BY BytesAssumption DEF SerialInit
  <2>2. head \in Slots /\ tail \in Slots
    BY BufferAssumption DEF SerialInit, Slots
  <2>3. point \in [Printers -> {"out", "in", "blocked", "woken"}]
    BY DEF SerialInit
  <2>4. printed \in Seq(Bytes) /\ sent \in Seq(Bytes)
    BY EmptySeq DEF SerialInit
  <2> QED
    BY <2>1, <2>2, <2>3, <2>4 DEF SerialInit, SerialType
<1>2. Contents = << >>
  <2>1. (head - tail) % INTQ_BUFSIZE = 0
    BY <1>1, Apart, BufferAssumption DEF SerialInit, SerialType, Slots
  <2> QED
    BY <2>1 DEF Contents, Count
<1>3. BytesInOrder
  BY <1>2 DEF BytesInOrder, SerialInit
<1> QED
  BY <1>1, <1>3, NoThreadAssumption
  DEF SerialInit, SerialInv, OneInConsole, LockWhileWaiting, LockInConsole,
      WaiterIsBlocked, PortEnabled, WaiterWillBeWoken, intq_empty

(* A thread comes in or goes out only when nobody waits. *)
LEMMA ConsoleInv ==
    ASSUME SerialInv, NEW t \in Printers, EnterConsole(t) \/ LeaveConsole(t)
    PROVE  SerialInv'
<1> USE NoThreadAssumption DEF SerialInv, SerialType
<1>1. SerialType' /\ BytesInOrder'
  BY DEF EnterConsole, LeaveConsole, BytesInOrder, Contents, Count
<1>2. OneInConsole'
  BY DEF EnterConsole, LeaveConsole, OneInConsole
<1>3. LockWhileWaiting' /\ LockInConsole'
  BY DEF EnterConsole, LeaveConsole, OneInConsole, LockWhileWaiting, LockInConsole
<1>4. WaiterIsBlocked' /\ PortEnabled' /\ WaiterWillBeWoken'
  BY DEF EnterConsole, LeaveConsole, WaiterIsBlocked, PortEnabled, WaiterWillBeWoken,
         intq_empty, intq_full, OneInConsole
<1> QED
  BY <1>1, <1>2, <1>3, <1>4

(* With room in the queue, the byte of a thread or of a handler goes in. *)
LEMMA PutcInv ==
    ASSUME SerialInv, NEW b \in Bytes,
           PutcIntrOff(b) \/ \E t \in Printers : Putc(t, b)
    PROVE  SerialInv'
<1> USE NoThreadAssumption DEF SerialInv
<1>0. /\ ~intq_full /\ Put(b) /\ write_ier
      /\ UNCHANGED <<tail, not_full, txq_lock, console_lock, point, byte, contended, sent>>
  BY DEF Putc, PutcIntrOff
<1>1. /\ BytesInOrder' /\ head' # tail'
      /\ buf' \in [Slots -> Bytes] /\ head' \in Slots /\ printed' \in Seq(Bytes)
  BY <1>0, PutInOrder
<1>2. SerialType'
  BY <1>0, <1>1 DEF SerialType, write_ier
<1>3. \A t \in Printers : point[t] # "blocked"
  BY <1>0 DEF WaiterWillBeWoken
<1> QED
  BY <1>0, <1>1, <1>2, <1>3
  DEF OneInConsole, LockWhileWaiting, LockInConsole, WaiterIsBlocked, PortEnabled,
      WaiterWillBeWoken, write_ier, intq_empty

(* A thread that finds the queue full gets the lock at once and waits. *)
LEMMA WaitInv ==
    ASSUME SerialInv, NEW t \in Printers,
           ResumeWaits(t) \/ \E b \in Bytes : PutcWaits(t, b)
    PROVE  SerialInv'
<1> USE NoThreadAssumption DEF SerialInv, SerialType
<1>1. point[t] # "out" /\ \A u \in Printers : u # t => point[u] = "out"
  BY DEF ResumeWaits, PutcWaits, OneInConsole
<1>2. /\ intq_full /\ point' = [point EXCEPT ![t] = "blocked"] /\ not_full' = t
      /\ UNCHANGED <<buf, head, tail, console_lock, ier, printed, sent>>
  BY DEF ResumeWaits, PutcWaits
<1>3. SerialType' /\ BytesInOrder'
  BY <1>2 DEF ResumeWaits, PutcWaits, BytesInOrder, Contents, Count
<1>4. ~contended' /\ intq_full' /\ ier'
  <2>1. head # tail
    BY <1>2, NextSlot, BufferAssumption DEF intq_full, Slots
  <2>2. ~contended'
    BY DEF ResumeWaits, PutcWaits, WaiterWillBeWoken, LockWhileWaiting
  <2> QED
    BY <1>2, <2>1, <2>2 DEF PortEnabled, intq_empty, intq_full
<1>5. OneInConsole' /\ LockWhileWaiting' /\ LockInConsole'
  BY <1>1, <1>2 DEF OneInConsole, LockWhileWaiting, LockInConsole
<1>6. WaiterIsBlocked' /\ PortEnabled' /\ WaiterWillBeWoken'
  BY <1>1, <1>2, <1>4 DEF WaiterIsBlocked, PortEnabled, WaiterWillBeWoken
<1> QED
  BY <1>3, <1>5, <1>6

(* A thread woken with room in the queue puts its byte. *)
LEMMA ResumeInv == ASSUME SerialInv, NEW t \in Printers, Resume(t) PROVE SerialInv'
<1> USE NoThreadAssumption DEF SerialInv
<1>1. /\ BytesInOrder' /\ head' # tail'
      /\ buf' \in [Slots -> Bytes] /\ head' \in Slots /\ printed' \in Seq(Bytes)
  <2>1. byte[t] \in Bytes
    BY DEF SerialType
  <2> QED
    BY <2>1, PutInOrder DEF Resume
<1>2. SerialType'
  BY <1>1 DEF SerialType, Resume, write_ier
<1>3. point[t] # "out" /\ \A u \in Printers : u # t => point[u] = "out"
  BY DEF Resume, OneInConsole
<1>4. not_full = NoThread
  BY <1>3 DEF Resume, WaiterIsBlocked, SerialType
<1> QED
  BY <1>1, <1>2, <1>3, <1>4
  DEF OneInConsole, LockWhileWaiting, LockInConsole, WaiterIsBlocked, PortEnabled,
      WaiterWillBeWoken, write_ier, intq_empty, Resume, SerialType

(* A signal wakes whoever waits and nobody else. *)
LEMMA SignalWakes ==
    ASSUME SerialInv, Signal
    PROVE  /\ point' \in [Printers -> {"out", "in", "blocked", "woken"}]
           /\ not_full' = NoThread
           /\ \A t \in Printers :
                /\ point'[t] # "blocked"
                /\ point[t] = "out" <=> point'[t] = "out"
                /\ point[t] = "in" <=> point'[t] = "in"
  BY NoThreadAssumption DEF SerialInv, SerialType, Signal, WaiterIsBlocked, WaiterWillBeWoken

(* What a signal leaves of the waiting threads' invariant. *)
LEMMA SignalKeeps ==
    ASSUME SerialInv, Signal, UNCHANGED <<txq_lock, console_lock, contended>>
    PROVE  /\ OneInConsole' /\ LockWhileWaiting' /\ LockInConsole'
           /\ WaiterIsBlocked' /\ WaiterWillBeWoken'
<1>1. OneInConsole' /\ LockWhileWaiting'
  BY SignalWakes DEF SerialInv, OneInConsole, LockWhileWaiting
<1>2. LockInConsole'
  BY SignalWakes DEF SerialInv, SerialType, LockInConsole
<1> QED
  BY <1>1, <1>2, SignalWakes DEF SerialInv, WaiterIsBlocked, WaiterWillBeWoken

(* An interrupt transmits a byte and wakes the waiter. *)
LEMMA InterruptInv ==
    ASSUME SerialInv, SerialInterrupt \/ SerialInterruptIdle
    PROVE  SerialInv'
<1>1. CASE SerialInterrupt
  <2>1. BytesInOrder' /\ tail' \in Slots /\ sent' \in Seq(Bytes)
    BY <1>1, TransmitInOrder DEF SerialInterrupt, SerialInv
  <2>2. SerialType'
    BY <1>1, <2>1, SignalWakes DEF SerialInterrupt, SerialInv, SerialType, write_ier
  <2> QED
    BY <1>1, <2>1, <2>2, SignalKeeps
    DEF SerialInterrupt, SerialInv, PortEnabled, write_ier, intq_empty
<1>2. CASE SerialInterruptIdle
  <2>1. SerialType' /\ BytesInOrder'
    BY <1>2 DEF SerialInterruptIdle, SerialInv, SerialType, BytesInOrder, Contents, Count, write_ier
  <2>2. \A t \in Printers : point[t] # "blocked"
    BY <1>2, NextSlot, BufferAssumption
    DEF SerialInterruptIdle, SerialInv, SerialType, WaiterWillBeWoken, intq_empty, intq_full, Slots
  <2> QED
    BY <1>2, <2>1, <2>2
    DEF SerialInterruptIdle, SerialInv, OneInConsole, LockWhileWaiting, LockInConsole,
        WaiterIsBlocked, PortEnabled, WaiterWillBeWoken, write_ier, intq_empty
<1> QED
  BY <1>1, <1>2

(* A flush empties the queue; the port may still interrupt, for nothing. *)
LEMMA FlushInv == ASSUME SerialInv, serial_flush PROVE SerialInv'
<1>1. BytesInOrder' /\ tail' \in Slots /\ sent' \in Seq(Bytes)
  BY FlushInOrder DEF SerialInv
<1>2. SerialType'
  BY <1>1, SignalWakes DEF serial_flush, SerialInv, SerialType
<1> QED
  BY <1>1, <1>2, SignalKeeps DEF serial_flush, SerialInv, PortEnabled, intq_empty

(* A handler that finds the queue full sends the oldest byte and puts its *)
(* own, in that order; a waiter wakes and finds the queue full again.     *)
LEMMA PollInv == ASSUME SerialInv, NEW b \in Bytes, PutcPolls(b) PROVE SerialInv'
<1>1. /\ head \in Slots /\ tail \in Slots /\ buf \in [Slots -> Bytes]
      /\ sent \in Seq(Bytes) /\ printed = sent \o Contents
  BY DEF SerialInv, SerialType, BytesInOrder
<1>2. next(head) = tail /\ head' = tail /\ tail' = next(tail) /\ tail' \in Slots
  BY <1>1, NextSlot DEF PutcPolls, Put, Transmit, intq_full
<1>3. head # tail /\ next(head) # next(tail)
  BY <1>1, <1>2, NextSlot, BufferAssumption DEF Slots
<1>4. Contents = <<buf[tail]>> \o Ring(buf, head, next(tail))
  BY <1>1, <1>3, ContentsIsRing, GetTakesFirst
<1>5. Contents' = Append(Ring(buf, head, next(tail)), b)
  <2>1. (head \in Slots /\ tail \in Slots => Contents = Ring(buf, head, tail))'
    BY ContentsIsRing, PTL
  <2>2. Contents' = Ring(buf', head', tail')
    BY <1>1, <1>2, <2>1 DEF Ring, Size, At, Slots
  <2>3. Ring([buf EXCEPT ![head] = b], next(head), next(tail)) =
            Append(Ring(buf, head, next(tail)), b)
    BY <1>1, <1>2, <1>3, PutAppends
  <2> QED
    BY <1>2, <2>2, <2>3 DEF PutcPolls, Put
<1>6. BytesInOrder'
  <2>1. PICK r : r = Ring(buf, head, next(tail))
    OBVIOUS
  <2>2. r \in Seq(Bytes) /\ buf[tail] \in Bytes
    BY <1>1, <1>2, <2>1, RingIsSeq
  <2>3. printed' = Append(sent \o (<<buf[tail]>> \o r), b) /\ sent' = Append(sent, buf[tail])
    BY <1>1, <1>4, <2>1 DEF PutcPolls, Put, Transmit
  <2>4. Append(sent \o (<<buf[tail]>> \o r), b) = Append(sent, buf[tail]) \o Append(r, b)
    <3>1. /\ <<buf[tail]>> \in Seq(Bytes) /\ <<b>> \in Seq(Bytes)
          /\ Append(sent, buf[tail]) = sent \o <<buf[tail]>>
          /\ Append(r, b) = r \o <<b>>
      BY <1>1, <2>2, AppendIsConcat
    <3>2. sent \o (<<buf[tail]>> \o r) = (sent \o <<buf[tail]>>) \o r
      BY <1>1, <2>2, <3>1, ConcatAssociative
    <3>3. sent \o <<buf[tail]>> \in Seq(Bytes) /\ (sent \o <<buf[tail]>>) \o r \in Seq(Bytes)
      BY <1>1, <2>2, <3>1, ConcatProperties
    <3>4. Append((sent \o <<buf[tail]>>) \o r, b) = ((sent \o <<buf[tail]>>) \o r) \o <<b>>
      BY <3>3, AppendIsConcat
    <3>5. ((sent \o <<buf[tail]>>) \o r) \o <<b>> = (sent \o <<buf[tail]>>) \o (r \o <<b>>)
      BY <2>2, <3>1, <3>3, ConcatAssociative
    <3> QED
      BY <3>1, <3>2, <3>4, <3>5
  <2> QED
    BY <1>5, <2>1, <2>3, <2>4 DEF BytesInOrder
<1>7. SerialType'
  <2>1. printed' \in Seq(Bytes) /\ sent' \in Seq(Bytes) /\ buf' \in [Slots -> Bytes]
    BY <1>1, AppendProperties DEF PutcPolls, Put, Transmit, SerialInv, SerialType
  <2> QED
    BY <1>1, <1>2, <2>1, SignalWakes DEF PutcPolls, SerialInv, SerialType, write_ier
<1>8. PortEnabled'
  BY <1>2 DEF PutcPolls, PortEnabled, write_ier, intq_empty
<1> QED
  BY <1>6, <1>7, <1>8, SignalKeeps DEF PutcPolls, SerialInv

(* Nothing happens. *)
LEMMA StutterInv == ASSUME SerialInv, UNCHANGED serialVars PROVE SerialInv'
  BY DEF serialVars, SerialInv, SerialType, OneInConsole, LockWhileWaiting, LockInConsole,
         WaiterIsBlocked, PortEnabled, BytesInOrder, WaiterWillBeWoken, Contents, Count,
         intq_empty, intq_full

(* No interleaving of printers, handlers and interrupts leaves the invariant. *)
THEOREM SerialInvHolds == SerialSpec => []SerialInv
<1>1. SerialInv /\ [SerialNext]_serialVars => SerialInv'
  BY ConsoleInv, PutcInv, WaitInv, ResumeInv, InterruptInv, FlushInv, PollInv, StutterInv
  DEF SerialNext
<1> QED
  BY <1>1, SerialInitInv, PTL DEF SerialSpec

(* Bytes are transmitted once and in the order of printing, for every size *)
(* of the interrupt queue.                                                 *)
THEOREM TransmittedInOrder == SerialSpec => []BytesInOrder
<1>1. SerialInv => BytesInOrder
  BY DEF SerialInv
<1> QED
  BY <1>1, SerialInvHolds, PTL

(* A thread blocked in intq_putc will be woken, and the assertion of wait *)
(* cannot fail.                                                           *)
THEOREM NoWaiterForgotten == SerialSpec => []WaiterWillBeWoken
<1>1. SerialInv => WaiterWillBeWoken
  BY DEF SerialInv
<1> QED
  BY <1>1, SerialInvHolds, PTL
=============================================================================
