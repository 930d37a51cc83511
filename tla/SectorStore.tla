----------------------------- MODULE SectorStore -----------------------------
(***************************************************************************)
(* What the buffer cache of pintos_pro3/src/filesys/cache.c promises to    *)
(* the inode layer above it: an array of sectors that several threads read *)
(* and write, each read and each write taking effect at one instant        *)
(* between its call and its return.  Nothing here knows of cache entries,  *)
(* of the clock hand, of dirty bits or of the disk.                        *)
(***************************************************************************)
CONSTANTS
    Threads,    \* kernel threads that call the cache
    Sectors,    \* block_sector_t values of the file system device
    Values      \* contents of one sector

VARIABLES
    store,      \* store[s]: what a read of sector s returns
    call,       \* call[t]: the operation thread t is in, with its argument
    phase       \* phase[t]: "idle", "called" or "done"

vars == <<store, call, phase>>

(* An operation in progress.  data is the source of a write, or the target *)
(* of a read, which holds arbitrary bytes until the read fills it.         *)
Calls ==
    [op : {"read", "write", "close"}, sector : Sectors, data : Values]

Init ==
    /\ store \in [Sectors -> Values]
    /\ call \in [Threads -> Calls]
    /\ phase = [t \in Threads |-> "idle"]

(* The thread enters cache_read, cache_write or cache_close. *)
Call(t) ==
    /\ phase[t] = "idle"
    /\ \E c \in Calls : call' = [call EXCEPT ![t] = c]
    /\ phase' = [phase EXCEPT ![t] = "called"]
    /\ UNCHANGED store

(* The instant at which a read takes its value ... *)
Read(t) ==
    /\ phase[t] = "called"
    /\ call[t].op = "read"
    /\ call' = [call EXCEPT ![t].data = store[call[t].sector]]
    /\ phase' = [phase EXCEPT ![t] = "done"]
    /\ UNCHANGED store

(* ... a write stores its value ... *)
Write(t) ==
    /\ phase[t] = "called"
    /\ call[t].op = "write"
    /\ store' = [store EXCEPT ![call[t].sector] = call[t].data]
    /\ phase' = [phase EXCEPT ![t] = "done"]
    /\ UNCHANGED call

(* ... and a close is over.  It changes nothing a reader can see. *)
Close(t) ==
    /\ phase[t] = "called"
    /\ call[t].op = "close"
    /\ phase' = [phase EXCEPT ![t] = "done"]
    /\ UNCHANGED <<store, call>>

(* The operation returns; its arguments are gone from then on. *)
Return(t) ==
    /\ phase[t] = "done"
    /\ phase' = [phase EXCEPT ![t] = "idle"]
    /\ \E c \in Calls : call' = [call EXCEPT ![t] = c]
    /\ UNCHANGED store

Next ==
    \E t \in Threads : Call(t) \/ Read(t) \/ Write(t) \/ Close(t) \/ Return(t)

Spec == Init /\ [][Next]_vars
==============================================================================
