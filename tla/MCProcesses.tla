----------------------------- MODULE MCProcesses -----------------------------
(* The main thread and two processes, in a machine with memory for three   *)
(* threads: siblings, a grandchild, a parent that dies before its child,   *)
(* and a thread_create that fails all occur.  A program exits with a       *)
(* status of its own, or with -1 after a page fault.                       *)
EXTENDS Processes

MCCodes == {-1, 7}
==============================================================================
