---------------------------- MODULE MCBufferCache ----------------------------
(* A cache of two entries over three sectors, used by two threads: misses  *)
(* must evict, and both clean and dirty victims occur with the other       *)
(* thread waiting for the lock or shutting the machine down.  Sector 2 is  *)
(* only read and sector 1 only set; sector 0 is written back and forth.    *)
EXTENDS BufferCache

MCRequests ==
    [op : {"read"}, sector : Sectors, data : {Zeros}]
      \cup [op : {"write"}, sector : {0}, data : Values]
      \cup [op : {"write"}, sector : {1}, data : Values \ {Zeros}]
      \cup [op : {"close"}, sector : {0}, data : {Zeros}]
==============================================================================
