--------------------------- MODULE MCPagedAllocator ---------------------------
(* Four pages of four bytes: enough for a process whose pages have a page of  *)
(* another between them.                                                      *)
EXTENDS PagedAllocator
=============================================================================
