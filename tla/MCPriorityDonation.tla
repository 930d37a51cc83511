-------------------------- MODULE MCPriorityDonation --------------------------
(* Three threads of three priorities and two locks: nested and multiple      *)
(* donation, barging, sleeping holders and deadlocked pairs all occur.  One  *)
(* preemption inside the lock code, or one lowering of a holder's priority,  *)
(* is let in per behaviour.                                                  *)
EXTENDS PriorityDonation, TLC

MCPriorities == 1 .. 3
MCNewPriorities == {1, 3}

Symmetry == Permutations(Threads \ {Main}) \cup Permutations(Locks)
==============================================================================
