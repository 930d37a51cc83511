---------------------------- MODULE MCJobScheduler ----------------------------
(* Three jobs of a low and the highest priority: ties between two that wait, *)
(* a job that overtakes by waiting or is kept waiting by the current one, and *)
(* children that end unnoticed.                                               *)
EXTENDS JobScheduler
=============================================================================
