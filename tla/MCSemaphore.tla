---------------------------- MODULE MCSemaphore ----------------------------
(* Semaphore on small instances; the values are in the .cfg files. *)
EXTENDS SemaphoreProps, TLC

Symmetry == Permutations(Threads)
=============================================================================
