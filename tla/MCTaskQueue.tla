---------------------------- MODULE MCTaskQueue ----------------------------
(* TaskQueue on small instances; the values are in the .cfg files. *)
EXTENDS TaskQueueProps, TLC

Symmetry ==
  Permutations(Producers) \cup Permutations(Consumers)
  \cup Permutations(Nodes) \cup Permutations(Tasks)
=============================================================================
