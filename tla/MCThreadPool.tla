---------------------------- MODULE MCThreadPool ----------------------------
(* ThreadPool on small instances; the values are in the .cfg files. *)
EXTENDS ThreadPoolProps, TLC

Symmetry ==
  Permutations(Workers) \cup Permutations(Clients) \cup Permutations(Tasks)
=============================================================================
