------------------------------- MODULE Memory -------------------------------
(***************************************************************************)
(* The two allocators of src/src/memory.c, which share nothing, side by    *)
(* side.                                                                   *)
(***************************************************************************)
EXTENDS MemoryPool, StackAlloc

MemoryInit == Init /\ StackInit

MemoryNext ==
  \/ Next /\ UNCHANGED stackVars
  \/ StackNext /\ UNCHANGED vars

MemorySpec == MemoryInit /\ [][MemoryNext]_<<vars, stackVars>>

(* The variables of both allocators have their types; in particular a stack *)
(* is never recorded at an address before its mapping (memory.c:35).        *)
TypesOK == TypeOK /\ StackTypeOK
=============================================================================
