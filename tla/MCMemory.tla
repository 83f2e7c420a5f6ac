------------------------------ MODULE MCMemory ------------------------------
(* Small instances of both allocators; the values are in the .cfg file.     *)
EXTENDS Memory
=============================================================================
